---------------------------- MODULE ArchiveReader ----------------------------
(***************************************************************************)
(* How an Ishikari node resolves a tile of one PMTiles archive that may be *)
(* replaced in object storage at any time: the logical bootstrap pointer   *)
(* and its revalidation (pmtiles/cache.rs, pmtiles/reader.rs), the         *)
(* single-flighted bootstrap load, the routing of tile, bootstrap and leaf *)
(* requests to peers in rendezvous order (storage/peer.rs), the resolver's *)
(* fallback to the locally pinned generation (storage/resolver.rs), and    *)
(* the internal endpoints that serve the peers.                            *)
(*                                                                         *)
(* A client request is a stack of frames: the request itself and, while it *)
(* waits for a peer, the handler running there (a peer's tile handler may  *)
(* in turn wait for the archive's owner).  The bytes of a directory leaf   *)
(* or of a tile are abstracted to the generation they were read from.  The *)
(* chunk cache below a pinned read is one of its outcomes: after the       *)
(* object was replaced a read pinned to the old generation either still    *)
(* finds its chunks cached or reports that the generation changed.         *)
(***************************************************************************)
EXTENDS Naturals, Sequences, FiniteSets

CONSTANTS Nodes,       \* cluster members
          Tasks,       \* client requests for the one tile
          Home,        \* Home[t]: the node that receives request t
          ArchiveRank, \* the members in rendezvous order for the archive
          TileRank,    \* the members in rendezvous order for the tile's group
          TileGens,    \* the generations that contain the tile
          Interval,    \* archive_revalidation_interval, in clock ticks
          Cooldown,    \* ARCHIVE_REVALIDATION_FAILURE_COOLDOWN, in ticks
          Scenarios,   \* bounds on what the environment does, see Bounded
          NoTask       \* no request leads a flight

VARIABLES
    now,       \* the clock
    gen,       \* generation of the object in storage, 0 when it is absent
    pub,       \* number of generations published so far
    arch,      \* arch[n]: cached bootstrap pointer [gen, until, seen], gen 0 if none
    absent,    \* nodes that remember the archive as absent
    tiles,     \* tiles[n]: tile cache entries [gen, val], val 0 for a negative one
    leafs,     \* leafs[n]: leaf cache entries [gen, val]
    flight,    \* flight[n]: the request leading the bootstrap flight, or NoTask
    stack,     \* stack[t]: frames of request t, the running one first
    ans,       \* ans[t]: the reply sent to the client
    draining,  \* members that began to drain
    backoff,   \* backoff[n]: <<peer, kind of request>> of recent retryable failures
    used,      \* what the environment did so far
    sc         \* the bounds on it

vars == <<now, gen, pub, arch, absent, tiles, leafs, flight, stack, ans,
          draining, backoff, used, sc>>

(***************************************************************************)
(* The environment's events, each bounded by the scenario: publications    *)
(* (of generations 1, 2, ...), deletions, clock ticks, client requests and *)
(* their cancellations, failures, members that start to drain, and whether *)
(* a forward may outlast its deadline; "start" is the object's generation  *)
(* when the cluster starts cold, 0 when there is none yet.                 *)
(***************************************************************************)
NoneUsed == [pubs |-> 0, dels |-> 0, calls |-> 0, cancels |-> 0, faults |-> 0, drains |-> 0]
Bounded(event) ==
    /\ used[event] < sc[event]
    /\ used' = [used EXCEPT ![event] = @ + 1]
    /\ sc' = sc

NoArchive == [gen |-> 0, until |-> 0, seen |-> 0]

(***************************************************************************)
(* A frame: the job and where it runs, the call of load_bootstrap it is in *)
(* ("at"), its state inside that call or after it ("st"), the candidates   *)
(* it has left to ask and for what ("cand", "want"), and the values it     *)
(* holds: the admitted generation, the leaf's and the tile's, the one just *)
(* observed and when, and the attempt.                                     *)
(***************************************************************************)
Frame(job, n) ==
    [job |-> job, node |-> n, at |-> IF job \in {"route", "tile"} THEN "key" ELSE "serve",
     st |-> "look", want |-> "", cand |-> <<>>, g |-> 0, leaf |-> 0, data |-> 0, obs |-> 0,
     seen |-> 0, try |-> 0, reply |-> ""]

Done(f, reply) == [f EXCEPT !.st = "reply", !.reply = reply]

ReplyRecord(f) == [reply |-> f.reply, g |-> f.g, data |-> f.data]

NoReply == [reply |-> "", g |-> 0, data |-> 0]

Top(t) == Head(stack[t])
Below(t) == Tail(stack[t])
At(t, st) == stack[t] # <<>> /\ Top(t).st = st
WithTop(t, f) == [stack EXCEPT ![t] = <<f>> \o Tail(@)]

(***************************************************************************)
(* The caches.  ArchiveCache::get serves an entry until it is due; a due   *)
(* entry stays behind and asks for a revalidation.                         *)
(***************************************************************************)
Fresh(n) == arch[n].gen # 0 /\ now < arch[n].until
Due(n) == arch[n].gen # 0 /\ now >= arch[n].until
Entry(cache, g) == {e \in cache : e.gen = g}
Put(cache, g, v) == {e \in cache : e.gen # g} \cup {[gen |-> g, val |-> v]}

(***************************************************************************)
(* route_with_backoff over the peer snapshot: rendezvous order without the *)
(* peers in backoff for this kind of request; the snapshot may or may not  *)
(* yet know who drains.                                                    *)
(***************************************************************************)
RankFor(want) == IF want = "tile" THEN TileRank ELSE ArchiveRank

Candidates(n, want) ==
    {SelectSeq(RankFor(want), LAMBDA m : <<m, want>> \notin backoff[n] /\ m \notin gone) :
        gone \in SUBSET draining}

LocalStep(f, want) ==
    CASE want = "boot" -> [f EXCEPT !.st = "observe"]
      [] want = "tile" -> [f EXCEPT !.at = "get", !.st = "look"]
      [] want = "leaf" -> [f EXCEPT !.st = "leafread"]

TryPeers(f, want, cand) ==
    IF cand = <<>> \/ Head(cand) = f.node
    THEN LocalStep(f, want)
    ELSE [f EXCEPT !.st = "send", !.want = want, !.cand = cand]

(***************************************************************************)
(* What each call of load_bootstrap does with its result: the archive key  *)
(* of the request ("key"), the header of a peer's tile ("hdr"), the        *)
(* traversal of get_tile ("get"), the local reload before its restart      *)
(* ("again"), and a handler that serves bootstrap or leaf bytes ("serve"). *)
(***************************************************************************)
Restart(f) == [f EXCEPT !.at = "get", !.st = "look", !.try = 1]

AfterKey(f, g) ==
    LET hit == Entry(tiles[f.node], g)
    IN  CASE \E e \in hit : e.val # 0 ->
               Done([f EXCEPT !.g = g, !.leaf = g, !.data = (CHOOSE e \in hit : TRUE).val], "ok")
          [] \E e \in hit : e.val = 0 -> Done([f EXCEPT !.g = g], "missing")
          [] hit = {} /\ f.job = "route" -> [f EXCEPT !.g = g, !.st = "route"]
          [] OTHER -> [f EXCEPT !.g = g, !.at = "get", !.st = "look"]

Admit(f, g, seen) ==
    CASE f.at = "key" -> AfterKey(f, g)
      [] f.at = "hdr" -> IF g = f.g THEN Done(f, "ok") ELSE TryPeers(f, "tile", f.cand)
      [] f.at = "get" -> [f EXCEPT !.st = "leaf", !.g = g]
      [] f.at = "again" -> Restart(f)
      [] f.job = "boot" -> Done([f EXCEPT !.g = g, !.seen = seen], "ok")
      [] OTHER -> [f EXCEPT !.st = "leafread", !.g = g]

AdmitNone(f) ==
    CASE f.at = "hdr" -> TryPeers(f, "tile", f.cand)
      [] f.at = "again" -> Restart(f)
      [] OTHER -> Done(f, "missing")

AdmitError(f, error) ==
    IF f.at = "hdr" /\ error = "retry" THEN TryPeers(f, "tile", f.cand) ELSE Done(f, error)

\* A peer's tile whose header is admitted enters the caller's tile cache.
AdmitTiles(f, g) ==
    IF f.at = "hdr" /\ g = f.g
    THEN [tiles EXCEPT ![f.node] = Put(@, g, f.data)]
    ELSE tiles

\* The end of a flight: its followers look again, or share the leader's error.
Woken(ns, stk, error) ==
    [u \in Tasks |->
        IF stk[u] # <<>> /\ Head(stk[u]).st = "wait" /\ Head(stk[u]).node \in ns
        THEN <<IF error = "" THEN [Head(stk[u]) EXCEPT !.st = "look"]
                             ELSE AdmitError(Head(stk[u]), error)>> \o Tail(stk[u])
        ELSE stk[u]]

EndFlight(n, stk, error) ==
    /\ flight' = [flight EXCEPT ![n] = NoTask]
    /\ stack' = Woken({n}, stk, error)
-----------------------------------------------------------------------------
(***************************************************************************)
(* The environment: publications, the clock, clients, draining members.    *)
(***************************************************************************)
Publish ==
    /\ Bounded("pubs")
    /\ pub' = pub + 1
    /\ gen' = pub + 1
    /\ UNCHANGED <<now, arch, absent, tiles, leafs, flight, stack, ans, draining, backoff>>

Delete ==
    /\ gen # 0
    /\ Bounded("dels")
    /\ gen' = 0
    /\ UNCHANGED <<now, pub, arch, absent, tiles, leafs, flight, stack, ans, draining, backoff>>

\* A tick is longer than any forward's deadline.
Tick ==
    /\ now < sc.ticks
    /\ \A t \in Tasks : Len(stack[t]) <= 1
    /\ now' = now + 1
    /\ UNCHANGED <<gen, pub, arch, absent, tiles, leafs, flight, stack, ans, draining, backoff, used, sc>>

\* The short lifetimes: remembered absence, negative tiles, peer backoff.
Forget(n) ==
    /\ absent' = absent \ {n}
    /\ tiles' = [tiles EXCEPT ![n] = {e \in @ : e.val # 0}]
    /\ backoff' = [backoff EXCEPT ![n] = {}]
    /\ <<absent', tiles', backoff'>> # <<absent, tiles, backoff>>
    /\ UNCHANGED <<now, gen, pub, arch, leafs, flight, stack, ans, draining, used, sc>>

Drain(n) ==
    /\ n \notin draining
    /\ Bounded("drains")
    /\ draining' = draining \cup {n}
    /\ UNCHANGED <<now, gen, pub, arch, absent, tiles, leafs, flight, stack, ans, backoff>>

Arrive(t) ==
    /\ stack[t] = <<>>
    /\ Bounded("calls")
    /\ stack' = [stack EXCEPT ![t] = <<Frame("route", Home[t])>>]
    /\ ans' = [ans EXCEPT ![t] = NoReply]
    /\ UNCHANGED <<now, gen, pub, arch, absent, tiles, leafs, flight, draining, backoff>>
-----------------------------------------------------------------------------
(***************************************************************************)
(* load_bootstrap_with_metadata and load_bootstrap_local: one lookup, and  *)
(* the election when the cache does not answer.  The leader's recheck of   *)
(* the cache is subsumed: lookup and election are one step here.           *)
(***************************************************************************)
\* Mutant: a due pointer is refreshed like a missing one.
LeadFrameFromPeers(f) ==
    IF f.at \in {"again", "serve"} THEN {[f EXCEPT !.st = "observe"]}
    ELSE {TryPeers(f, "boot", c) : c \in Candidates(f.node, "boot")}

LeadFrame(f) ==
    IF f.at \in {"again", "serve"} THEN {[f EXCEPT !.st = "observe"]}
    ELSE IF Due(f.node) THEN {[f EXCEPT !.st = "revalidate"]}
    ELSE {TryPeers(f, "boot", c) : c \in Candidates(f.node, "boot")}

Look(t) ==
    /\ At(t, "look")
    /\ LET f == Top(t)  n == Top(t).node
       IN  \/ /\ Fresh(n)
              /\ stack' = WithTop(t, Admit(f, arch[n].gen, arch[n].seen))
              /\ tiles' = AdmitTiles(f, arch[n].gen)
              /\ UNCHANGED flight
           \/ /\ ~Fresh(n) /\ n \in absent
              /\ stack' = WithTop(t, AdmitNone(f))
              /\ UNCHANGED <<tiles, flight>>
           \/ /\ ~Fresh(n) /\ n \notin absent
              /\ IF flight[n] = NoTask
                 THEN /\ flight' = [flight EXCEPT ![n] = t]
                      /\ \E lead \in LeadFrame(f) : stack' = WithTop(t, lead)
                 ELSE /\ stack' = WithTop(t, [f EXCEPT !.st = "wait"])
                      /\ UNCHANGED flight
              /\ UNCHANGED tiles
    /\ UNCHANGED <<now, gen, pub, arch, absent, leafs, ans, draining, backoff, used, sc>>

(***************************************************************************)
(* load_bootstrap_local_uncached: the authoritative observation, and what  *)
(* its answer leads to, by which time the object may have changed again.   *)
(* An object installs its pointer with a full interval from then on, a     *)
(* missing one is remembered, and either result ends the flight.           *)
(***************************************************************************)
Observe(t) ==
    /\ At(t, "observe") \/ At(t, "revalidate")
    /\ stack' = WithTop(t, [Top(t) EXCEPT !.st = "install", !.obs = gen, !.seen = now])
    /\ UNCHANGED <<now, gen, pub, arch, absent, tiles, leafs, flight, ans, draining, backoff, used, sc>>

Installed(n, g, seen) ==
    [arch EXCEPT ![n] = [gen |-> g, until |-> now + Interval, seen |-> seen]]

Install(t) ==
    /\ At(t, "install")
    /\ LET f == [Top(t) EXCEPT !.obs = 0, !.seen = 0]  n == Top(t).node
           g == Top(t).obs  seen == Top(t).seen
       IN  IF g # 0
           THEN /\ arch' = Installed(n, g, seen)
                /\ absent' = absent \ {n}
                /\ tiles' = AdmitTiles(f, g)
                /\ EndFlight(n, WithTop(t, Admit(f, g, seen)), "")
           ELSE /\ absent' = absent \cup {n}
                /\ EndFlight(n, WithTop(t, AdmitNone(f)), "")
                /\ UNCHANGED <<arch, tiles>>
    /\ UNCHANGED <<now, gen, pub, leafs, ans, draining, backoff, used, sc>>

(***************************************************************************)
(* The observation fails.  revalidate_bootstrap makes the due entry usable *)
(* for a cooldown and serves it; a cold load shares the error.             *)
(***************************************************************************)
ObserveFails(t) ==
    /\ At(t, "observe") \/ At(t, "revalidate")
    /\ Bounded("faults")
    /\ LET f == Top(t)  n == Top(t).node
       IN  IF f.st = "revalidate" /\ arch[n].gen # 0
           THEN /\ arch' = [arch EXCEPT ![n].until = now + Cooldown]
                /\ tiles' = AdmitTiles(f, arch[n].gen)
                /\ EndFlight(n, WithTop(t, Admit(f, arch[n].gen, arch[n].seen)), "")
           ELSE /\ \E e \in {"retry", "error"} :
                       EndFlight(n, WithTop(t, AdmitError(f, e)), e)
                /\ UNCHANGED <<arch, tiles>>
    /\ UNCHANGED <<now, gen, pub, absent, leafs, ans, draining, backoff>>
-----------------------------------------------------------------------------
\* route_tile: the tile cache had nothing, ask the tile's owner.
Route(t) ==
    /\ At(t, "route")
    /\ \E c \in Candidates(Top(t).node, "tile") :
           stack' = WithTop(t, TryPeers(Top(t), "tile", c))
    /\ UNCHANGED <<now, gen, pub, arch, absent, tiles, leafs, flight, ans, draining, backoff, used, sc>>

\* One forward; reject_when_draining answers 503 before the handler runs.
Send(t) ==
    /\ At(t, "send")
    /\ LET f == Top(t)
           peer == Head(f.cand)
           child == Frame(f.want, peer)
       IN  stack' = [stack EXCEPT ![t] =
               <<IF peer \in draining THEN Done(child, "retry") ELSE child,
                 [f EXCEPT !.st = "rpc", !.cand = Tail(@)]>> \o Tail(@)]
    /\ UNCHANGED <<now, gen, pub, arch, absent, tiles, leafs, flight, ans, draining, backoff, used, sc>>

\* Handler errors leave as 5xx, which the transport reports as retryable.
ReplyOf(child) == IF child.reply \in {"ok", "missing", "fatal"} THEN child.reply ELSE "retry"

NotedBackoff(n, peer, want, reply) ==
    [backoff EXCEPT ![n] = IF reply = "retry" THEN @ \cup {<<peer, want>>} ELSE @ \ {<<peer, want>>}]

HasReply(t, want) ==
    /\ At(t, "reply") /\ Below(t) # <<>>
    /\ Head(Below(t)).want = want

WithParent(t, f) == [stack EXCEPT ![t] = <<f>> \o Tail(Tail(@))]

\* load_bootstrap_uncached: adopt the peer's pointer, or go on without it.
BootReply(t) ==
    /\ HasReply(t, "boot")
    /\ LET c == Top(t)  f == Head(Below(t))  n == Head(Below(t)).node  r == ReplyOf(Top(t))
       IN  /\ backoff' = NotedBackoff(n, c.node, f.want, r)
           /\ IF r = "ok"
              THEN /\ arch' = Installed(n, c.g, c.seen)
                   /\ absent' = absent \ {n}
                   /\ tiles' = AdmitTiles(f, c.g)
                   /\ EndFlight(n, WithParent(t, Admit(f, c.g, c.seen)), "")
              ELSE /\ stack' = WithParent(t, IF r = "retry" THEN TryPeers(f, "boot", f.cand)
                                                            ELSE LocalStep(f, "boot"))
                   /\ UNCHANGED <<arch, absent, tiles, flight>>
    /\ UNCHANGED <<now, gen, pub, leafs, ans, draining, used, sc>>

\* load_tile_from_peer and route_tile's loop over its outcome.
AcceptTile(f, c) ==
    IF c.g = f.g THEN [f EXCEPT !.at = "hdr", !.st = "look", !.leaf = c.leaf, !.data = c.data]
                 ELSE TryPeers(f, "tile", f.cand)

TileReply(t) ==
    /\ HasReply(t, "tile")
    /\ LET c == Top(t)  f == Head(Below(t))  r == ReplyOf(Top(t))
       IN  /\ backoff' = NotedBackoff(f.node, c.node, f.want, r)
           /\ stack' = WithParent(t,
                 CASE r = "ok" -> AcceptTile(f, c)
                   [] r = "fatal" -> Done(f, "error")
                   [] OTHER -> TryPeers(f, "tile", f.cand))
    /\ UNCHANGED <<now, gen, pub, arch, absent, tiles, leafs, flight, ans, draining, used, sc>>

\* Mutant: the generation header of a peer's leaf is not compared.
LeafMatchesAny(f, c) == TRUE

\* route_leaf keeps the bytes only of the admitted generation.
LeafMatches(f, c) == c.g = f.g

LeafReply(t) ==
    /\ HasReply(t, "leaf")
    /\ LET c == Top(t)  f == Head(Below(t))  r == ReplyOf(Top(t))
           taken == r = "ok" /\ LeafMatches(f, c)
       IN  /\ backoff' = NotedBackoff(f.node, c.node, f.want, r)
           /\ leafs' = IF taken THEN [leafs EXCEPT ![f.node] = Put(@, f.g, c.leaf)] ELSE leafs
           /\ stack' = WithParent(t,
                 CASE taken -> [f EXCEPT !.st = "data", !.leaf = c.leaf]
                   [] r = "retry" -> TryPeers(f, "leaf", f.cand)
                   [] OTHER -> LocalStep(f, "leaf"))
    /\ UNCHANGED <<now, gen, pub, arch, absent, tiles, flight, ans, draining, used, sc>>
-----------------------------------------------------------------------------
\* load_leaf_directory: the leaf cache, the archive's owner, or the backend.
Leaf(t) ==
    /\ At(t, "leaf")
    /\ LET f == Top(t)  hit == Entry(leafs[Top(t).node], Top(t).g)
       IN  IF hit # {}
           THEN stack' = WithTop(t, [f EXCEPT !.st = "data", !.leaf = (CHOOSE e \in hit : TRUE).val])
           ELSE \E c \in Candidates(f.node, "leaf") :
                   stack' = WithTop(t, TryPeers(f, "leaf", c))
    /\ UNCHANGED <<now, gen, pub, arch, absent, tiles, leafs, flight, ans, draining, backoff, used, sc>>

\* get_tile: the first changed generation drops the pointer and restarts.
Changed(t, f) ==
    IF f.job = "leaf" \/ f.try = 1
    THEN /\ stack' = WithTop(t, Done(f, "superseded"))
         /\ UNCHANGED arch
    ELSE /\ stack' = WithTop(t, [f EXCEPT !.at = "again", !.st = "look"])
         /\ arch' = [arch EXCEPT ![f.node] = IF @.gen = f.g THEN NoArchive ELSE @]

ReadLeaf(t) ==
    /\ At(t, "leafread")
    /\ LET f == Top(t)
       IN  \/ /\ leafs' = IF f.job = "leaf" THEN leafs ELSE [leafs EXCEPT ![f.node] = Put(@, f.g, f.g)]
              /\ stack' = WithTop(t, IF f.job = "leaf"
                                     THEN Done([f EXCEPT !.leaf = f.g], "ok")
                                     ELSE [f EXCEPT !.st = "data", !.leaf = f.g])
              /\ UNCHANGED arch
           \/ gen # f.g /\ Changed(t, f) /\ UNCHANGED leafs
    /\ UNCHANGED <<now, gen, pub, absent, tiles, flight, ans, draining, backoff, used, sc>>

\* The tile's bytes at the leaf's offset, or the leaf's word that there is none.
ReadData(t) ==
    /\ At(t, "data")
    /\ LET f == Top(t)  n == Top(t).node
       IN  \/ /\ f.leaf \notin TileGens
              /\ tiles' = [tiles EXCEPT ![n] = Put(@, f.g, 0)]
              /\ stack' = WithTop(t, Done(f, "missing"))
              /\ UNCHANGED arch
           \/ /\ f.leaf \in TileGens
              /\ tiles' = [tiles EXCEPT ![n] = Put(@, f.g, f.leaf)]
              /\ stack' = WithTop(t, Done([f EXCEPT !.data = f.leaf], "ok"))
              /\ UNCHANGED arch
           \/ /\ f.leaf \in TileGens /\ gen # f.g
              /\ Changed(t, f)
              /\ UNCHANGED tiles
    /\ UNCHANGED <<now, gen, pub, absent, leafs, flight, ans, draining, backoff, used, sc>>

ReadFails(t) ==
    /\ At(t, "leafread") \/ At(t, "data")
    /\ Bounded("faults")
    /\ stack' = WithTop(t, Done(Top(t), "error"))
    /\ UNCHANGED <<now, gen, pub, arch, absent, tiles, leafs, flight, ans, draining, backoff>>
-----------------------------------------------------------------------------
(***************************************************************************)
(* A forward that is cut off: internal_peer_request_timeout passes, or the *)
(* body transfer fails.  The handlers behind it are dropped, and a leader  *)
(* among them releases its flight.                                         *)
(***************************************************************************)
Dropped(t, k) == {n \in Nodes : flight[n] = t /\ \E i \in 1..k : stack[t][i].node = n
                                /\ stack[t][i].st \in {"observe", "revalidate", "install", "send", "rpc"}
                                /\ (stack[t][i].st \in {"send", "rpc"} => stack[t][i].want = "boot")}

CutOff(t, k, reply) ==
    LET cut == SubSeq(stack[t], k + 1, Len(stack[t]))
        ns == Dropped(t, k)
        stk == [stack EXCEPT ![t] = IF cut = <<>> THEN <<>>
                                    ELSE <<Done(stack[t][k], reply)>> \o cut]
    IN  /\ flight' = [n \in Nodes |-> IF n \in ns THEN NoTask ELSE flight[n]]
        /\ stack' = Woken(ns, stk, "")

\* Mutant: a forward has no deadline.
TimeoutNever(t) == FALSE /\ UNCHANGED vars

Timeout(t) ==
    /\ sc.slow
    /\ \E k \in 1..(Len(stack[t]) - 1) :
          /\ ~At(t, "reply")
          /\ CutOff(t, k, "retry")
    /\ UNCHANGED <<now, gen, pub, arch, absent, tiles, leafs, ans, draining, backoff, used, sc>>

TransferFails(t) ==
    /\ At(t, "reply") /\ Below(t) # <<>> /\ Top(t).reply = "ok"
    /\ Bounded("faults")
    /\ stack' = WithTop(t, Done(Top(t), "fatal"))
    /\ UNCHANGED <<now, gen, pub, arch, absent, tiles, leafs, flight, ans, draining, backoff>>

\* The client goes away: every frame of its request is dropped.
Cancel(t) ==
    /\ stack[t] # <<>>
    /\ Bounded("cancels")
    /\ CutOff(t, Len(stack[t]), "retry")
    /\ UNCHANGED <<now, gen, pub, arch, absent, tiles, leafs, ans, draining, backoff>>

Answer(t) ==
    /\ At(t, "reply") /\ Below(t) = <<>>
    /\ ans' = [ans EXCEPT ![t] = ReplyRecord(Top(t))]
    /\ stack' = [stack EXCEPT ![t] = <<>>]
    /\ UNCHANGED <<now, gen, pub, arch, absent, tiles, leafs, flight, draining, backoff, used, sc>>
-----------------------------------------------------------------------------
NoFlight == [n \in Nodes |-> NoTask]

Init ==
    /\ now = 0
    /\ arch = [n \in Nodes |-> NoArchive]
    /\ absent = {}
    /\ tiles = [n \in Nodes |-> {}]
    /\ leafs = [n \in Nodes |-> {}]
    /\ flight = NoFlight
    /\ stack = [t \in Tasks |-> <<>>]
    /\ ans = [t \in Tasks |-> NoReply]
    /\ draining = {}
    /\ backoff = [n \in Nodes |-> {}]
    /\ used = NoneUsed
    /\ sc \in Scenarios
    /\ gen = sc.start /\ pub = sc.start

Step(t) ==
    \/ Look(t) \/ Observe(t) \/ Install(t) \/ Route(t) \/ Send(t)
    \/ BootReply(t) \/ TileReply(t) \/ LeafReply(t)
    \/ Leaf(t) \/ ReadLeaf(t) \/ ReadData(t) \/ Answer(t)

Next ==
    \/ Publish \/ Delete \/ Tick
    \/ \E n \in Nodes : Forget(n) \/ Drain(n)
    \/ \E t \in Tasks : \/ Arrive(t) \/ Step(t) \/ Timeout(t) \/ Cancel(t)
                        \/ ObserveFails(t) \/ ReadFails(t) \/ TransferFails(t)

Spec == Init /\ [][Next]_vars /\ \A t \in Tasks : WF_vars(Step(t) \/ Timeout(t))
-----------------------------------------------------------------------------
(***************************************************************************)
(* Bytes of two generations are never put together: a tile is answered,    *)
(* and cached, under the generation its directory leaf and its bytes were  *)
(* read from, and an absence is cached only for a generation that really   *)
(* lacks the tile, whatever was published while the leaf, the bytes and    *)
(* the peers' answers were fetched (route_tile, load_tile_from_peer,       *)
(* route_leaf, get_tile).                                                  *)
(***************************************************************************)
OneGeneration ==
    /\ \A t \in Tasks : ans[t].reply = "ok" => ans[t].data = ans[t].g /\ ans[t].g \in TileGens
    /\ \A n \in Nodes : \A e \in tiles[n] : e.val = IF e.gen \in TileGens THEN e.gen ELSE 0
    /\ \A n \in Nodes : \A e \in leafs[n] : e.val = e.gen

(***************************************************************************)
(* A pointer that came due is replaced only by one the backend was asked   *)
(* for after that moment, or kept for the cooldown after a failed attempt: *)
(* an older view of the archive, such as a peer's, never starts its        *)
(* freshness over (load_bootstrap_with_metadata, requires_revalidation).   *)
(***************************************************************************)
DueReobserved ==
    [][\A n \in Nodes :
          Due(n) /\ arch'[n] # arch[n] =>
             \/ arch'[n] = NoArchive
             \/ arch'[n].seen >= arch[n].until
             \/ arch'[n].gen = arch[n].gen /\ used'.faults > used.faults]_vars

(***************************************************************************)
(* Every request returns, whoever leads the flights it waits on, although  *)
(* a draining member may forward to the very peer that waits for it: only  *)
(* the deadline of the forward breaks that circle.                         *)
(***************************************************************************)
RequestsReturn == \A t \in Tasks : []<>(stack[t] = <<>>)
=============================================================================
