---- MODULE StyleRefresh ----
(***************************************************************************)
(* How a cluster of Biei nodes follows a style that its provider replaces  *)
(* in place: the style catalog (biei-core style_catalog.rs), the profile   *)
(* preparer that fetches style JSON (maplibre/profile.rs), the publisher's *)
(* advisory refresh hints over HTTP (http/adapter.rs) and over the gossip  *)
(* rings (mmpf-cluster refresh_hint.rs, membership.rs, runtime/mod.rs) and *)
(* the gate in front of the render-output cache (node.rs).                 *)
(*                                                                         *)
(* One style.  Its provider content is a number that only grows, so equal  *)
(* numbers are equal content and a smaller one is older; the revision of a *)
(* content is that number (style_content_version) and revision 0 is the    *)
(* configured placeholder used until the first observation.  Hint h is the *)
(* hint of the mutation that made content h.                               *)
(***************************************************************************)
EXTENDS Integers, FiniteSets

CONSTANTS Scenarios    \* the instances one run explores

(***************************************************************************)
(* A scenario has: nodes; tasks, a function from task names to their home  *)
(* node and credential partition; last, the content of the last mutation;  *)
(* receivers, the nodes the publisher posts each hint to; slot, the gossip *)
(* slot of each hint; room, whether the bounded maps of the catalog still  *)
(* have room for this style; and the bounds on faults: foreign hints (for  *)
(* other styles), fetch and native failures, lost publications, evictions. *)
(***************************************************************************)
ASSUME ScenariosAssumption ==
  \A s \in Scenarios :
    /\ s.last \in Nat \ {0}
    /\ \A h \in 2 .. s.last : s.slot[h] \in Nat
    /\ \A t \in DOMAIN s.task : s.task[t].home \in s.nodes
    /\ s.receivers \subseteq s.nodes /\ s.routes \subseteq s.nodes
    /\ s.room \in BOOLEAN /\ s.budget \in [foreign : Nat, fail : Nat, lost : Nat]

VARIABLES
  sc,         \* the scenario of this behaviour
  content,    \* the provider's current content
  obs,        \* StyleCatalogInner.observed, per node (ver = 0: none)
  clus,       \* StyleCatalogInner.cluster_observed, per node (ver = 0: none)
  pending,    \* StyleCatalogInner.pending_hints, per node (0: none)
  gen,        \* revalidation_generations, per node (0: no entry)
  reqs,       \* revalidation_requests, per node
  admitted,   \* RefreshHintDedup, per node: the hints already applied
  publishing, \* per node: hints applied over HTTP and not yet in the ring
  ring,       \* per node: the hint ring it gossips, slot -> <<hint, 0>>
  ann,        \* per node: revision_announcements, slot -> <<hint, revision>>
  seen,       \* per node: the snapshot its watchers last took of the rings
  inbox,      \* per node: changed records of it the watcher has yet to apply
  json,       \* style_json_cache, per node: key -> content (0: none)
  err,        \* style_error_cache, per node: keys
  out,        \* render-output cache, per node: key -> content rendered
  task,       \* the requests
  budget      \* faults left

catalog == <<obs, clus, pending, gen, reqs>>
gossip == <<admitted, publishing, ring, ann, seen, inbox>>
caches == <<json, err, out>>
vars == <<sc, content, catalog, gossip, caches, task, budget>>

Boot == 0
None == -1
NoObs == [ver |-> 0, prev |-> None, boot |-> FALSE,
          floor |-> TRUE, due |-> TRUE, pend |-> FALSE]
NoRecord == <<0, 0>>
NoClus == [ver |-> 0, prev |-> None]
NoTask == [pc |-> "idle", rev |-> Boot, at |-> "none", lead |-> {}, live |-> {},
           stale |-> 0, first |-> FALSE, fence |-> <<0, 0>>, got |-> 0, bytes |-> 0]

Nodes == sc.nodes
Tasks == DOMAIN sc.task
Hints == 2 .. sc.last
Revs == 0 .. sc.last
Slots == {sc.slot[h] : h \in Hints}
Creds == {sc.task[t].cred : t \in Tasks}
Keys == Revs \X Creds
Home(t) == sc.task[t].home
Key(t) == <<task[t].rev, sc.task[t].cred>>

(***************************************************************************)
(* Reads of the catalog.                                                   *)
(***************************************************************************)
\* latest_version: a peer-validated revision, else the observed one, else the
\* configured placeholder (obs.ver is 0 = Boot then).
Latest(n) == IF clus[n].ver # 0 THEN clus[n].ver ELSE obs[n].ver

AcceptsRevision(n, r) ==
  \/ clus[n].ver # 0 /\ r \in {clus[n].ver, clus[n].prev}
  \/ obs[n].ver # 0 /\ (r \in {obs[n].ver, obs[n].prev} \/ (obs[n].boot /\ r = Boot))
  \/ clus[n].ver = 0 /\ obs[n].ver = 0 /\ r = Boot

NeedsRevalidation(n) ==
  \/ clus[n].ver # 0 /\ obs[n].ver # clus[n].ver
  \/ obs[n].due

HasPendingRevalidation(n) == pending[n] # 0 \/ obs[n].pend

RevalidationBlocksOutputCache(n, r) ==
  /\ ~(clus[n].ver # 0 /\ clus[n].ver = r)
  /\ HasPendingRevalidation(n) \/ NeedsRevalidation(n)

\* Mutant: a missing fence entry is read as "never hinted".
FetchIsCurrentWithoutEntry(n, fence) ==
  \/ reqs[n] = fence[2]
  \/ gen[n] = fence[1]

FetchIsCurrent(n, fence) ==
  \/ reqs[n] = fence[2]
  \/ gen[n] # 0 /\ gen[n] = fence[1]

(***************************************************************************)
(* record_observed_for_generation: the catalog of n after a fetch of       *)
(* content v that captured the given fence before its provider I/O.        *)
(***************************************************************************)
RecordObserved(n, v, fence) ==
  LET current == FetchIsCurrent(n, fence)
      old == obs[n]
  IN /\ obs' = [obs EXCEPT ![n] =
           [ver |-> v,
            prev |-> CASE old.ver = v -> old.prev
                       [] old.ver = 0 -> None
                       [] OTHER -> old.ver,
            boot |-> old.ver = 0 \/ (old.ver = v /\ old.boot),
            floor |-> FALSE, due |-> FALSE, pend |-> ~current]]
     /\ IF current /\ pending[n] # 0
        THEN /\ pending' = [pending EXCEPT ![n] = 0]
             /\ ann' = [ann EXCEPT ![n][sc.slot[pending[n]]] = <<pending[n], v>>]
             /\ clus' = [clus EXCEPT ![n] = [ver |-> v, prev |-> None]]
        ELSE /\ clus' = IF current /\ clus[n].ver # v
                        THEN [clus EXCEPT ![n] = NoClus] ELSE clus
             /\ UNCHANGED <<pending, ann>>
     /\ UNCHANGED <<gen, reqs>>

(***************************************************************************)
(* Publisher hints.  Both receivers share one dedup window, apply the hint *)
(* to the catalog and invalidate the style's rendered outputs, which also  *)
(* takes the right to insert away from the renders in flight.              *)
(***************************************************************************)
PulledForward(o) ==
  IF o.ver = 0 THEN o ELSE [o EXCEPT !.pend = TRUE, !.due = o.due \/ o.floor]

RequestRevalidation(n, h) ==
  /\ reqs' = [reqs EXCEPT ![n] = @ + 1]
  /\ pending' = [pending EXCEPT ![n] = IF @ # 0 \/ sc.room THEN h ELSE @]
  /\ gen' = [gen EXCEPT ![n] = IF obs[n].ver # 0 /\ (@ # 0 \/ sc.room) THEN @ + 1 ELSE @]
  /\ obs' = [obs EXCEPT ![n] = PulledForward(@)]
  /\ UNCHANGED clus

InvalidateOutputs(n) ==
  /\ out' = [out EXCEPT ![n] = [k \in Keys |-> 0]]
  /\ task' = [t \in Tasks |-> [task[t] EXCEPT !.live = @ \ {n}]]

ApplyHint(n, h) ==
  IF h \in admitted[n]
  THEN UNCHANGED <<catalog, admitted, out, task>>
  ELSE /\ admitted' = [admitted EXCEPT ![n] = @ \cup {h}]
       /\ RequestRevalidation(n, h)
       /\ InvalidateOutputs(n)

\* refresh_style: a repeat of an admitted hint only answers 202, so it is a
\* stuttering step here.  The publication to the ring is awaited.
RefreshStyle(n, h) ==
  /\ n \in sc.receivers /\ h <= content /\ h \notin admitted[n]
  /\ ApplyHint(n, h)
  /\ publishing' = [publishing EXCEPT ![n] = @ \cup {h}]
  /\ UNCHANGED <<sc, content, ring, ann, seen, inbox, json, err, budget>>

PublishStyleRefresh(n, h) ==
  /\ h \in publishing[n]
  /\ publishing' = [publishing EXCEPT ![n] = @ \ {h}]
  /\ ring' = [ring EXCEPT ![n][sc.slot[h]] = <<h, 0>>]
  /\ UNCHANGED <<sc, content, catalog, admitted, ann, seen, inbox, caches, task, budget>>

\* The publisher's connection closes while its handler awaits the publication:
\* the handler is dropped, and a retry of the hint is a duplicate.
AbandonPublication(n, h) ==
  /\ h \in publishing[n] /\ budget.lost > 0
  /\ budget' = [budget EXCEPT !.lost = @ - 1]
  /\ publishing' = [publishing EXCEPT ![n] = @ \ {h}]
  /\ UNCHANGED <<sc, content, catalog, admitted, ring, ann, seen, inbox, caches, task>>

\* A hint for another style advances the process-wide request count only.
ForeignHint(n) ==
  /\ budget.foreign > 0
  /\ budget' = [budget EXCEPT !.foreign = @ - 1]
  /\ reqs' = [reqs EXCEPT ![n] = @ + 1]
  /\ UNCHANGED <<sc, content, obs, clus, pending, gen, gossip, caches, task>>

(***************************************************************************)
(* The gossip watcher of n takes a snapshot of the rings and keeps the     *)
(* peers' records that changed since the last one; an item <<kind, peer,   *)
(* slot>> names such a record.  They are applied one by one: hints before  *)
(* revisions, in the order of the node ids, each node's in slot order.     *)
(***************************************************************************)
Rings == [hints |-> ring, revs |-> ann]
Record(rings, item) ==
  IF item[1] = "hint" THEN rings.hints[item[2]][item[3]] ELSE rings.revs[item[2]][item[3]]

News(n) ==
  {item \in {"hint", "rev"} \X (Nodes \ {n}) \X Slots :
     Record(Rings, item) \notin {NoRecord, Record(seen[n], item)}}

ObservePeers(n) ==
  /\ inbox[n] = {} /\ News(n) # {}
  /\ inbox' = [inbox EXCEPT ![n] = News(n)]
  /\ seen' = [seen EXCEPT ![n] = Rings]
  /\ UNCHANGED <<sc, content, catalog, admitted, publishing, ring, ann, caches, task, budget>>

NodeNames == UNION {s.nodes : s \in Scenarios}
NodeRank ==
  CHOOSE rank \in [NodeNames -> 1 .. Cardinality(NodeNames)] :
    \A p, q \in NodeNames : rank[p] = rank[q] => p = q

Before(i, j) ==
  \/ i[1] = "hint" /\ j[1] = "rev"
  \/ i[1] = j[1] /\ NodeRank[i[2]] < NodeRank[j[2]]
  \/ i[1] = j[1] /\ i[2] = j[2] /\ i[3] < j[3]

First(n) == {item \in inbox[n] : \A other \in inbox[n] : ~Before(other, item)}

\* apply_cluster_observation, and the invalidation its caller adds when the
\* visible revision changed.
ApplyClusterObservation(n, h, v) ==
  IF pending[n] # h
  THEN UNCHANGED <<catalog, out, task>>
  ELSE /\ clus' = [clus EXCEPT ![n] =
              [ver |-> v, prev |-> IF Latest(n) = v THEN None ELSE Latest(n)]]
       /\ pending' = [pending EXCEPT ![n] = 0]
       /\ UNCHANGED <<obs, gen, reqs>>
       /\ IF Latest(n) # v THEN InvalidateOutputs(n) ELSE UNCHANGED <<out, task>>

ApplyRecord(n, item) ==
  LET record == Record(seen[n], item)
  IN \/ item[1] = "hint" /\ ApplyHint(n, record[1])
     \/ /\ item[1] = "rev" /\ ApplyClusterObservation(n, record[1], record[2])
        /\ UNCHANGED admitted

\* Mutant: the watcher applies the first changed record of a snapshot only.
ApplyGossipHeadOnly(n) ==
  /\ \E item \in First(n) :
       /\ inbox' = [inbox EXCEPT ![n] = {}]
       /\ ApplyRecord(n, item)
  /\ UNCHANGED <<sc, content, publishing, ring, ann, seen, json, err, budget>>

ApplyGossip(n) ==
  /\ \E item \in First(n) :
       /\ inbox' = [inbox EXCEPT ![n] = @ \ {item}]
       /\ ApplyRecord(n, item)
  /\ UNCHANGED <<sc, content, publishing, ring, ann, seen, json, err, budget>>

(***************************************************************************)
(* A request.  Ingress pins the latest revision, the output cache is       *)
(* consulted on the home node and, when the task is forwarded, on the peer *)
(* that accepts the revision; the node that renders prepares the profile.  *)
(* Requests of one credential partition ask for the same image.  A request *)
(* leads the render flights of the nodes in "lead", and may still insert   *)
(* its image on those in "live": no invalidation came after it.            *)
(***************************************************************************)
Answered(bytes) == [NoTask EXCEPT !.bytes = bytes]
Refused == NoTask
Prepared(t, bytes) ==
  [task[t] EXCEPT !.pc = "render", !.bytes = bytes, !.stale = 0, !.first = FALSE,
                  !.fence = <<0, 0>>, !.got = 0]
At(t, pc) == [task[t] EXCEPT !.pc = pc]
Step(t, new) == task' = [task EXCEPT ![t] = new]

Arrive(t) ==
  /\ task[t].pc = "idle"
  /\ task' = [task EXCEPT ![t] = [NoTask EXCEPT !.pc = "lookup", !.at = Home(t),
                                                !.rev = Latest(Home(t))]]
  /\ UNCHANGED <<sc, content, catalog, gossip, caches, budget>>

\* The dispatcher's choice after a miss on the home node: render here, or
\* forward to a peer.
Dispatch(t, flights) ==
  LET leading == [task[t] EXCEPT !.lead = @ \cup flights, !.live = @ \cup flights]
  IN \/ Step(t, [leading EXCEPT !.pc = "load"])
     \/ \E p \in sc.routes \ {Home(t)} :
          task[t].at = Home(t) /\ Step(t, [leading EXCEPT !.pc = "lookup", !.at = p])

\* lookup_or_join: a hit, a follower of the key's leader, or its leader.
LookupOrJoin(t) ==
  LET n == task[t].at
      held == out[n][Key(t)]
      led == \E u \in Tasks \ {t} : Key(u) = Key(t) /\ n \in task[u].lead
  IN \/ held # 0 /\ Step(t, Answered(held))
     \/ held = 0 /\ led /\ Step(t, At(t, "follow"))
     \/ held = 0 /\ ~led /\ Dispatch(t, {n})

\* acquire_render_output_cache up to the first wait.  A peer that does not
\* accept the revision refuses the forward, and the task falls back to its home.
Lookup(t) ==
  LET n == task[t].at
      refused == n # Home(t) /\ ~AcceptsRevision(n, task[t].rev)
      blocked == ~sc.cache \/ RevalidationBlocksOutputCache(n, task[t].rev)
  IN /\ task[t].pc = "lookup"
     /\ \/ refused /\ Step(t, [At(t, "load") EXCEPT !.at = Home(t)])
        \/ ~refused /\ blocked /\ Dispatch(t, {})
        \/ ~refused /\ ~blocked /\ LookupOrJoin(t)
     /\ UNCHANGED <<sc, content, catalog, gossip, caches, budget>>

\* The leader is gone: the follower looks again, past the revalidation gate.
Recheck(t) ==
  /\ task[t].pc = "follow"
  /\ \A u \in Tasks \ {t} : Key(u) = Key(t) => task[t].at \notin task[u].lead
  /\ LookupOrJoin(t)
  /\ UNCHANGED <<sc, content, catalog, gossip, caches, budget>>

Leads(t) == task[t].pc \in {"fetch", "fetched"}
SameFlight(t, u) == task[t].at = task[u].at /\ Key(t) = Key(u)

\* load_style_json up to the provider I/O: the caches, then the flight.  A
\* leader captures whether the style was ever observed, and the fence.
LoadStyleJson(t) ==
  LET n == task[t].at
      held == json[n][Key(t)]
  IN /\ task[t].pc = "load"
     /\ \/ Key(t) \in err[n] /\ Step(t, Refused)
        \/ /\ Key(t) \notin err[n] /\ held # 0 /\ ~NeedsRevalidation(n)
           /\ Step(t, Prepared(t, held))
        \/ /\ Key(t) \notin err[n] /\ (held = 0 \/ NeedsRevalidation(n))
           /\ IF \E u \in Tasks : Leads(u) /\ SameFlight(t, u)
              THEN Step(t, At(t, "wait"))
              ELSE Step(t, [At(t, "fetch") EXCEPT !.stale = held, !.first = obs[n].ver = 0,
                                                  !.fence = <<gen[n], reqs[n]>>])
     /\ UNCHANGED <<sc, content, catalog, gossip, caches, budget>>

\* The flight of t ends: its followers share the leader's error, or look again.
EndFlight(t, mine, shared) ==
  LET follows(u) == task[u].pc = "wait" /\ SameFlight(t, u)
  IN task' = [u \in Tasks |-> CASE u = t -> mine
                               [] u # t /\ follows(u) -> IF shared THEN Refused ELSE At(u, "load")
                               [] OTHER -> task[u]]

\* fetch_uncached_style: a revision the catalog no longer accepts has no
\* definition, which is a transient error of the whole attempt.
ProviderReads(t) ==
  /\ task[t].pc = "fetch"
  /\ IF AcceptsRevision(task[t].at, task[t].rev)
     THEN Step(t, [At(t, "fetched") EXCEPT !.got = content])
     ELSE EndFlight(t, Refused, TRUE)
  /\ UNCHANGED <<sc, content, catalog, gossip, caches, budget>>

\* A failed fetch: definitive (kept in the negative cache) or transient, both
\* shared with the followers; or the leader's own deadline, which is not.
FetchFails(t) ==
  /\ Leads(t) /\ budget.fail > 0
  /\ budget' = [budget EXCEPT !.fail = @ - 1]
  /\ \/ /\ err' = [err EXCEPT ![task[t].at] = @ \cup {Key(t)}]
        /\ EndFlight(t, Refused, TRUE)
     \/ /\ EndFlight(t, Refused, TRUE)
        /\ UNCHANGED err
     \/ /\ EndFlight(t, Refused, FALSE)
        /\ UNCHANGED err
  /\ UNCHANGED <<sc, content, catalog, gossip, json, out>>

\* What the rest of load_style_json answers with: the bytes, or 0 when the
\* requested revision was superseded before it could be served.
Response(t) ==
  LET n == task[t].at
      bootstrap == obs'[n].boot /\ task[t].rev = Boot
  IN CASE task[t].got = task[t].rev -> task[t].got
       [] task[t].got # task[t].rev /\ task[t].stale # 0 -> task[t].stale
       [] task[t].got # task[t].rev /\ task[t].stale = 0 /\ (task[t].first \/ bootstrap)
            -> task[t].got
       [] OTHER -> 0

\* Mutant: a changed body is treated like a 304 when bytes are held.
HeldRepresentation(t) == IF task[t].stale # 0 THEN task[t].stale ELSE task[t].got

\* The representation a fetch installs.  A 304 restates the held bytes, which
\* are the provider's content then.
Representation(t) == task[t].got

\* load_style_json after the provider answered (a 304 is a read of the held
\* content): install the bytes under their own revision, then publish it.
FetchCompletes(t) ==
  LET n == task[t].at
      own == <<task[t].got, sc.task[t].cred>>
  IN /\ task[t].pc = "fetched"
     /\ RecordObserved(n, task[t].got, task[t].fence)
     /\ err' = [err EXCEPT ![n] = @ \ {own, Key(t)}]
     /\ json' = [json EXCEPT ![n] = [k \in Keys |->
           IF k = own \/ (k = Key(t) /\ task[t].stale = 0 /\ Response(t) # 0)
           THEN Representation(t) ELSE json[n][k]]]
     /\ IF Response(t) # 0
        THEN EndFlight(t, Prepared(t, Response(t)), FALSE)
        ELSE EndFlight(t, Refused, TRUE)
     /\ UNCHANGED <<sc, content, admitted, publishing, ring, seen, inbox, out, budget>>

\* A follower gives up at its own deadline.
FollowerTimesOut(t) ==
  /\ task[t].pc = "wait" /\ budget.fail > 0
  /\ budget' = [budget EXCEPT !.fail = @ - 1]
  /\ Step(t, Refused)
  /\ UNCHANGED <<sc, content, catalog, gossip, caches>>

\* The worker renders the prepared bytes under the task's revision, and every
\* leader that no invalidation fenced meanwhile inserts the image.
Render(t) ==
  /\ task[t].pc = "render"
  /\ out' = [n \in Nodes |-> IF n \in task[t].live
                             THEN [out[n] EXCEPT ![Key(t)] = task[t].bytes] ELSE out[n]]
  /\ Step(t, Answered(task[t].bytes))
  /\ UNCHANGED <<sc, content, catalog, gossip, json, err, budget>>

\* The native library refuses the style: mark_style_load_failed.
NativeRefuses(t) ==
  /\ task[t].pc = "render" /\ budget.fail > 0
  /\ budget' = [budget EXCEPT !.fail = @ - 1]
  /\ err' = [err EXCEPT ![task[t].at] = @ \cup {Key(t)}]
  /\ json' = [json EXCEPT ![task[t].at][Key(t)] = 0]
  /\ Step(t, Refused)
  /\ UNCHANGED <<sc, content, catalog, gossip, out>>

(***************************************************************************)
(* The provider, and time: freshness, its ten-second floor and the three   *)
(* cache lifetimes.                                                        *)
(***************************************************************************)
Mutate ==
  /\ content < sc.last
  /\ content' = content + 1
  /\ UNCHANGED <<sc, catalog, gossip, caches, task, budget>>

\* The floor passes; a hint has pulled the next check forward to it.
FloorPasses(n) ==
  /\ ~obs[n].floor
  /\ obs' = [obs EXCEPT ![n].floor = TRUE, ![n].due = obs[n].pend]
  /\ UNCHANGED <<sc, content, clus, pending, gen, reqs, gossip, caches, task, budget>>

FreshnessEnds(n) ==
  /\ obs[n].floor /\ ~obs[n].due
  /\ obs' = [obs EXCEPT ![n].due = TRUE]
  /\ UNCHANGED <<sc, content, clus, pending, gen, reqs, gossip, caches, task, budget>>

OutputExpires(n, k) ==
  /\ out[n][k] # 0
  /\ out' = [out EXCEPT ![n][k] = 0]
  /\ UNCHANGED <<sc, content, catalog, gossip, json, err, task, budget>>

ErrorExpires(n, k) ==
  /\ k \in err[n]
  /\ err' = [err EXCEPT ![n] = @ \ {k}]
  /\ UNCHANGED <<sc, content, catalog, gossip, json, out, task, budget>>

JsonExpires(n, k) ==
  /\ sc.aging /\ json[n][k] # 0
  /\ json' = [json EXCEPT ![n][k] = 0]
  /\ UNCHANGED <<sc, content, catalog, gossip, err, out, task, budget>>

(***************************************************************************)
(* The specification.                                                      *)
(***************************************************************************)
InitWith(s) ==
  /\ sc = s
  /\ content = 1
  /\ obs = [n \in s.nodes |-> NoObs]
  /\ clus = [n \in s.nodes |-> NoClus]
  /\ pending = [n \in s.nodes |-> 0]
  /\ gen = [n \in s.nodes |-> 0]
  /\ reqs = [n \in s.nodes |-> 0]
  /\ admitted = [n \in s.nodes |-> {}]
  /\ publishing = [n \in s.nodes |-> {}]
  /\ ring = [n \in s.nodes |-> [i \in Slots |-> NoRecord]]
  /\ ann = ring
  /\ seen = [n \in s.nodes |-> Rings]
  /\ inbox = [n \in s.nodes |-> {}]
  /\ json = [n \in s.nodes |-> [k \in Keys |-> 0]]
  /\ err = [n \in s.nodes |-> {}]
  /\ out = json
  /\ task = [t \in Tasks |-> NoTask]
  /\ budget = s.budget

Init == \E s \in Scenarios : InitWith(s)

TaskStep(t) ==
  \/ Arrive(t) \/ Lookup(t) \/ Recheck(t) \/ LoadStyleJson(t)
  \/ ProviderReads(t) \/ FetchCompletes(t) \/ Render(t)

TimeStep(n) ==
  \/ FloorPasses(n) \/ FreshnessEnds(n)
  \/ \E k \in Keys : OutputExpires(n, k) \/ ErrorExpires(n, k) \/ JsonExpires(n, k)

GossipStep(n) ==
  \/ \E h \in Hints : PublishStyleRefresh(n, h)
  \/ ObservePeers(n) \/ ApplyGossip(n)

FaultStep ==
  \/ \E t \in Tasks : FetchFails(t) \/ FollowerTimesOut(t) \/ NativeRefuses(t)
  \/ \E n \in Nodes : ForeignHint(n)
  \/ \E n \in Nodes, h \in Hints : AbandonPublication(n, h)

Next ==
  \/ Mutate \/ FaultStep
  \/ \E n \in Nodes, h \in Hints : RefreshStyle(n, h)
  \/ \E n \in Nodes : GossipStep(n) \/ TimeStep(n)
  \/ \E t \in Tasks : TaskStep(t)

TaskNames == UNION {DOMAIN s.task : s \in Scenarios}

Fairness ==
  /\ \A t \in TaskNames : WF_vars(t \in Tasks /\ TaskStep(t))
  /\ \A n \in NodeNames :
       /\ WF_vars(n \in Nodes /\ GossipStep(n))
       /\ WF_vars(n \in Nodes /\ (FloorPasses(n) \/ FreshnessEnds(n)))
       /\ WF_vars(n \in Nodes /\ \E k \in Keys : OutputExpires(n, k))
       /\ WF_vars(n \in Nodes /\ \E k \in Keys : ErrorExpires(n, k))
       /\ WF_vars(n \in Nodes /\ \E k \in Keys : JsonExpires(n, k))

Spec == Init /\ [][Next]_vars /\ Fairness

(***************************************************************************)
(* Properties.                                                             *)
(***************************************************************************)

Observed == [ver : Revs, prev : Revs \cup {None}, boot : BOOLEAN, floor : BOOLEAN,
             due : BOOLEAN, pend : BOOLEAN]
Records == {NoRecord} \cup (Hints \X Revs)
Phases == {"idle", "lookup", "follow", "load", "wait", "fetch", "fetched", "render"}
Requests ==
  [pc : Phases, rev : Revs, at : Nodes \cup {"none"}, lead : SUBSET Nodes,
   live : SUBSET Nodes, stale : Revs, first : BOOLEAN, fence : Nat \X Nat,
   got : Revs, bytes : Revs]

TypeOK ==
  /\ sc \in Scenarios /\ content \in Nat
  /\ obs \in [Nodes -> Observed]
  /\ clus \in [Nodes -> [ver : Revs, prev : Revs \cup {None}]]
  /\ pending \in [Nodes -> {0} \cup Hints]
  /\ gen \in [Nodes -> Nat] /\ reqs \in [Nodes -> Nat]
  /\ admitted \in [Nodes -> SUBSET Hints] /\ publishing \in [Nodes -> SUBSET Hints]
  /\ ring \in [Nodes -> [Slots -> Records]] /\ ann \in [Nodes -> [Slots -> Records]]
  /\ seen \in [Nodes -> [hints : [Nodes -> [Slots -> Records]],
                         revs : [Nodes -> [Slots -> Records]]]]
  /\ inbox \in [Nodes -> SUBSET ({"hint", "rev"} \X Nodes \X Slots)]
  /\ json \in [Nodes -> [Keys -> Revs]] /\ out \in [Nodes -> [Keys -> Revs]]
  /\ err \in [Nodes -> SUBSET Keys]
  /\ task \in [Tasks -> Requests]
  /\ budget \in [foreign : Nat, fail : Nat, lost : Nat]

\* A node that has applied a publisher's hint and still routes by content
\* older than the hinted mutation knows it: a revalidation is pending or due.
\* A fetch that began before the hint, a full fence map, a hint overtaken by
\* an older one and a peer's observation must all leave that memory in place
\* (record_observed_for_generation, apply_cluster_observation).
StaleKnowsIt ==
  \A n \in Nodes : \A h \in admitted[n] :
    Latest(n) < h => HasPendingRevalidation(n) \/ NeedsRevalidation(n)

\* The style JSON held under a revision is never older than that revision,
\* whatever order fetches, hints and observations complete in
\* (load_style_json: bytes are installed before their revision is published).
NeverOlderThanLabel ==
  \A n \in Nodes, k \in Keys : json[n][k] # 0 => json[n][k] >= k[1]

\* Every hint that stays in a node's gossip ring is eventually applied by
\* every other node, whatever else its watcher had queued.
HintsReachPeers ==
  <>[] (\A n \in Nodes, p \in Nodes, s \in Slots :
          ring[p][s][1] # 0 => ring[p][s][1] \in admitted[n])

Shows(t) == task[t].pc = "idle" => task[t].bytes = content

\* Where every node renders its own requests, the answers eventually all show
\* the provider's last content, with or without hints: freshness revalidation
\* makes up for hints that came early, late, twice or not at all.
ConvergesLocally == <>[] (sc.routes = {} => \A t \in Tasks : Shows(t))

\* "Ring overwrite or loss can delay but cannot prevent convergence": the same
\* of every cluster, requests forwarded to a peer included.
Converges == <>[] (\A t \in Tasks : Shows(t))

====
