-------------------------- MODULE StyleRefreshProofs --------------------------
(***************************************************************************)
(* Proofs about StyleRefresh, for any nodes, requests, hints and contents. *)
(***************************************************************************)
EXTENDS StyleRefresh, TLAPS

USE Zenon

-----------------------------------------------------------------------------
(* The inductive invariant, in five parts that change at different times.  *)

\* The scenario stays one of the given ones, and contents only go up to its last.
BaseOK ==
  /\ sc \in Scenarios
  /\ content \in Nat /\ 1 <= content /\ content <= sc.last
  /\ budget \in [foreign : Nat, fail : Nat, lost : Nat]

\* What a node knows is not ahead of the provider: revisions and hints name
\* contents that exist.
NodeBehind(n) ==
  /\ obs[n].ver <= content /\ clus[n].ver <= content /\ pending[n] <= content
  /\ \A h \in admitted[n] : h <= content
  /\ \A h \in publishing[n] : h <= content

\* The observed entry of n remembers each hint it is older than; only an
\* observed style has a fence entry.
Remembers(n) ==
  /\ gen[n] # 0 => obs[n].ver # 0
  /\ obs[n].ver = 0 => obs[n].due /\ obs[n].floor
  /\ obs[n].ver # 0 => \A h \in admitted[n] : obs[n].ver < h => obs[n].pend

CatalogOK ==
  /\ obs \in [Nodes -> Observed]
  /\ clus \in [Nodes -> [ver : Revs, prev : Revs \cup {None}]]
  /\ pending \in [Nodes -> {0} \cup Hints]
  /\ gen \in [Nodes -> Nat] /\ reqs \in [Nodes -> Nat]
  /\ admitted \in [Nodes -> SUBSET Hints] /\ publishing \in [Nodes -> SUBSET Hints]
  /\ \A n \in Nodes : NodeBehind(n) /\ Remembers(n)

\* No ring is ahead of the provider either.
RingOK(rings) ==
  /\ rings \in [Nodes -> [Slots -> Records]]
  /\ \A p \in Nodes, s \in Slots : rings[p][s][1] <= content /\ rings[p][s][2] <= content

\* The snapshots are of such rings, and a watcher has real records to apply.
GossipOK ==
  /\ RingOK(ring) /\ RingOK(ann)
  /\ seen \in [Nodes -> [hints : [Nodes -> [Slots -> Records]],
                         revs : [Nodes -> [Slots -> Records]]]]
  /\ \A n \in Nodes : RingOK(seen[n].hints) /\ RingOK(seen[n].revs)
  /\ inbox \in [Nodes -> SUBSET ({"hint", "rev"} \X Nodes \X Slots)]
  /\ \A n \in Nodes : \A item \in inbox[n] : Record(seen[n], item) # NoRecord

CachesOK ==
  /\ json \in [Nodes -> [Keys -> Revs]] /\ out \in [Nodes -> [Keys -> Revs]]
  /\ err \in [Nodes -> SUBSET Keys]
  /\ NeverOlderThanLabel

\* A fetch of request x: its fence is behind the counters of its node, and as
\* long as the fence is current its content is not older than any hint the
\* node has applied.
FetchSound(x) ==
  /\ x.fence[1] <= gen[x.at] /\ x.fence[2] <= reqs[x.at]
  /\ x.pc = "fetched" =>
       /\ 1 <= x.got /\ x.rev <= x.got /\ x.got <= content
       /\ FetchIsCurrent(x.at, x.fence) => \A h \in admitted[x.at] : h <= x.got

RequestSound(x) ==
  /\ x.pc # "idle" => x.at \in Nodes
  /\ x.rev <= content
  /\ x.pc \in {"fetch", "fetched"} => FetchSound(x)

RequestsOK ==
  /\ task \in [Tasks -> Requests]
  /\ \A t \in Tasks : RequestSound(task[t])

Inv == BaseOK /\ CatalogOK /\ GossipOK /\ CachesOK /\ RequestsOK

-----------------------------------------------------------------------------
(* The scenario of a behaviour.                                            *)

\* What the assumption says of the current scenario.
LEMMA ScenarioFacts ==
  ASSUME sc \in Scenarios
  PROVE  /\ sc.last \in Nat /\ 1 <= sc.last
         /\ \A h \in Hints : sc.slot[h] \in Slots
         /\ \A t \in Tasks : Home(t) \in Nodes
         /\ sc.receivers \subseteq Nodes /\ sc.routes \subseteq Nodes
         /\ sc.room \in BOOLEAN
         /\ Hints \subseteq Nat /\ Hints \subseteq Revs /\ Revs \subseteq Nat
         /\ 0 \in Revs /\ \A x \in Nat : x <= sc.last => x \in Revs
<1>1. sc.last \in Nat /\ 1 <= sc.last
  BY ScenariosAssumption, SMTT(30)
<1>2. \A h \in Hints : sc.slot[h] \in Slots
  BY DEF Slots
<1>3. \A t \in Tasks : Home(t) \in Nodes
  BY ScenariosAssumption DEF Tasks, Home, Nodes
<1>4. sc.receivers \subseteq Nodes /\ sc.routes \subseteq Nodes /\ sc.room \in BOOLEAN
  BY ScenariosAssumption DEF Nodes
<1>5. /\ Hints \subseteq Nat /\ Hints \subseteq Revs /\ Revs \subseteq Nat
      /\ 0 \in Revs /\ \A x \in Nat : x <= sc.last => x \in Revs
  BY <1>1, SMTT(30) DEF Hints, Revs
<1> QED
  BY <1>1, <1>2, <1>3, <1>4, <1>5

\* A record is empty or names a hint, with a revision.
LEMMA RecordFacts ==
  ASSUME sc \in Scenarios, NEW r \in Records
  PROVE  /\ r[1] \in Nat /\ r[2] \in Nat
         /\ r # NoRecord => r[1] \in Hints /\ r[2] \in Revs
<1>1. Hints \subseteq Nat /\ Revs \subseteq Nat
  BY ScenarioFacts
<1>2. CASE r = NoRecord
  <2>1. r[1] = 0 /\ r[2] = 0
    BY <1>2, SMTT(30) DEF NoRecord
  <2> QED
    BY <1>2, <2>1, SMTT(30)
<1>3. CASE r \in Hints \X Revs
  BY <1>1, <1>3
<1> QED
  BY <1>2, <1>3 DEF Records

\* The scenario never changes, and so do the sets drawn from it.
LEMMA ScenarioFixed ==
  ASSUME sc' = sc
  PROVE  /\ Nodes' = Nodes /\ Tasks' = Tasks /\ Hints' = Hints /\ Revs' = Revs
         /\ Slots' = Slots /\ Creds' = Creds /\ Keys' = Keys
         /\ Records' = Records /\ Observed' = Observed /\ Requests' = Requests
<1>1. /\ Nodes' = Nodes /\ Tasks' = Tasks /\ Hints' = Hints /\ Revs' = Revs
  BY DEF Nodes, Tasks, Hints, Revs
<1>2. Slots' = Slots
  BY DEF Slots, Hints
<1>3. Creds' = Creds
  BY DEF Creds, Tasks
<1> QED
  BY <1>1, <1>2, <1>3 DEF Keys, Records, Observed, Requests

-----------------------------------------------------------------------------
(* What leaves a part of the state alone keeps its part of the invariant,  *)
(* also when the provider moves on.                                        *)

Onward == sc' = sc /\ content \in Nat /\ content' \in Nat /\ content <= content'

\* The catalogs and the hints the nodes have applied.
LEMMA CatalogKept ==
  ASSUME CatalogOK, BaseOK, Onward,
         UNCHANGED <<obs, clus, pending, gen, reqs, admitted, publishing>>
  PROVE  CatalogOK'
<1>1. /\ Nodes' = Nodes /\ Hints' = Hints /\ Revs' = Revs /\ Observed' = Observed
  BY ScenarioFixed DEF Onward
<1>2. ASSUME NEW n \in Nodes
      PROVE  NodeBehind(n)' /\ Remembers(n)'
  <2>1. NodeBehind(n) /\ Remembers(n)
    BY DEF CatalogOK
  <2>2. Remembers(n)'
    BY <2>1 DEF Remembers
  <2>3. obs[n].ver \in Nat /\ clus[n].ver \in Nat
    BY ScenarioFacts, SMTT(30) DEF CatalogOK, Observed, BaseOK
  <2>4. /\ admitted[n] \subseteq Nat /\ publishing[n] \subseteq Nat
        /\ pending[n] \in {0} \cup Nat
    BY ScenarioFacts DEF CatalogOK, BaseOK
  <2>5. NodeBehind(n)'
    BY <2>1, <2>3, <2>4, SMTT(30) DEF NodeBehind, Onward
  <2> QED
    BY <2>2, <2>5
<1> QED
  BY <1>1, <1>2 DEF CatalogOK

\* A ring, or a snapshot of one.
LEMMA RingKept ==
  ASSUME BaseOK, Onward, NEW rings, RingOK(rings)
  PROVE  RingOK(rings)'
<1>1. /\ Nodes' = Nodes /\ Slots' = Slots /\ Records' = Records
  BY ScenarioFixed DEF Onward
<1>2. ASSUME NEW p \in Nodes, NEW s \in Slots
      PROVE  rings[p][s][1] <= content' /\ rings[p][s][2] <= content'
  <2>1. rings[p][s][1] <= content /\ rings[p][s][2] <= content
    BY DEF RingOK
  <2>2. rings[p][s] \in Records
    BY DEF RingOK
  <2>4. rings[p][s][1] \in Nat /\ rings[p][s][2] \in Nat
    BY <2>2, RecordFacts DEF BaseOK
  <2> QED
    BY <2>1, <2>4, SMTT(30) DEF Onward
<1>3. rings \in [Nodes -> [Slots -> Records]]
  BY DEF RingOK
<1> QED
  BY <1>1, <1>2, <1>3 DEF RingOK

\* The rings, the snapshots and what is left to apply of them.
LEMMA GossipKept ==
  ASSUME GossipOK, BaseOK, Onward, UNCHANGED <<ring, ann, seen, inbox>>
  PROVE  GossipOK'
<1>1. /\ Nodes' = Nodes /\ Slots' = Slots /\ Records' = Records
  BY ScenarioFixed DEF Onward
<1>2. RingOK(ring)' /\ RingOK(ann)'
  BY RingKept DEF GossipOK, RingOK
<1>3. ASSUME NEW n \in Nodes
      PROVE  RingOK(seen[n].hints)' /\ RingOK(seen[n].revs)'
  BY RingKept DEF GossipOK, RingOK
<1>4. \A n \in Nodes' : \A item \in inbox'[n] : Record(seen'[n], item) # NoRecord
  BY <1>1 DEF GossipOK
<1> QED
  BY <1>1, <1>2, <1>3, <1>4 DEF GossipOK, Record, NoRecord

\* The caches.
LEMMA CachesKept ==
  ASSUME CachesOK, sc' = sc, UNCHANGED <<json, out, err>>
  PROVE  CachesOK'
<1>1. /\ Nodes' = Nodes /\ Keys' = Keys /\ Revs' = Revs
  BY ScenarioFixed
<1> QED
  BY <1>1 DEF CachesOK, NeverOlderThanLabel

-----------------------------------------------------------------------------
(* Requests.                                                               *)

\* A request stays sound while the counters of the nodes grow and no hint is
\* applied.
LEMMA RequestKept ==
  ASSUME BaseOK, Onward, CatalogOK, UNCHANGED <<gen, admitted>>,
         reqs' \in [Nodes -> Nat], \A n \in Nodes : reqs[n] <= reqs'[n],
         NEW x \in Requests, RequestSound(x)
  PROVE  RequestSound(x)'
<1>1. Nodes' = Nodes
  BY ScenarioFixed DEF Onward
<1>2. x.rev <= content'
  <2>1. x.rev \in Nat /\ x.rev <= content
    BY ScenarioFacts, SMTT(30) DEF RequestSound, Requests, BaseOK
  <2> QED
    BY <2>1, SMTT(30) DEF Onward
<1>3. ASSUME x.pc \in {"fetch", "fetched"}
      PROVE  FetchSound(x)'
  <2>1. x.at \in Nodes /\ FetchSound(x)
    <3>1. x.pc # "idle"
      BY <1>3, SMTT(30)
    <3> QED
      BY <1>3, <3>1 DEF RequestSound
  <2>2. /\ gen[x.at] \in Nat /\ reqs[x.at] \in Nat /\ reqs'[x.at] \in Nat
        /\ reqs[x.at] <= reqs'[x.at]
    BY <2>1 DEF CatalogOK
  <2>3. x.fence[1] \in Nat /\ x.fence[2] \in Nat
    BY SMTT(30) DEF Requests
  <2>4. x.fence[2] <= reqs'[x.at]
    BY <2>1, <2>2, <2>3, SMTT(30) DEF FetchSound
  <2>5. ASSUME x.pc = "fetched"
        PROVE  /\ 1 <= x.got /\ x.rev <= x.got /\ x.got <= content'
               /\ FetchIsCurrent(x.at, x.fence)' => \A h \in admitted'[x.at] : h <= x.got
    <3>1. /\ 1 <= x.got /\ x.rev <= x.got /\ x.got <= content
          /\ FetchIsCurrent(x.at, x.fence) => \A h \in admitted[x.at] : h <= x.got
      BY <2>1, <2>5 DEF FetchSound
    <3>2. x.got \in Nat
      BY ScenarioFacts, SMTT(30) DEF Requests, BaseOK
    <3>3. x.got <= content'
      BY <3>1, <3>2, SMTT(30) DEF Onward
    <3>4. FetchIsCurrent(x.at, x.fence)' => FetchIsCurrent(x.at, x.fence)
      BY <2>1, <2>2, <2>3, SMTT(30) DEF FetchIsCurrent, FetchSound
    <3> QED
      BY <3>1, <3>3, <3>4
  <2> QED
    BY <2>1, <2>4, <2>5 DEF FetchSound
<1>4. x.pc # "idle" => x.at \in Nodes
  BY DEF RequestSound
<1> QED
  BY <1>1, <1>2, <1>3, <1>4 DEF RequestSound

\* So do all, when the requests themselves stand still.
LEMMA RequestsKept ==
  ASSUME BaseOK, Onward, CatalogOK, RequestsOK, UNCHANGED <<gen, admitted, task>>,
         reqs' \in [Nodes -> Nat], \A n \in Nodes : reqs[n] <= reqs'[n]
  PROVE  RequestsOK'
<1>1. Tasks' = Tasks /\ Requests' = Requests
  BY ScenarioFixed DEF Onward
<1>2. ASSUME NEW t \in Tasks
      PROVE  RequestSound(task[t])'
  <2>1. task[t] \in Requests /\ RequestSound(task[t])
    BY DEF RequestsOK
  <2>2. PICK x : x = task[t]
    OBVIOUS
  <2>3. RequestSound(x)'
    BY <2>1, <2>2, RequestKept
  <2> QED
    BY <2>2, <2>3
<1> QED
  BY <1>1, <1>2 DEF RequestsOK

\* The catalogs as they are during a step of a request.
Still == UNCHANGED <<sc, content, gen, reqs, admitted>>

\* A request that is left alone stays sound while its node's fence counters and
\* hints do.
LEMMA RequestStill ==
  ASSUME BaseOK, CatalogOK, Still, NEW x \in Requests, RequestSound(x)
  PROVE  RequestSound(x)'
<1>1. Onward
  BY SMTT(30) DEF Still, BaseOK, Onward
<1>2. reqs' \in [Nodes -> Nat]
  BY DEF Still, CatalogOK
<1>3. ASSUME NEW n \in Nodes
      PROVE  reqs[n] <= reqs'[n]
  <2>1. reqs[n] \in Nat /\ reqs'[n] = reqs[n]
    BY DEF Still, CatalogOK
  <2> QED
    BY <2>1, SMTT(30)
<1> QED
  BY <1>1, <1>2, <1>3, RequestKept DEF Still

\* One request takes a step to a sound state.
LEMMA StepSound ==
  ASSUME BaseOK, CatalogOK, RequestsOK, Still, NEW t \in Tasks,
         NEW new \in Requests, RequestSound(new), Step(t, new)
  PROVE  RequestsOK'
<1>1. Tasks' = Tasks /\ Requests' = Requests
  BY ScenarioFixed DEF Still
<1>2. task' \in [Tasks -> Requests]
  BY DEF Step, RequestsOK
<1>3. ASSUME NEW u \in Tasks
      PROVE  RequestSound(task[u])'
  <2>1. PICK x : x = task'[u]
    OBVIOUS
  <2>2. x = new \/ x = task[u]
    BY <2>1 DEF Step, RequestsOK
  <2>3. x \in Requests /\ RequestSound(x)
    BY <2>2 DEF RequestsOK
  <2>4. RequestSound(x)'
    BY <2>3, RequestStill
  <2> QED
    BY <2>1, <2>4
<1> QED
  BY <1>1, <1>2, <1>3 DEF RequestsOK

\* Outside a fetch a request is sound when it has a node and its revision exists.
LEMMA NotFetching ==
  ASSUME NEW x, x.pc \notin {"fetch", "fetched"}, x.pc = "idle" \/ x.at \in Nodes,
         x.rev <= content
  PROVE  RequestSound(x)
  BY DEF RequestSound

\* A request stays well formed when one of its fields takes another value.
LEMMA FieldTyped ==
  ASSUME NEW x \in Requests
  PROVE  /\ \A p \in Phases : [x EXCEPT !.pc = p] \in Requests
         /\ \A n \in Nodes : [x EXCEPT !.at = n] \in Requests
         /\ \A r \in Revs : [x EXCEPT !.rev = r] \in Requests
         /\ \A S \in SUBSET Nodes : [x EXCEPT !.lead = S] \in Requests
         /\ \A S \in SUBSET Nodes : [x EXCEPT !.live = S] \in Requests
         /\ \A r \in Revs : [x EXCEPT !.stale = r] \in Requests
         /\ \A b \in BOOLEAN : [x EXCEPT !.first = b] \in Requests
         /\ \A f \in Nat \X Nat : [x EXCEPT !.fence = f] \in Requests
         /\ \A r \in Revs : [x EXCEPT !.got = r] \in Requests
         /\ \A r \in Revs : [x EXCEPT !.bytes = r] \in Requests
<1>1. \A p \in Phases : [x EXCEPT !.pc = p] \in Requests
  BY SMTT(30) DEF Requests
<1>2. \A n \in Nodes : [x EXCEPT !.at = n] \in Requests
  BY SMTT(30) DEF Requests
<1>3. \A r \in Revs : [x EXCEPT !.rev = r] \in Requests
  BY SMTT(30) DEF Requests
<1>4. \A S \in SUBSET Nodes : [x EXCEPT !.lead = S] \in Requests
  BY SMTT(30) DEF Requests
<1>5. \A S \in SUBSET Nodes : [x EXCEPT !.live = S] \in Requests
  BY SMTT(30) DEF Requests
<1>6. \A r \in Revs : [x EXCEPT !.stale = r] \in Requests
  BY SMTT(30) DEF Requests
<1>7. \A b \in BOOLEAN : [x EXCEPT !.first = b] \in Requests
  BY SMTT(30) DEF Requests
<1>8. \A f \in Nat \X Nat : [x EXCEPT !.fence = f] \in Requests
  BY SMTT(30) DEF Requests
<1>9. \A r \in Revs : [x EXCEPT !.got = r] \in Requests
  BY SMTT(30) DEF Requests
<1>10. \A r \in Revs : [x EXCEPT !.bytes = r] \in Requests
  BY SMTT(30) DEF Requests
<1> QED
  BY <1>1, <1>2, <1>3, <1>4, <1>5, <1>6, <1>7, <1>8, <1>9, <1>10

\* A request at a node, and one that is done.
LEMMA RequestFacts ==
  ASSUME BaseOK, RequestsOK, NEW t \in Tasks
  PROVE  /\ task[t] \in Requests /\ RequestSound(task[t])
         /\ task[t].rev \in Revs /\ task[t].rev <= content
         /\ task[t].got \in Revs /\ task[t].stale \in Revs /\ task[t].bytes \in Revs
         /\ task[t].pc # "idle" => task[t].at \in Nodes
         /\ Key(t) \in Keys
<1>1. task[t] \in Requests /\ RequestSound(task[t])
  BY DEF RequestsOK
<1>2. /\ task[t].rev \in Revs /\ task[t].got \in Revs /\ task[t].stale \in Revs
      /\ task[t].bytes \in Revs
  BY <1>1, SMTT(30) DEF Requests
<1>3. sc.task[t].cred \in Creds
  BY DEF Creds
<1>4. Key(t) \in Keys
  BY <1>2, <1>3 DEF Key, Keys
<1> QED
  BY <1>1, <1>2, <1>4 DEF RequestSound

\* A request that is answered or refused has left the system.
LEMMA AnsweredSound ==
  ASSUME BaseOK, NEW b \in Revs
  PROVE  Answered(b) \in Requests /\ RequestSound(Answered(b))
<1>1. 0 \in Revs
  BY ScenarioFacts DEF BaseOK
<1>2. Answered(b) \in Requests /\ Answered(b).pc = "idle" /\ Answered(b).rev = 0
  <2>1. NoTask \in Requests /\ NoTask.pc = "idle" /\ NoTask.rev = 0
    BY <1>1, SMTT(30) DEF NoTask, Requests, Phases, Boot
  <2>2. Answered(b) \in Requests
    BY <2>1, FieldTyped DEF Answered
  <2>3. Answered(b).pc = NoTask.pc /\ Answered(b).rev = NoTask.rev
    BY <2>1 DEF Answered, Requests
  <2> QED
    BY <2>1, <2>2, <2>3
<1>3. Answered(b).rev <= content
  BY <1>2, SMTT(30) DEF BaseOK
<1>4. Answered(b).pc \notin {"fetch", "fetched"}
  BY <1>2, SMTT(30)
<1> QED
  BY <1>2, <1>3, <1>4, NotFetching

\* A refused request is idle again, and sound.
LEMMA RefusedSound ==
  ASSUME BaseOK
  PROVE  Refused \in Requests /\ RequestSound(Refused)
<1>1. 0 \in Revs
  BY ScenarioFacts DEF BaseOK
<1>2. Refused \in Requests /\ Refused.pc = "idle" /\ Refused.rev = 0
  BY <1>1, SMTT(30) DEF Refused, NoTask, Requests, Phases, Boot
<1>3. Refused.rev <= content
  BY <1>2, SMTT(30) DEF BaseOK
<1>4. Refused.pc \notin {"fetch", "fetched"}
  BY <1>2, SMTT(30)
<1> QED
  BY <1>2, <1>3, <1>4, NotFetching

\* A request that waits, follows or goes back to load stays where it is.
LEMMA AtSound ==
  ASSUME BaseOK, RequestsOK, NEW t \in Tasks, task[t].pc # "idle",
         NEW p \in {"lookup", "follow", "load", "wait"}
  PROVE  At(t, p) \in Requests /\ RequestSound(At(t, p))
<1>1. task[t] \in Requests /\ task[t].rev <= content /\ task[t].at \in Nodes
  BY RequestFacts
<1>2. p \in Phases /\ p \notin {"fetch", "fetched"}
  BY SMTT(30) DEF Phases
<1>3. At(t, p) \in Requests /\ At(t, p).pc = p /\ At(t, p).at = task[t].at
      /\ At(t, p).rev = task[t].rev
  <2>1. At(t, p) \in Requests
    BY <1>1, <1>2, FieldTyped DEF At
  <2> QED
    BY <1>1, <2>1 DEF At, Requests
<1> QED
  BY <1>1, <1>2, <1>3, NotFetching

\* ... and one whose profile is prepared.
LEMMA PreparedTyped ==
  ASSUME NEW x \in Requests, NEW b \in Revs, 0 \in Revs
  PROVE  LET y == [x EXCEPT !.pc = "render", !.bytes = b, !.stale = 0, !.first = FALSE,
                            !.fence = <<0, 0>>, !.got = 0]
         IN  y \in Requests /\ y.pc = "render" /\ y.at = x.at /\ y.rev = x.rev
<1> DEFINE v == [x EXCEPT !.pc = "render"]
           v1 == [v EXCEPT !.bytes = b]
           v2 == [v1 EXCEPT !.stale = 0]
           v3 == [v2 EXCEPT !.first = FALSE]
           v4 == [v3 EXCEPT !.fence = <<0, 0>>]
           y == [v4 EXCEPT !.got = 0]
<1>1. "render" \in Phases /\ <<0, 0>> \in Nat \X Nat
  BY SMTT(30) DEF Phases
<1>2. v \in Requests
  BY <1>1, FieldTyped
<1>3. v1 \in Requests
  BY <1>2, FieldTyped
<1>4. v2 \in Requests
  BY <1>3, FieldTyped
<1>5. v3 \in Requests
  BY <1>4, FieldTyped
<1>6. v4 \in Requests
  BY <1>1, <1>5, FieldTyped
<1>7. y \in Requests
  BY <1>6, FieldTyped
<1>8. y.pc = "render" /\ y.at = x.at /\ y.rev = x.rev
  BY DEF Requests
<1> QED
  BY <1>7, <1>8

\* A request whose profile is prepared has no fetch left, and is sound.
LEMMA PreparedSound ==
  ASSUME BaseOK, RequestsOK, NEW t \in Tasks, task[t].pc # "idle", NEW b \in Revs
  PROVE  Prepared(t, b) \in Requests /\ RequestSound(Prepared(t, b))
<1>1. task[t] \in Requests /\ task[t].rev <= content /\ task[t].at \in Nodes
  BY RequestFacts
<1>2. 0 \in Revs
  BY ScenarioFacts DEF BaseOK
<1>3. /\ Prepared(t, b) \in Requests /\ Prepared(t, b).pc = "render"
      /\ Prepared(t, b).at = task[t].at /\ Prepared(t, b).rev = task[t].rev
  BY <1>1, <1>2, PreparedTyped DEF Prepared
<1>4. Prepared(t, b).pc \notin {"fetch", "fetched"}
  BY <1>3, SMTT(30)
<1> QED
  BY <1>1, <1>3, <1>4, NotFetching

\* A step of requests alone keeps the rest of the invariant.
LEMMA OnlyRequests ==
  ASSUME Inv, UNCHANGED <<sc, content, catalog, gossip, caches, budget>>, RequestsOK'
  PROVE  Inv'
<1>1. Onward
  BY SMTT(30) DEF Inv, BaseOK, Onward
<1>2. BaseOK'
  BY DEF Inv, BaseOK
<1>3. CatalogOK'
  BY <1>1, CatalogKept DEF Inv, catalog, gossip
<1>4. GossipOK'
  BY <1>1, GossipKept DEF Inv, gossip
<1>5. CachesOK'
  BY CachesKept DEF Inv, caches
<1> QED
  BY <1>2, <1>3, <1>4, <1>5 DEF Inv

\* Steps that leave the catalog and the gossip alone change no fence.
LEMMA StillFrom ==
  ASSUME UNCHANGED <<sc, content, catalog, gossip>>
  PROVE  Still
  BY DEF Still, catalog, gossip

\* The revision a node routes by exists.
LEMMA LatestFacts ==
  ASSUME BaseOK, CatalogOK, NEW n \in Nodes
  PROVE  Latest(n) \in Revs /\ Latest(n) <= content
<1>1. obs[n] \in Observed /\ clus[n] \in [ver : Revs, prev : Revs \cup {None}]
  BY DEF CatalogOK
<1>2. obs[n].ver \in Revs /\ clus[n].ver \in Revs
  BY <1>1, SMTT(30) DEF Observed
<1>3. obs[n].ver <= content /\ clus[n].ver <= content
  BY DEF CatalogOK, NodeBehind
<1> QED
  BY <1>2, <1>3 DEF Latest

-----------------------------------------------------------------------------
(* The steps of a request.                                                 *)

\* Ingress pins the latest revision of the home node, which exists at the provider.
LEMMA ArriveKeeps ==
  ASSUME Inv, NEW t \in Tasks, Arrive(t)
  PROVE  Inv'
<1>1. BaseOK /\ CatalogOK /\ RequestsOK
  BY DEF Inv
<1> DEFINE n == Home(t)
           r == Latest(n)
           new == [NoTask EXCEPT !.pc = "lookup", !.at = n, !.rev = r]
<1>2. n \in Nodes
  BY <1>1, ScenarioFacts DEF BaseOK
<1>3. r \in Revs /\ r <= content
  BY <1>1, <1>2, LatestFacts
<1> HIDE DEF n, r
<1>4. NoTask \in Requests
  BY <1>1, RefusedSound DEF Refused
<1>5. "lookup" \in Phases /\ "lookup" \notin {"fetch", "fetched"}
  BY SMTT(30) DEF Phases
<1>6. new \in Requests
  <2> DEFINE v == [NoTask EXCEPT !.pc = "lookup"]
             v1 == [v EXCEPT !.at = n]
  <2>1. v \in Requests
    BY <1>4, <1>5, FieldTyped
  <2>2. v1 \in Requests
    BY <2>1, <1>2, FieldTyped
  <2>3. [v1 EXCEPT !.rev = r] \in Requests
    BY <2>2, <1>3, FieldTyped
  <2> QED
    BY <2>3
<1>7. new.pc = "lookup" /\ new.at = n /\ new.rev = r
  BY <1>4 DEF Requests
<1>8. RequestSound(new)
  <2> HIDE DEF new
  <2> QED
    BY <1>2, <1>3, <1>5, <1>7, NotFetching
<1>9. Step(t, new)
  BY DEF Arrive, Step, n, r
<1>10. Still
  BY StillFrom DEF Arrive
<1> HIDE DEF new
<1>11. RequestsOK'
  BY <1>1, <1>6, <1>8, <1>9, <1>10, StepSound
<1> QED
  BY <1>11, OnlyRequests DEF Arrive

\* Rendering here, or forwarding to a peer.
LEMMA DispatchSound ==
  ASSUME Inv, NEW t \in Tasks, task[t].pc # "idle", NEW S \in SUBSET Nodes,
         Dispatch(t, S), Still
  PROVE  RequestsOK'
<1>1. BaseOK /\ CatalogOK /\ RequestsOK
  BY DEF Inv
<1>2. task[t] \in Requests /\ task[t].rev <= content /\ task[t].at \in Nodes
  BY <1>1, RequestFacts
<1> DEFINE leading == [task[t] EXCEPT !.lead = @ \cup S, !.live = @ \cup S]
<1>3. leading \in Requests
  <2> DEFINE v == [task[t] EXCEPT !.lead = @ \cup S]
  <2>1. task[t].lead \in SUBSET Nodes /\ task[t].live \in SUBSET Nodes
    BY <1>2, SMTT(30) DEF Requests
  <2>2. task[t].lead \cup S \in SUBSET Nodes /\ task[t].live \cup S \in SUBSET Nodes
    BY <2>1
  <2>3. v \in Requests
    BY <1>2, <2>2, FieldTyped
  <2>4. [v EXCEPT !.live = task[t].live \cup S] \in Requests
    BY <2>2, <2>3, FieldTyped
  <2> QED
    BY <1>2, <2>4 DEF Requests
<1>4. leading.at = task[t].at /\ leading.rev = task[t].rev
  BY <1>2 DEF Requests
<1>5. /\ "load" \in Phases /\ "load" \notin {"fetch", "fetched"}
      /\ "lookup" \in Phases /\ "lookup" \notin {"fetch", "fetched"}
  BY SMTT(30) DEF Phases
<1>6. \/ Step(t, [leading EXCEPT !.pc = "load"])
      \/ \E p \in sc.routes : Step(t, [leading EXCEPT !.pc = "lookup", !.at = p])
  BY DEF Dispatch
<1> HIDE DEF leading
<1>7. CASE Step(t, [leading EXCEPT !.pc = "load"])
  <2> DEFINE new == [leading EXCEPT !.pc = "load"]
  <2>1. new \in Requests
    BY <1>3, <1>5, FieldTyped
  <2>2. new.pc = "load" /\ new.at = task[t].at /\ new.rev = task[t].rev
    BY <1>3, <1>4 DEF Requests
  <2> HIDE DEF new
  <2>3. RequestSound(new)
    BY <1>2, <1>5, <2>2, NotFetching
  <2>4. Step(t, new)
    BY <1>7 DEF new
  <2> QED
    BY <1>1, <2>1, <2>3, <2>4, StepSound
<1>8. ASSUME NEW p \in sc.routes, Step(t, [leading EXCEPT !.pc = "lookup", !.at = p])
      PROVE  RequestsOK'
  <2> DEFINE v == [leading EXCEPT !.pc = "lookup"]
             new == [leading EXCEPT !.pc = "lookup", !.at = p]
  <2>1. p \in Nodes
    BY <1>1, ScenarioFacts DEF BaseOK
  <2>2. v \in Requests
    BY <1>3, <1>5, FieldTyped
  <2>3. [v EXCEPT !.at = p] \in Requests
    BY <2>1, <2>2, FieldTyped
  <2>4. new \in Requests
    BY <2>3
  <2>5. new.pc = "lookup" /\ new.at = p /\ new.rev = task[t].rev
    BY <1>3, <1>4 DEF Requests
  <2> HIDE DEF new
  <2>6. RequestSound(new)
    BY <1>2, <1>5, <2>1, <2>5, NotFetching
  <2>7. Step(t, new)
    BY <1>8 DEF new
  <2> QED
    BY <1>1, <2>4, <2>6, <2>7, StepSound
<1> QED
  BY <1>6, <1>7, <1>8

\* A hit, a follower or a leader.
LEMMA LookupOrJoinSound ==
  ASSUME Inv, NEW t \in Tasks, task[t].pc # "idle", LookupOrJoin(t), Still
  PROVE  RequestsOK'
<1>1. BaseOK /\ CatalogOK /\ CachesOK /\ RequestsOK
  BY DEF Inv
<1>2. task[t].at \in Nodes /\ Key(t) \in Keys
  BY <1>1, RequestFacts
<1>3. out[task[t].at][Key(t)] \in Revs
  BY <1>1, <1>2 DEF CachesOK
<1>4. CASE Step(t, Answered(out[task[t].at][Key(t)]))
  BY <1>1, <1>3, <1>4, AnsweredSound, StepSound
<1>5. CASE Step(t, At(t, "follow"))
  <2>1. "follow" \in {"lookup", "follow", "load", "wait"}
    BY SMTT(30)
  <2> QED
    BY <1>1, <1>5, <2>1, AtSound, StepSound
<1>6. CASE Dispatch(t, {task[t].at})
  <2>1. {task[t].at} \in SUBSET Nodes
    BY <1>2
  <2> QED
    BY <1>6, <2>1, DispatchSound
<1> QED
  BY <1>4, <1>5, <1>6 DEF LookupOrJoin

\* The output cache answers, sends the request on, or lets it lead or follow.
LEMMA LookupKeeps ==
  ASSUME Inv, NEW t \in Tasks, Lookup(t)
  PROVE  Inv'
<1>1. BaseOK /\ CatalogOK /\ RequestsOK
  BY DEF Inv
<1>2. task[t].pc # "idle"
  BY SMTT(30) DEF Lookup
<1>3. Still
  BY StillFrom DEF Lookup
<1>4. CASE Step(t, [At(t, "load") EXCEPT !.at = Home(t)])
  <2> DEFINE new == [At(t, "load") EXCEPT !.at = Home(t)]
  <2>1. Home(t) \in Nodes
    BY <1>1, ScenarioFacts DEF BaseOK
  <2>2. "load" \in {"lookup", "follow", "load", "wait"} /\ "load" \notin {"fetch", "fetched"}
    BY SMTT(30)
  <2>3. At(t, "load") \in Requests
    BY <1>1, <1>2, <2>2, AtSound
  <2>4. new \in Requests
    BY <2>1, <2>3, FieldTyped
  <2>5. task[t] \in Requests /\ task[t].rev <= content
    BY <1>1, RequestFacts
  <2>6. new.pc = "load" /\ new.at = Home(t) /\ new.rev = task[t].rev
    BY <2>3, <2>5 DEF At, Requests
  <2> HIDE DEF new
  <2>7. RequestSound(new)
    BY <2>1, <2>2, <2>5, <2>6, NotFetching
  <2>8. RequestsOK'
    BY <1>1, <1>3, <1>4, <2>4, <2>7, StepSound DEF new
  <2> QED
    BY <2>8, OnlyRequests DEF Lookup
<1>5. CASE Dispatch(t, {})
  <2>1. {} \in SUBSET Nodes
    OBVIOUS
  <2>2. RequestsOK'
    BY <1>2, <1>3, <1>5, <2>1, DispatchSound
  <2> QED
    BY <2>2, OnlyRequests DEF Lookup
<1>6. CASE LookupOrJoin(t)
  <2>1. RequestsOK'
    BY <1>2, <1>3, <1>6, LookupOrJoinSound
  <2> QED
    BY <2>1, OnlyRequests DEF Lookup
<1> QED
  BY <1>4, <1>5, <1>6 DEF Lookup

\* A follower that looks again does the same.
LEMMA RecheckKeeps ==
  ASSUME Inv, NEW t \in Tasks, Recheck(t)
  PROVE  Inv'
<1>1. task[t].pc # "idle"
  BY SMTT(30) DEF Recheck
<1>2. Still
  BY StillFrom DEF Recheck
<1>3. RequestsOK'
  BY <1>1, <1>2, LookupOrJoinSound DEF Recheck
<1> QED
  BY <1>3, OnlyRequests DEF Recheck

\* load_style_json: an error, the held bytes, a flight to follow or to lead.
LEMMA LoadStyleJsonKeeps ==
  ASSUME Inv, NEW t \in Tasks, LoadStyleJson(t)
  PROVE  Inv'
<1>1. BaseOK /\ CatalogOK /\ CachesOK /\ RequestsOK
  BY DEF Inv
<1>2. task[t].pc # "idle"
  BY SMTT(30) DEF LoadStyleJson
<1>3. Still
  BY StillFrom DEF LoadStyleJson
<1>4. /\ task[t] \in Requests /\ task[t].at \in Nodes /\ Key(t) \in Keys
      /\ task[t].rev <= content
  BY <1>1, <1>2, RequestFacts
<1> DEFINE n == task[t].at
           held == json[n][Key(t)]
<1>5. held \in Revs
  BY <1>1, <1>4 DEF CachesOK
<1> DEFINE new == [At(t, "fetch") EXCEPT !.stale = held, !.first = obs[n].ver = 0,
                                         !.fence = <<gen[n], reqs[n]>>]
<1>6. \/ Step(t, Refused)
      \/ Step(t, Prepared(t, held))
      \/ Step(t, At(t, "wait"))
      \/ Step(t, new)
  BY DEF LoadStyleJson
<1> HIDE DEF held
<1>7. ASSUME Step(t, Refused) PROVE RequestsOK'
  BY <1>1, <1>3, <1>7, RefusedSound, StepSound
<1>8. ASSUME Step(t, Prepared(t, held)) PROVE RequestsOK'
  BY <1>1, <1>2, <1>3, <1>5, <1>8, PreparedSound, StepSound
<1>9. ASSUME Step(t, At(t, "wait")) PROVE RequestsOK'
  <2>1. "wait" \in {"lookup", "follow", "load", "wait"}
    BY SMTT(30)
  <2> QED
    BY <1>1, <1>2, <1>3, <1>9, <2>1, AtSound, StepSound
<1>10. ASSUME Step(t, new) PROVE RequestsOK'
  <2> DEFINE b == obs[n].ver = 0
             v == [At(t, "fetch") EXCEPT !.stale = held]
             v1 == [v EXCEPT !.first = b]
  <2>1. "fetch" \in Phases /\ "fetch" \in {"fetch", "fetched"} /\ "fetch" # "fetched"
    BY SMTT(30) DEF Phases
  <2>2. gen[n] \in Nat /\ reqs[n] \in Nat
    BY <1>1, <1>4 DEF CatalogOK
  <2>3. <<gen[n], reqs[n]>> \in Nat \X Nat
    BY <2>2
  <2>4. At(t, "fetch") \in Requests
    BY <1>4, <2>1, FieldTyped DEF At
  <2>5. v \in Requests
    BY <1>5, <2>4, FieldTyped
  <2>6. b \in BOOLEAN
    OBVIOUS
  <2>7. v1 \in Requests
    <3> HIDE DEF b, v
    <3> QED
      BY <2>5, <2>6, FieldTyped
  <2>8. [v1 EXCEPT !.fence = <<gen[n], reqs[n]>>] \in Requests
    BY <2>3, <2>7, FieldTyped
  <2>9. new \in Requests
    BY <2>8
  <2>10. /\ new.pc = "fetch" /\ new.at = n /\ new.rev = task[t].rev
         /\ new.fence = <<gen[n], reqs[n]>>
    BY <1>4, <2>4 DEF At, Requests
  <2> HIDE DEF new
  <2>11. new.fence[1] <= gen[n] /\ new.fence[2] <= reqs[n]
    BY <2>2, <2>10, SMTT(30)
  <2>12. FetchSound(new)
    BY <2>1, <2>10, <2>11 DEF FetchSound
  <2>13. RequestSound(new)
    BY <1>4, <2>10, <2>12 DEF RequestSound
  <2> QED
    BY <1>1, <1>3, <1>10, <2>9, <2>13, StepSound
<1>11. RequestsOK'
  BY <1>6, <1>7, <1>8, <1>9, <1>10
<1> QED
  BY <1>11, OnlyRequests DEF LoadStyleJson

\* A flight ends: its leader goes on as told, its followers look again or are
\* refused.
LEMMA EndFlightSound ==
  ASSUME BaseOK, CatalogOK, RequestsOK, Still, NEW t \in Tasks, NEW mine \in Requests,
         RequestSound(mine), NEW shared \in BOOLEAN, EndFlight(t, mine, shared)
  PROVE  RequestsOK'
<1>1. Tasks' = Tasks /\ Requests' = Requests
  BY ScenarioFixed DEF Still
<1>2. ASSUME NEW u \in Tasks
      PROVE  task'[u] \in Requests /\ RequestSound(task[u])'
  <2>1. PICK x : x = task'[u]
    OBVIOUS
  <2>2. x \in Requests /\ RequestSound(x)
    <3>1. CASE u = t
      <4>1. x = mine
        BY <2>1, <3>1 DEF EndFlight
      <4> QED
        BY <4>1
    <3>2. CASE u # t /\ task[u].pc = "wait" /\ SameFlight(t, u)
      <4>1. x = IF shared THEN Refused ELSE At(u, "load")
        BY <2>1, <3>2 DEF EndFlight
      <4>2. Refused \in Requests /\ RequestSound(Refused)
        BY RefusedSound
      <4>3. task[u].pc # "idle" /\ "load" \in {"lookup", "follow", "load", "wait"}
        BY <3>2, SMTT(30)
      <4>4. At(u, "load") \in Requests /\ RequestSound(At(u, "load"))
        BY <4>3, AtSound
      <4> QED
        BY <4>1, <4>2, <4>4
    <3>3. CASE u # t /\ ~(task[u].pc = "wait" /\ SameFlight(t, u))
      <4>1. x = task[u]
        BY <2>1, <3>3 DEF EndFlight
      <4> QED
        BY <4>1 DEF RequestsOK
    <3> QED
      BY <3>1, <3>2, <3>3
  <2>3. RequestSound(x)'
    BY <2>2, RequestStill
  <2> QED
    BY <2>1, <2>2, <2>3
<1>3. task' \in [Tasks -> Requests]
  <2>1. task' = [u \in Tasks |-> task'[u]]
    BY DEF EndFlight
  <2> QED
    BY <1>2, <2>1
<1> QED
  BY <1>1, <1>2, <1>3 DEF RequestsOK

\* The provider reads the current content, which no hint the node has applied
\* is ahead of.
LEMMA ProviderReadsKeeps ==
  ASSUME Inv, NEW t \in Tasks, ProviderReads(t)
  PROVE  Inv'
<1>1. BaseOK /\ CatalogOK /\ RequestsOK
  BY DEF Inv
<1>2. task[t].pc # "idle" /\ task[t].pc \in {"fetch", "fetched"}
  BY SMTT(30) DEF ProviderReads
<1>3. Still
  BY StillFrom DEF ProviderReads
<1>4. /\ task[t] \in Requests /\ task[t].at \in Nodes /\ task[t].rev <= content
      /\ RequestSound(task[t])
  BY <1>1, <1>2, RequestFacts
<1>5. ASSUME Step(t, [At(t, "fetched") EXCEPT !.got = content]) PROVE RequestsOK'
  <2> DEFINE new == [At(t, "fetched") EXCEPT !.got = content]
  <2>1. "fetched" \in Phases /\ content \in Revs
    BY <1>1, ScenarioFacts, SMTT(30) DEF Phases, BaseOK
  <2>2. At(t, "fetched") \in Requests
    BY <1>4, <2>1, FieldTyped DEF At
  <2>3. new \in Requests
    BY <2>1, <2>2, FieldTyped
  <2>4. /\ new.pc = "fetched" /\ new.at = task[t].at /\ new.rev = task[t].rev
        /\ new.fence = task[t].fence /\ new.got = content
    BY <1>4, <2>2 DEF At, Requests
  <2> HIDE DEF new
  <2>5. new.fence[1] <= gen[new.at] /\ new.fence[2] <= reqs[new.at]
    BY <1>2, <1>4, <2>4 DEF RequestSound, FetchSound
  <2>6. \A h \in admitted[new.at] : h <= new.got
    BY <1>1, <1>4, <2>4 DEF CatalogOK, NodeBehind
  <2>7. 1 <= new.got /\ new.rev <= new.got /\ new.got <= content
    BY <1>1, <1>4, <2>4, SMTT(30) DEF BaseOK
  <2>8. FetchSound(new)
    BY <2>5, <2>6, <2>7 DEF FetchSound
  <2>9. RequestSound(new)
    BY <1>4, <2>4, <2>8 DEF RequestSound
  <2> QED
    BY <1>1, <1>3, <1>5, <2>3, <2>9, StepSound DEF new
<1>6. ASSUME EndFlight(t, Refused, TRUE) PROVE RequestsOK'
  BY <1>1, <1>3, <1>6, RefusedSound, EndFlightSound
<1>7. RequestsOK'
  BY <1>5, <1>6 DEF ProviderReads
<1> QED
  BY <1>7, OnlyRequests DEF ProviderReads

\* A step that leaves the catalogs and the gossip alone.
LEMMA AroundCaches ==
  ASSUME Inv, UNCHANGED <<sc, content, catalog, gossip>>, CachesOK', RequestsOK',
         budget' \in [foreign : Nat, fail : Nat, lost : Nat]
  PROVE  Inv'
<1>1. Onward
  BY SMTT(30) DEF Inv, BaseOK, Onward
<1>2. BaseOK'
  BY DEF Inv, BaseOK
<1>3. CatalogOK'
  BY <1>1, CatalogKept DEF Inv, catalog, gossip
<1>4. GossipOK'
  BY <1>1, GossipKept DEF Inv, gossip
<1> QED
  BY <1>2, <1>3, <1>4 DEF Inv

\* A fault is taken from the budget.
LEMMA BudgetTyped ==
  ASSUME NEW b \in [foreign : Nat, fail : Nat, lost : Nat]
  PROVE  /\ b.fail > 0 => [b EXCEPT !.fail = @ - 1] \in [foreign : Nat, fail : Nat, lost : Nat]
         /\ b.lost > 0 => [b EXCEPT !.lost = @ - 1] \in [foreign : Nat, fail : Nat, lost : Nat]
         /\ b.foreign > 0 =>
              [b EXCEPT !.foreign = @ - 1] \in [foreign : Nat, fail : Nat, lost : Nat]
<1>1. b.fail > 0 => [b EXCEPT !.fail = @ - 1] \in [foreign : Nat, fail : Nat, lost : Nat]
  BY SMTT(30)
<1>2. b.lost > 0 => [b EXCEPT !.lost = @ - 1] \in [foreign : Nat, fail : Nat, lost : Nat]
  BY SMTT(30)
<1>3. b.foreign > 0 => [b EXCEPT !.foreign = @ - 1] \in [foreign : Nat, fail : Nat, lost : Nat]
  BY SMTT(30)
<1> QED
  BY <1>1, <1>2, <1>3

\* Errors come and go without touching bytes.
LEMMA ErrorsChange ==
  ASSUME CachesOK, sc' = sc, UNCHANGED <<json, out>>, err' \in [Nodes -> SUBSET Keys]
  PROVE  CachesOK'
<1>1. Nodes' = Nodes /\ Keys' = Keys /\ Revs' = Revs
  BY ScenarioFixed
<1> QED
  BY <1>1 DEF CachesOK, NeverOlderThanLabel

\* A failed fetch leaves at most a negative entry, and the catalog as it was.
LEMMA FetchFailsKeeps ==
  ASSUME Inv, NEW t \in Tasks, FetchFails(t)
  PROVE  Inv'
<1>1. BaseOK /\ CatalogOK /\ CachesOK /\ RequestsOK
  BY DEF Inv
<1>2. task[t].pc # "idle"
  BY SMTT(30) DEF FetchFails, Leads
<1>3. task[t].at \in Nodes /\ Key(t) \in Keys
  BY <1>1, <1>2, RequestFacts
<1>4. Still
  BY StillFrom DEF FetchFails
<1>5. RequestsOK'
  <2>1. EndFlight(t, Refused, TRUE) \/ EndFlight(t, Refused, FALSE)
    BY DEF FetchFails
  <2> QED
    BY <1>1, <1>4, <2>1, RefusedSound, EndFlightSound
<1>6. err' = [err EXCEPT ![task[t].at] = @ \cup {Key(t)}] \/ err' = err
  BY DEF FetchFails
<1>7. err' \in [Nodes -> SUBSET Keys]
  <2>1. err \in [Nodes -> SUBSET Keys]
    BY <1>1 DEF CachesOK
  <2> QED
    BY <1>3, <1>6, <2>1, ZenonT(30)
<1>8. CachesOK'
  BY <1>1, <1>7, ErrorsChange DEF FetchFails
<1>9. budget' \in [foreign : Nat, fail : Nat, lost : Nat]
  BY <1>1, BudgetTyped DEF FetchFails, BaseOK
<1> QED
  BY <1>5, <1>8, <1>9, AroundCaches DEF FetchFails

\* A follower at its deadline only gives up its own request.
LEMMA FollowerTimesOutKeeps ==
  ASSUME Inv, NEW t \in Tasks, FollowerTimesOut(t)
  PROVE  Inv'
<1>1. BaseOK /\ CatalogOK /\ CachesOK /\ RequestsOK
  BY DEF Inv
<1>2. Still
  BY StillFrom DEF FollowerTimesOut
<1>3. RequestsOK'
  BY <1>1, <1>2, RefusedSound, StepSound DEF FollowerTimesOut
<1>4. CachesOK'
  BY <1>1, CachesKept DEF FollowerTimesOut, caches
<1>5. budget' \in [foreign : Nat, fail : Nat, lost : Nat]
  BY <1>1, BudgetTyped DEF FollowerTimesOut, BaseOK
<1> QED
  BY <1>3, <1>4, <1>5, AroundCaches DEF FollowerTimesOut

\* Bytes that are dropped leave the others as they were.
LEMMA BytesDropped ==
  ASSUME CachesOK, BaseOK, sc' = sc, NEW n \in Nodes, NEW k \in Keys,
         json' = [json EXCEPT ![n][k] = 0], UNCHANGED out, err' \in [Nodes -> SUBSET Keys]
  PROVE  CachesOK'
<1>1. Nodes' = Nodes /\ Keys' = Keys /\ Revs' = Revs
  BY ScenarioFixed
<1>2. 0 \in Revs
  BY ScenarioFacts DEF BaseOK
<1>3. json \in [Nodes -> [Keys -> Revs]]
  BY DEF CachesOK
<1>4. json' \in [Nodes -> [Keys -> Revs]]
  BY <1>2, <1>3
<1>5. ASSUME NEW m \in Nodes, NEW j \in Keys, json'[m][j] # 0
      PROVE  json'[m][j] >= j[1]
  <2>1. json'[m][j] = json[m][j]
    <3>1. CASE m = n
      <4>1. json'[m] = [json[n] EXCEPT ![k] = 0]
        BY <1>3, <3>1
      <4>2. json'[m][j] = IF j = k THEN 0 ELSE json[n][j]
        BY <1>3, <4>1
      <4> QED
        BY <1>5, <3>1, <4>2
    <3>2. CASE m # n
      BY <1>3, <3>2
    <3> QED
      BY <3>1, <3>2
  <2> QED
    BY <1>5, <2>1 DEF CachesOK, NeverOlderThanLabel
<1> QED
  BY <1>1, <1>4, <1>5 DEF CachesOK, NeverOlderThanLabel

\* A style the native library refuses is dropped from the style cache.
LEMMA NativeRefusesKeeps ==
  ASSUME Inv, NEW t \in Tasks, NativeRefuses(t)
  PROVE  Inv'
<1>1. BaseOK /\ CatalogOK /\ CachesOK /\ RequestsOK
  BY DEF Inv
<1>2. task[t].pc # "idle"
  BY SMTT(30) DEF NativeRefuses
<1>3. task[t].at \in Nodes /\ Key(t) \in Keys
  BY <1>1, <1>2, RequestFacts
<1>4. Still
  BY StillFrom DEF NativeRefuses
<1>5. RequestsOK'
  BY <1>1, <1>4, RefusedSound, StepSound DEF NativeRefuses
<1>6. err' \in [Nodes -> SUBSET Keys]
  <2>1. err \in [Nodes -> SUBSET Keys]
    BY <1>1 DEF CachesOK
  <2> QED
    BY <1>3, <2>1 DEF NativeRefuses
<1>7. CachesOK'
  BY <1>1, <1>3, <1>6, BytesDropped DEF NativeRefuses
<1>8. budget' \in [foreign : Nat, fail : Nat, lost : Nat]
  BY <1>1, BudgetTyped DEF NativeRefuses, BaseOK
<1> QED
  BY <1>5, <1>7, <1>8, AroundCaches DEF NativeRefuses

\* Images come and go without touching style bytes.
LEMMA ImagesChange ==
  ASSUME CachesOK, sc' = sc, UNCHANGED <<json, err>>, out' \in [Nodes -> [Keys -> Revs]]
  PROVE  CachesOK'
<1>1. Nodes' = Nodes /\ Keys' = Keys /\ Revs' = Revs
  BY ScenarioFixed
<1> QED
  BY <1>1 DEF CachesOK, NeverOlderThanLabel

\* A render inserts images only.
LEMMA RenderKeeps ==
  ASSUME Inv, NEW t \in Tasks, Render(t)
  PROVE  Inv'
<1>1. BaseOK /\ CatalogOK /\ CachesOK /\ RequestsOK
  BY DEF Inv
<1>2. task[t].bytes \in Revs /\ Key(t) \in Keys
  BY <1>1, RequestFacts
<1>3. Still
  BY StillFrom DEF Render
<1>4. RequestsOK'
  BY <1>1, <1>2, <1>3, AnsweredSound, StepSound DEF Render
<1>5. out' \in [Nodes -> [Keys -> Revs]]
  <2>1. \A n \in Nodes : out[n] \in [Keys -> Revs]
    BY <1>1 DEF CachesOK
  <2>2. \A n \in Nodes : [out[n] EXCEPT ![Key(t)] = task[t].bytes] \in [Keys -> Revs]
    BY <1>2, <2>1
  <2> QED
    BY <2>1, <2>2 DEF Render
<1>6. CachesOK'
  BY <1>1, <1>5, ImagesChange DEF Render
<1>7. budget' \in [foreign : Nat, fail : Nat, lost : Nat]
  BY <1>1 DEF Render, BaseOK
<1> QED
  BY <1>4, <1>6, <1>7, AroundCaches DEF Render

-----------------------------------------------------------------------------
(* Time and the provider.                                                  *)

\* A step of the caches alone.
LEMMA OnlyCaches ==
  ASSUME Inv, UNCHANGED <<sc, content, catalog, gossip, task, budget>>, CachesOK'
  PROVE  Inv'
<1>1. Onward
  BY SMTT(30) DEF Inv, BaseOK, Onward
<1>2. Still
  BY StillFrom
<1>3. reqs' \in [Nodes -> Nat]
  BY <1>2 DEF Still, Inv, CatalogOK
<1>4. ASSUME NEW n \in Nodes
      PROVE  reqs[n] <= reqs'[n]
  <2>1. reqs[n] \in Nat /\ reqs'[n] = reqs[n]
    BY <1>2 DEF Still, Inv, CatalogOK
  <2> QED
    BY <2>1, SMTT(30)
<1>5. RequestsOK'
  BY <1>1, <1>2, <1>3, <1>4, RequestsKept DEF Still, Inv
<1>6. budget' \in [foreign : Nat, fail : Nat, lost : Nat]
  BY DEF Inv, BaseOK
<1> QED
  BY <1>5, <1>6, AroundCaches

\* An entry that expires in one of the three caches takes no label with it.
LEMMA ExpiriesKeep ==
  ASSUME Inv, NEW n \in Nodes, NEW k \in Keys,
         OutputExpires(n, k) \/ ErrorExpires(n, k) \/ JsonExpires(n, k)
  PROVE  Inv'
<1>1. BaseOK /\ CachesOK
  BY DEF Inv
<1>2. 0 \in Revs
  BY <1>1, ScenarioFacts DEF BaseOK
<1>3. CASE OutputExpires(n, k)
  <2>1. out \in [Nodes -> [Keys -> Revs]]
    BY <1>1 DEF CachesOK
  <2>2. out' \in [Nodes -> [Keys -> Revs]]
    BY <1>2, <1>3, <2>1 DEF OutputExpires
  <2>3. CachesOK'
    BY <1>1, <1>3, <2>2, ImagesChange DEF OutputExpires
  <2> QED
    BY <1>3, <2>3, OnlyCaches DEF OutputExpires
<1>4. CASE ErrorExpires(n, k)
  <2>1. err \in [Nodes -> SUBSET Keys]
    BY <1>1 DEF CachesOK
  <2>2. err' \in [Nodes -> SUBSET Keys]
    BY <1>4, <2>1 DEF ErrorExpires
  <2>3. CachesOK'
    BY <1>1, <1>4, <2>2, ErrorsChange DEF ErrorExpires
  <2> QED
    BY <1>4, <2>3, OnlyCaches DEF ErrorExpires
<1>5. CASE JsonExpires(n, k)
  <2>1. err' \in [Nodes -> SUBSET Keys]
    BY <1>1, <1>5 DEF CachesOK, JsonExpires
  <2>2. CachesOK'
    BY <1>1, <1>5, <2>1, BytesDropped DEF JsonExpires
  <2> QED
    BY <1>5, <2>2, OnlyCaches DEF JsonExpires
<1> QED
  BY <1>3, <1>4, <1>5

\* The provider moves on; nobody gets ahead of it by that.
LEMMA MutateKeeps ==
  ASSUME Inv, Mutate
  PROVE  Inv'
<1>1. BaseOK /\ CatalogOK /\ GossipOK /\ CachesOK /\ RequestsOK
  BY DEF Inv
<1>2. sc.last \in Nat
  BY <1>1, ScenarioFacts DEF BaseOK
<1>3. Onward
  BY <1>1, SMTT(30) DEF Mutate, BaseOK, Onward
<1>4. BaseOK'
  <2>1. content' \in Nat /\ 1 <= content' /\ content' <= sc.last
    BY <1>1, <1>2, SMTT(30) DEF Mutate, BaseOK
  <2> QED
    BY <1>1, <2>1 DEF Mutate, BaseOK
<1>5. CatalogOK'
  BY <1>1, <1>3, CatalogKept DEF Mutate, catalog, gossip
<1>6. GossipOK'
  BY <1>1, <1>3, GossipKept DEF Mutate, gossip
<1>7. CachesOK'
  BY <1>1, CachesKept DEF Mutate, caches
<1>8. reqs' \in [Nodes -> Nat]
  BY <1>1 DEF CatalogOK, Mutate, catalog
<1>9. ASSUME NEW n \in Nodes
      PROVE  reqs[n] <= reqs'[n]
  <2>1. reqs[n] \in Nat /\ reqs'[n] = reqs[n]
    BY <1>1 DEF CatalogOK, Mutate, catalog
  <2> QED
    BY <2>1, SMTT(30)
<1>10. RequestsOK'
  BY <1>1, <1>3, <1>8, <1>9, RequestsKept DEF Mutate, catalog, gossip
<1> QED
  BY <1>4, <1>5, <1>6, <1>7, <1>10 DEF Inv

\* A step of one node's observed entry that keeps its revision and, once
\* observed, does not forget a pending revalidation.
LEMMA ObservedChanges ==
  ASSUME Inv, NEW n \in Nodes, NEW o \in Observed, obs' = [obs EXCEPT ![n] = o],
         o.ver = obs[n].ver, o.pend = obs[n].pend,
         o.ver = 0 => o.due /\ o.floor,
         UNCHANGED <<sc, content, clus, pending, gen, reqs, gossip, caches, task, budget>>
  PROVE  Inv'
<1>1. BaseOK /\ CatalogOK /\ GossipOK /\ CachesOK /\ RequestsOK
  BY DEF Inv
<1>2. Onward
  BY <1>1, SMTT(30) DEF BaseOK, Onward
<1>3. BaseOK'
  BY <1>1 DEF BaseOK
<1>4. CatalogOK'
  <2>1. Nodes' = Nodes /\ Hints' = Hints /\ Revs' = Revs /\ Observed' = Observed
    BY ScenarioFixed
  <2>2. obs' \in [Nodes -> Observed]
    BY <1>1 DEF CatalogOK
  <2>3. ASSUME NEW m \in Nodes
        PROVE  NodeBehind(m)' /\ Remembers(m)'
    <3>1. NodeBehind(m) /\ Remembers(m)
      BY <1>1 DEF CatalogOK
    <3>2. obs'[m] = IF m = n THEN o ELSE obs[m]
      BY <1>1 DEF CatalogOK
    <3>3. obs'[m].ver = obs[m].ver /\ obs'[m].pend = obs[m].pend
      BY <3>2
    <3>4. obs'[m].ver = 0 => obs'[m].due /\ obs'[m].floor
      BY <3>1, <3>2 DEF Remembers
    <3>5. NodeBehind(m)'
      BY <3>1, <3>3 DEF NodeBehind, gossip
    <3>6. Remembers(m)'
      BY <3>1, <3>3, <3>4 DEF Remembers, gossip
    <3> QED
      BY <3>5, <3>6
  <2> QED
    BY <1>1, <2>1, <2>2, <2>3 DEF CatalogOK, gossip
<1>5. GossipOK'
  BY <1>1, <1>2, GossipKept DEF gossip
<1>6. CachesOK'
  BY <1>1, CachesKept DEF caches
<1>7. reqs' \in [Nodes -> Nat]
  BY <1>1 DEF CatalogOK
<1>8. ASSUME NEW m \in Nodes
      PROVE  reqs[m] <= reqs'[m]
  <2>1. reqs[m] \in Nat /\ reqs'[m] = reqs[m]
    BY <1>1 DEF CatalogOK
  <2> QED
    BY <2>1, SMTT(30)
<1>9. RequestsOK'
  BY <1>1, <1>2, <1>7, <1>8, RequestsKept DEF gossip
<1> QED
  BY <1>3, <1>4, <1>5, <1>6, <1>9 DEF Inv

\* An observed entry stays well formed when a mark of it is set or cleared.
LEMMA MarksTyped ==
  ASSUME NEW o \in Observed, NEW b \in BOOLEAN
  PROVE  /\ [o EXCEPT !.floor = b] \in Observed
         /\ [o EXCEPT !.due = b] \in Observed
         /\ [o EXCEPT !.pend = b] \in Observed
<1>1. [o EXCEPT !.floor = b] \in Observed
  BY SMTT(30) DEF Observed
<1>2. [o EXCEPT !.due = b] \in Observed
  BY SMTT(30) DEF Observed
<1>3. [o EXCEPT !.pend = b] \in Observed
  BY SMTT(30) DEF Observed
<1> QED
  BY <1>1, <1>2, <1>3

\* When the floor passes, a pending hint makes the check due; the hint itself stays.
LEMMA FloorPassesKeeps ==
  ASSUME Inv, NEW n \in Nodes, FloorPasses(n)
  PROVE  Inv'
<1>1. obs[n] \in Observed /\ Remembers(n) /\ obs \in [Nodes -> Observed]
  BY DEF Inv, CatalogOK
<1> DEFINE o == [obs[n] EXCEPT !.floor = TRUE, !.due = obs[n].pend]
<1>2. obs[n].pend \in BOOLEAN
  BY <1>1, SMTT(30) DEF Observed
<1>3. o \in Observed
  <2> DEFINE v == [obs[n] EXCEPT !.floor = TRUE]
  <2>1. v \in Observed
    BY <1>1, MarksTyped
  <2>2. [v EXCEPT !.due = obs[n].pend] \in Observed
    BY <1>2, <2>1, MarksTyped
  <2> QED
    BY <2>2
<1>4. o.ver = obs[n].ver /\ o.pend = obs[n].pend
  BY <1>1 DEF Observed
<1>5. obs[n].ver # 0
  BY <1>1 DEF FloorPasses, Remembers
<1>6. obs' = [obs EXCEPT ![n] = o]
  BY <1>1 DEF FloorPasses
<1> HIDE DEF o
<1> QED
  BY <1>3, <1>4, <1>5, <1>6, ObservedChanges DEF FloorPasses

\* When freshness ends the check is due.
LEMMA FreshnessEndsKeeps ==
  ASSUME Inv, NEW n \in Nodes, FreshnessEnds(n)
  PROVE  Inv'
<1>1. obs[n] \in Observed /\ Remembers(n) /\ obs \in [Nodes -> Observed]
  BY DEF Inv, CatalogOK
<1> DEFINE o == [obs[n] EXCEPT !.due = TRUE]
<1>2. o \in Observed
  BY <1>1, MarksTyped
<1>3. o.ver = obs[n].ver /\ o.pend = obs[n].pend /\ o.due = TRUE /\ o.floor = obs[n].floor
  BY <1>1 DEF Observed
<1>4. obs' = [obs EXCEPT ![n] = o]
  BY <1>1 DEF FreshnessEnds
<1> HIDE DEF o
<1>5. o.ver = 0 => o.due /\ o.floor
  BY <1>3 DEF FreshnessEnds
<1> QED
  BY <1>2, <1>3, <1>4, <1>5, ObservedChanges DEF FreshnessEnds

-----------------------------------------------------------------------------
(* Gossip.                                                                 *)

\* A ring takes a record of a content that exists.
LEMMA RingWritten ==
  ASSUME NEW rings, RingOK(rings), NEW n \in Nodes, NEW s \in Slots,
         NEW r \in Records, r[1] <= content, r[2] <= content
  PROVE  RingOK([rings EXCEPT ![n][s] = r])
<1> DEFINE new == [rings EXCEPT ![n][s] = r]
<1>1. rings \in [Nodes -> [Slots -> Records]]
  BY DEF RingOK
<1>2. new \in [Nodes -> [Slots -> Records]]
  BY <1>1
<1>3. ASSUME NEW p \in Nodes, NEW q \in Slots
      PROVE  new[p][q] = r \/ new[p][q] = rings[p][q]
  <2>1. CASE p = n
    <3>1. new[p] = [rings[n] EXCEPT ![s] = r]
      BY <1>1, <2>1
    <3>2. new[p][q] = IF q = s THEN r ELSE rings[n][q]
      BY <1>1, <3>1
    <3> QED
      BY <2>1, <3>2
  <2>2. CASE p # n
    BY <1>1, <2>2
  <2> QED
    BY <2>1, <2>2
<1> HIDE DEF new
<1>4. \A p \in Nodes, q \in Slots : new[p][q][1] <= content /\ new[p][q][2] <= content
  BY <1>3 DEF RingOK
<1>5. RingOK(new)
  BY <1>2, <1>4 DEF RingOK
<1> QED
  BY <1>5 DEF new

\* Writing a ring leaves the snapshots of it alone.
LEMMA RingWriteKeeps ==
  ASSUME GossipOK, BaseOK, UNCHANGED <<sc, content, seen, inbox>>, RingOK(ring)',
         RingOK(ann)' \/ UNCHANGED ann
  PROVE  GossipOK'
<1>1. Nodes' = Nodes /\ Slots' = Slots /\ Records' = Records
  BY ScenarioFixed
<1>2. Onward
  BY SMTT(30) DEF BaseOK, Onward
<1>3. RingOK(ann)'
  BY <1>2, RingKept DEF GossipOK, RingOK
<1>4. ASSUME NEW n \in Nodes
      PROVE  RingOK(seen[n].hints)' /\ RingOK(seen[n].revs)'
  BY <1>2, RingKept DEF GossipOK, RingOK
<1>5. \A n \in Nodes' : \A item \in inbox'[n] : Record(seen'[n], item) # NoRecord
  BY <1>1 DEF GossipOK
<1> QED
  BY <1>1, <1>3, <1>4, <1>5 DEF GossipOK, Record, NoRecord

\* Other hints are being published; they name contents that exist.
LEMMA PublishingChanges ==
  ASSUME CatalogOK, UNCHANGED <<sc, content, obs, clus, pending, gen, reqs, admitted>>,
         publishing' \in [Nodes -> SUBSET Hints],
         \A n \in Nodes : \A g \in publishing'[n] : g <= content
  PROVE  CatalogOK'
<1>1. Nodes' = Nodes /\ Hints' = Hints /\ Revs' = Revs /\ Observed' = Observed
  BY ScenarioFixed
<1>2. ASSUME NEW n \in Nodes
      PROVE  NodeBehind(n)' /\ Remembers(n)'
  <2>1. NodeBehind(n) /\ Remembers(n)
    BY DEF CatalogOK
  <2>2. NodeBehind(n)'
    BY <2>1 DEF NodeBehind
  <2>3. Remembers(n)'
    BY <2>1 DEF Remembers
  <2> QED
    BY <2>2, <2>3
<1> QED
  BY <1>1, <1>2 DEF CatalogOK

\* Hints leave the handlers that publish them.
LEMMA PublishingShrinks ==
  ASSUME CatalogOK, NEW n \in Nodes, NEW h,
         publishing' = [publishing EXCEPT ![n] = @ \ {h}]
  PROVE  /\ publishing' \in [Nodes -> SUBSET Hints]
         /\ \A m \in Nodes : \A g \in publishing'[m] : g <= content
<1>1. publishing \in [Nodes -> SUBSET Hints]
  BY DEF CatalogOK
<1>2. publishing' \in [Nodes -> SUBSET Hints]
  BY <1>1
<1>3. \A m \in Nodes : publishing'[m] \subseteq publishing[m]
  BY <1>1
<1> QED
  BY <1>2, <1>3 DEF CatalogOK, NodeBehind

\* A step of the gossip alone: the requests and the caches stand still.
LEMMA AroundGossip ==
  ASSUME Inv, UNCHANGED <<sc, content, catalog, admitted, caches, task>>,
         CatalogOK', GossipOK', budget' \in [foreign : Nat, fail : Nat, lost : Nat]
  PROVE  Inv'
<1>1. Onward
  BY SMTT(30) DEF Inv, BaseOK, Onward
<1>2. BaseOK'
  BY DEF Inv, BaseOK
<1>3. CachesOK'
  BY CachesKept DEF Inv, caches
<1>4. reqs' \in [Nodes -> Nat]
  BY DEF Inv, CatalogOK, catalog
<1>5. ASSUME NEW n \in Nodes
      PROVE  reqs[n] <= reqs'[n]
  <2>1. reqs[n] \in Nat /\ reqs'[n] = reqs[n]
    BY DEF Inv, CatalogOK, catalog
  <2> QED
    BY <2>1, SMTT(30)
<1>6. RequestsOK'
  BY <1>1, <1>4, <1>5, RequestsKept DEF Inv, catalog
<1> QED
  BY <1>2, <1>3, <1>6 DEF Inv

\* A published hint is one that was applied, so its mutation has happened.
LEMMA PublishStyleRefreshKeeps ==
  ASSUME Inv, NEW n \in Nodes, NEW h \in Hints, PublishStyleRefresh(n, h)
  PROVE  Inv'
<1>1. BaseOK /\ CatalogOK /\ GossipOK
  BY DEF Inv
<1>3. /\ publishing' \in [Nodes -> SUBSET Hints]
      /\ \A m \in Nodes : \A g \in publishing'[m] : g <= content
  BY <1>1, PublishingShrinks DEF PublishStyleRefresh
<1>4. CatalogOK'
  BY <1>1, <1>3, PublishingChanges DEF PublishStyleRefresh, catalog
<1>5. h <= content /\ 0 <= content
  <2>1. h <= content
    BY <1>1 DEF PublishStyleRefresh, CatalogOK, NodeBehind
  <2> QED
    BY <1>1, <2>1, SMTT(30) DEF BaseOK
<1>6. sc.slot[h] \in Slots /\ 0 \in Revs
  BY <1>1, ScenarioFacts DEF BaseOK
<1>7. <<h, 0>> \in Records /\ <<h, 0>>[1] = h /\ <<h, 0>>[2] = 0
  BY <1>6 DEF Records
<1> DEFINE r == <<h, 0>>
<1>8. ring' = [ring EXCEPT ![n][sc.slot[h]] = r]
  BY DEF PublishStyleRefresh
<1>9. r \in Records /\ r[1] <= content /\ r[2] <= content
  BY <1>5, <1>7
<1> HIDE DEF r
<1>10. RingOK(ring')
  BY <1>1, <1>6, <1>8, <1>9, RingWritten DEF GossipOK
<1>11. Nodes' = Nodes /\ Slots' = Slots /\ Records' = Records
  BY ScenarioFixed DEF PublishStyleRefresh
<1>12. GossipOK'
  <2>1. RingOK(ring)'
    BY <1>10, <1>11 DEF RingOK, PublishStyleRefresh
  <2> QED
    BY <1>1, <2>1, RingWriteKeeps DEF PublishStyleRefresh, GossipOK
<1>13. budget' \in [foreign : Nat, fail : Nat, lost : Nat]
  BY <1>1 DEF BaseOK, PublishStyleRefresh
<1> QED
  BY <1>4, <1>12, <1>13, AroundGossip DEF PublishStyleRefresh

\* A lost publication leaves the ring as it was.
LEMMA AbandonPublicationKeeps ==
  ASSUME Inv, NEW n \in Nodes, NEW h \in Hints, AbandonPublication(n, h)
  PROVE  Inv'
<1>1. BaseOK /\ CatalogOK /\ GossipOK
  BY DEF Inv
<1>3. /\ publishing' \in [Nodes -> SUBSET Hints]
      /\ \A m \in Nodes : \A g \in publishing'[m] : g <= content
  BY <1>1, PublishingShrinks DEF AbandonPublication
<1>4. CatalogOK'
  BY <1>1, <1>3, PublishingChanges DEF AbandonPublication, catalog
<1>5. Onward
  BY <1>1, SMTT(30) DEF AbandonPublication, BaseOK, Onward
<1>6. GossipOK'
  BY <1>1, <1>5, GossipKept DEF AbandonPublication
<1>7. budget' \in [foreign : Nat, fail : Nat, lost : Nat]
  BY <1>1, BudgetTyped DEF AbandonPublication, BaseOK
<1> QED
  BY <1>4, <1>6, <1>7, AroundGossip DEF AbandonPublication

\* A snapshot is of the rings as they are, and what is new in it is a record.
LEMMA ObservePeersKeeps ==
  ASSUME Inv, NEW n \in Nodes, ObservePeers(n)
  PROVE  Inv'
<1>1. BaseOK /\ CatalogOK /\ GossipOK
  BY DEF Inv
<1>2. Onward
  BY <1>1, SMTT(30) DEF ObservePeers, BaseOK, Onward
<1>3. CatalogOK'
  BY <1>1, <1>2, CatalogKept DEF ObservePeers, catalog
<1>4. Nodes' = Nodes /\ Slots' = Slots /\ Records' = Records
  BY <1>2, ScenarioFixed DEF Onward
<1>5. GossipOK'
  <2>1. RingOK(ring)' /\ RingOK(ann)'
    BY <1>1, <1>2, RingKept DEF GossipOK, RingOK, ObservePeers
  <2>2. ring \in [Nodes -> [Slots -> Records]] /\ ann \in [Nodes -> [Slots -> Records]]
    BY <1>1 DEF GossipOK, RingOK
  <2>3. Rings \in [hints : [Nodes -> [Slots -> Records]], revs : [Nodes -> [Slots -> Records]]]
    BY <2>2 DEF Rings
  <2>4. seen' \in [Nodes -> [hints : [Nodes -> [Slots -> Records]],
                             revs : [Nodes -> [Slots -> Records]]]]
    BY <1>1, <2>3 DEF GossipOK, ObservePeers
  <2>5. ASSUME NEW m \in Nodes
        PROVE  RingOK(seen[m].hints)' /\ RingOK(seen[m].revs)'
    <3>1. PICK x : x = seen'[m]
      OBVIOUS
    <3>2. x = Rings \/ x = seen[m]
      BY <1>1, <3>1 DEF GossipOK, ObservePeers
    <3>3. Rings.hints = ring /\ Rings.revs = ann
      BY DEF Rings
    <3>4. RingOK(x.hints) /\ RingOK(x.revs)
      BY <1>1, <3>2, <3>3 DEF GossipOK
    <3>5. RingOK(x.hints)' /\ RingOK(x.revs)'
      BY <1>1, <1>2, <3>4, RingKept
    <3> QED
      BY <3>1, <3>5
  <2>6. News(n) \in SUBSET ({"hint", "rev"} \X Nodes \X Slots)
    BY DEF News
  <2>7. inbox' \in [Nodes -> SUBSET ({"hint", "rev"} \X Nodes \X Slots)]
    BY <1>1, <2>6 DEF GossipOK, ObservePeers
  <2>8. ASSUME NEW m \in Nodes, NEW item \in inbox'[m]
        PROVE  Record(seen'[m], item) # NoRecord
    <3>1. CASE m = n
      <4>1. seen'[m] = Rings /\ inbox'[m] = News(n)
        BY <1>1, <3>1 DEF GossipOK, ObservePeers
      <4> QED
        BY <4>1 DEF News
    <3>2. CASE m # n
      <4>1. seen'[m] = seen[m] /\ inbox'[m] = inbox[m]
        BY <1>1, <3>2 DEF GossipOK, ObservePeers
      <4> QED
        BY <1>1, <4>1 DEF GossipOK
    <3> QED
      BY <3>1, <3>2
  <2> QED
    BY <1>4, <2>1, <2>4, <2>5, <2>7, <2>8 DEF GossipOK, Record, NoRecord
<1>6. budget' \in [foreign : Nat, fail : Nat, lost : Nat]
  BY <1>1 DEF BaseOK, ObservePeers
<1> QED
  BY <1>3, <1>5, <1>6, AroundGossip DEF ObservePeers

\* A hint for another style only raises the request count.
LEMMA ForeignHintKeeps ==
  ASSUME Inv, NEW n \in Nodes, ForeignHint(n)
  PROVE  Inv'
<1>1. BaseOK /\ CatalogOK /\ GossipOK /\ CachesOK /\ RequestsOK
  BY DEF Inv
<1>2. Onward
  BY <1>1, SMTT(30) DEF ForeignHint, BaseOK, Onward
<1>3. BaseOK'
  BY <1>1, BudgetTyped DEF ForeignHint, BaseOK
<1>4. reqs \in [Nodes -> Nat]
  BY <1>1 DEF CatalogOK
<1>5. reqs' \in [Nodes -> Nat]
  <2>1. reqs[n] + 1 \in Nat
    BY <1>4, SMTT(30)
  <2> QED
    BY <1>4, <2>1 DEF ForeignHint
<1>6. ASSUME NEW m \in Nodes
      PROVE  reqs[m] <= reqs'[m]
  BY <1>4, SMTT(30) DEF ForeignHint
<1>7. CatalogOK'
  <2>1. Nodes' = Nodes /\ Hints' = Hints /\ Revs' = Revs /\ Observed' = Observed
    BY <1>2, ScenarioFixed DEF Onward
  <2>2. ASSUME NEW m \in Nodes
        PROVE  NodeBehind(m)' /\ Remembers(m)'
    <3>1. NodeBehind(m) /\ Remembers(m)
      BY <1>1 DEF CatalogOK
    <3> QED
      BY <3>1 DEF NodeBehind, Remembers, ForeignHint, gossip
  <2> QED
    BY <1>1, <1>5, <2>1, <2>2 DEF CatalogOK, ForeignHint, gossip
<1>8. GossipOK'
  BY <1>1, <1>2, GossipKept DEF ForeignHint, gossip
<1>9. CachesOK'
  BY <1>1, CachesKept DEF ForeignHint, caches
<1>10. RequestsOK'
  BY <1>1, <1>2, <1>5, <1>6, RequestsKept DEF ForeignHint, gossip
<1> QED
  BY <1>3, <1>7, <1>8, <1>9, <1>10 DEF Inv

-----------------------------------------------------------------------------
(* Hints.                                                                  *)

\* The observed entry after a hint: as it was when there is none, and marked
\* otherwise.
LEMMA HintedEntry ==
  ASSUME Inv, NEW n \in Nodes, NEW h, RequestRevalidation(n, h)
  PROVE  /\ obs' \in [Nodes -> Observed]
         /\ \A m \in Nodes : obs'[m].ver = obs[m].ver
         /\ \A m \in Nodes : m # n \/ obs[m].ver = 0 => obs'[m] = obs[m]
         /\ obs[n].ver # 0 => obs'[n].pend
<1>1. obs \in [Nodes -> Observed] /\ obs[n] \in Observed
  BY DEF Inv, CatalogOK
<1> DEFINE b == obs[n].due \/ obs[n].floor
           v == [obs[n] EXCEPT !.pend = TRUE]
           w == [v EXCEPT !.due = b]
           o == IF obs[n].ver = 0 THEN obs[n] ELSE w
<1>2. b \in BOOLEAN
  OBVIOUS
<1>3. v \in Observed
  BY <1>1, MarksTyped
<1>4. w \in Observed
  <2> HIDE DEF b, v
  <2> QED
    BY <1>2, <1>3, MarksTyped
<1>5. w.ver = obs[n].ver /\ w.pend = TRUE
  BY <1>1 DEF Observed
<1>6. o = PulledForward(obs[n])
  BY DEF PulledForward
<1>7. obs' = [obs EXCEPT ![n] = o]
  <2> HIDE DEF o
  <2> QED
    BY <1>1, <1>6 DEF RequestRevalidation
<1> HIDE DEF w
<1>8. o \in Observed /\ o.ver = obs[n].ver
  BY <1>1, <1>4, <1>5
<1>9. (obs[n].ver = 0 => o = obs[n]) /\ (obs[n].ver # 0 => o.pend)
  BY <1>5
<1> HIDE DEF o
<1>10. \A m \in Nodes : obs'[m] = IF m = n THEN o ELSE obs[m]
  BY <1>1, <1>7
<1>11. obs' \in [Nodes -> Observed]
  BY <1>1, <1>7, <1>8
<1> QED
  BY <1>8, <1>9, <1>10, <1>11

\* The counters after a hint: the request count rises, and so does the fence
\* entry of an observed style, where there is one or room for one.
LEMMA HintedCounters ==
  ASSUME Inv, NEW n \in Nodes, NEW h, RequestRevalidation(n, h)
  PROVE  /\ reqs' \in [Nodes -> Nat] /\ gen' \in [Nodes -> Nat]
         /\ \A m \in Nodes : m # n => reqs'[m] = reqs[m] /\ gen'[m] = gen[m]
         /\ reqs'[n] = reqs[n] + 1
         /\ gen'[n] = gen[n] \/ gen'[n] = gen[n] + 1
         /\ gen'[n] # 0 => gen'[n] = gen[n] + 1
         /\ gen'[n] # 0 => obs[n].ver # 0
<1>1. reqs \in [Nodes -> Nat] /\ gen \in [Nodes -> Nat]
  BY DEF Inv, CatalogOK
<1>2. gen[n] \in Nat /\ reqs[n] \in Nat /\ (gen[n] # 0 => obs[n].ver # 0)
  BY <1>1 DEF Inv, CatalogOK, Remembers
<1> DEFINE g == IF obs[n].ver # 0 /\ (gen[n] # 0 \/ sc.room) THEN gen[n] + 1 ELSE gen[n]
<1>3. gen[n] + 1 \in Nat /\ reqs[n] + 1 \in Nat
  BY <1>2, SMTT(30)
<1>4. g \in Nat
  BY <1>2, <1>3
<1>5. gen' = [gen EXCEPT ![n] = g] /\ reqs' = [reqs EXCEPT ![n] = reqs[n] + 1]
  BY <1>1 DEF RequestRevalidation
<1>6. /\ g = gen[n] \/ g = gen[n] + 1
      /\ g # 0 => g = gen[n] + 1 /\ obs[n].ver # 0
  BY <1>2
<1> HIDE DEF g
<1> QED
  BY <1>1, <1>3, <1>4, <1>5, <1>6

\* A new hint marks the observed entry before anyone asks.
LEMMA HintCatalog ==
  ASSUME Inv, NEW n \in Nodes, NEW h \in Hints, h <= content, UNCHANGED <<sc, content>>,
         admitted' = [admitted EXCEPT ![n] = @ \cup {h}], RequestRevalidation(n, h),
         publishing' \in [Nodes -> SUBSET Hints],
         \A m \in Nodes : \A g \in publishing'[m] : g <= content
  PROVE  CatalogOK'
<1>1. CatalogOK
  BY DEF Inv
<1>2. Nodes' = Nodes /\ Hints' = Hints /\ Revs' = Revs /\ Observed' = Observed
  BY ScenarioFixed
<1>3. admitted' \in [Nodes -> SUBSET Hints]
  BY <1>1 DEF CatalogOK
<1>4. pending' \in [Nodes -> {0} \cup Hints]
  BY <1>1 DEF CatalogOK, RequestRevalidation
<1>5. ASSUME NEW m \in Nodes
      PROVE  NodeBehind(m)' /\ Remembers(m)'
  <2>1. NodeBehind(m) /\ Remembers(m)
    BY <1>1 DEF CatalogOK
  <2>2. obs'[m].ver = obs[m].ver /\ clus' = clus
    BY HintedEntry DEF RequestRevalidation
  <2>3. \A g \in admitted'[m] : g \in admitted[m] \/ (g = h /\ m = n)
    BY <1>1 DEF CatalogOK
  <2>9. pending'[m] = h \/ pending'[m] = pending[m]
    BY <1>1 DEF CatalogOK, RequestRevalidation
  <2>4. NodeBehind(m)'
    BY <2>1, <2>2, <2>3, <2>9 DEF NodeBehind
  <2>5. gen'[m] # 0 => obs'[m].ver # 0
    BY <2>1, <2>2, HintedCounters DEF Remembers
  <2>6. obs'[m].ver = 0 => obs'[m].due /\ obs'[m].floor
    BY <2>1, <2>2, HintedEntry DEF Remembers
  <2>7. obs'[m].ver # 0 => \A g \in admitted'[m] : obs'[m].ver < g => obs'[m].pend
    <3>1. CASE m = n
      BY <2>2, <3>1, HintedEntry
    <3>2. CASE m # n
      BY <2>1, <2>2, <2>3, <3>2, HintedEntry DEF Remembers
    <3> QED
      BY <3>1, <3>2
  <2>8. Remembers(m)'
    BY <2>5, <2>6, <2>7 DEF Remembers
  <2> QED
    BY <2>4, <2>8
<1>6. /\ obs' \in [Nodes -> Observed] /\ gen' \in [Nodes -> Nat] /\ reqs' \in [Nodes -> Nat]
      /\ clus' = clus
  BY HintedEntry, HintedCounters DEF RequestRevalidation
<1> QED
  BY <1>1, <1>2, <1>3, <1>4, <1>5, <1>6 DEF CatalogOK

\* A new hint makes the fence of every fetch in flight on its node stale.
LEMMA HintRequest ==
  ASSUME Inv, NEW n \in Nodes, NEW h, UNCHANGED <<sc, content>>,
         admitted' = [admitted EXCEPT ![n] = @ \cup {h}], RequestRevalidation(n, h),
         NEW x \in Requests, RequestSound(x)
  PROVE  RequestSound(x)'
<1>1. Nodes' = Nodes
  BY ScenarioFixed
<1>2. ASSUME x.pc \in {"fetch", "fetched"}
      PROVE  FetchSound(x)'
  <2>1. x.at \in Nodes /\ FetchSound(x)
    <3>1. x.pc # "idle"
      BY <1>2, SMTT(30)
    <3> QED
      BY <1>2, <3>1 DEF RequestSound
  <2>2. x.fence[1] \in Nat /\ x.fence[2] \in Nat
    BY SMTT(30) DEF Requests
  <2>3. CASE x.at = n
    <3>1. gen[n] \in Nat /\ reqs[n] \in Nat /\ x.fence[1] <= gen[n] /\ x.fence[2] <= reqs[n]
      BY <2>1, <2>3 DEF Inv, CatalogOK, FetchSound
    <3>2. /\ reqs'[n] = reqs[n] + 1
          /\ gen'[n] = gen[n] \/ gen'[n] = gen[n] + 1
          /\ gen'[n] # 0 => gen'[n] = gen[n] + 1
      BY HintedCounters
    <3>3. /\ x.fence[1] <= gen'[n] /\ x.fence[2] <= reqs'[n]
          /\ reqs'[n] # x.fence[2] /\ ~(gen'[n] # 0 /\ gen'[n] = x.fence[1])
      BY <2>2, <3>1, <3>2, SMTT(30)
    <3>4. ~FetchIsCurrent(x.at, x.fence)'
      BY <2>3, <3>3 DEF FetchIsCurrent
    <3> QED
      BY <2>1, <2>3, <3>3, <3>4 DEF FetchSound
  <2>4. CASE x.at # n
    <3>1. gen'[x.at] = gen[x.at] /\ reqs'[x.at] = reqs[x.at]
      BY <2>1, <2>4, HintedCounters
    <3>2. admitted'[x.at] = admitted[x.at]
      BY <2>1, <2>4 DEF Inv, CatalogOK
    <3> QED
      BY <2>1, <3>1, <3>2 DEF FetchSound, FetchIsCurrent
  <2> QED
    BY <2>3, <2>4
<1> QED
  BY <1>1, <1>2 DEF RequestSound

\* A request loses the right to insert; nothing else of it changes.
LEMMA LiveSound ==
  ASSUME NEW x \in Requests, NEW S
  PROVE  LET y == [x EXCEPT !.live = @ \ S]
         IN  y \in Requests /\ (RequestSound(x) => RequestSound(y))
<1> DEFINE y == [x EXCEPT !.live = @ \ S]
<1>1. x.live \in SUBSET Nodes
  BY SMTT(30) DEF Requests
<1>2. x.live \ S \in SUBSET Nodes
  BY <1>1
<1>3. y \in Requests
  <2>1. [x EXCEPT !.live = x.live \ S] \in Requests
    BY <1>2, FieldTyped
  <2> QED
    BY <2>1 DEF Requests
<1>4. /\ y.pc = x.pc /\ y.at = x.at /\ y.rev = x.rev /\ y.fence = x.fence /\ y.got = x.got
  BY DEF Requests
<1> HIDE DEF y
<1>5. RequestSound(x) => RequestSound(y)
  BY <1>4 DEF RequestSound, FetchSound
<1> QED
  BY <1>3, <1>5 DEF y

\* All requests lose it, whatever else the step does to the nodes.
LEMMA InvalidateRequests ==
  ASSUME RequestsOK, sc' = sc, NEW n, InvalidateOutputs(n),
         \A x \in Requests : RequestSound(x) => RequestSound(x)'
  PROVE  RequestsOK'
<1>1. Tasks' = Tasks /\ Requests' = Requests
  BY ScenarioFixed
<1>2. ASSUME NEW t \in Tasks
      PROVE  task'[t] \in Requests /\ RequestSound(task[t])'
  <2>1. task[t] \in Requests /\ RequestSound(task[t])
    BY DEF RequestsOK
  <2>2. PICK y : y = [task[t] EXCEPT !.live = @ \ {n}]
    OBVIOUS
  <2>3. task'[t] = y
    BY <2>2 DEF InvalidateOutputs
  <2>4. y \in Requests /\ RequestSound(y)
    BY <2>1, <2>2, LiveSound
  <2>5. RequestSound(y)'
    BY <2>4
  <2> QED
    BY <2>3, <2>4, <2>5
<1>3. task' \in [Tasks -> Requests]
  <2>1. task' = [t \in Tasks |-> task'[t]]
    BY DEF InvalidateOutputs
  <2> QED
    BY <1>2, <2>1
<1> QED
  BY <1>1, <1>2, <1>3 DEF RequestsOK

\* Invalidation empties the rendered outputs of a node and nothing else.
LEMMA InvalidateCaches ==
  ASSUME CachesOK, BaseOK, sc' = sc, NEW n \in Nodes, InvalidateOutputs(n),
         UNCHANGED <<json, err>>
  PROVE  CachesOK'
<1>1. 0 \in Revs
  BY ScenarioFacts DEF BaseOK
<1>2. [k \in Keys |-> 0] \in [Keys -> Revs]
  BY <1>1
<1>3. out' \in [Nodes -> [Keys -> Revs]]
  BY <1>2 DEF CachesOK, InvalidateOutputs
<1> QED
  BY <1>3, ImagesChange

\* A hint is applied, for the first time or once more.
LEMMA ApplyHintSound ==
  ASSUME Inv, NEW n \in Nodes, NEW h \in Hints, h <= content, ApplyHint(n, h),
         UNCHANGED <<sc, content, json, err>>,
         publishing' \in [Nodes -> SUBSET Hints],
         \A m \in Nodes : \A g \in publishing'[m] : g <= content
  PROVE  CatalogOK' /\ CachesOK' /\ RequestsOK'
<1>1. BaseOK /\ CatalogOK /\ CachesOK /\ RequestsOK
  BY DEF Inv
<1>2. CASE h \in admitted[n]
  <2>1. UNCHANGED <<catalog, admitted, out, task>>
    BY <1>2 DEF ApplyHint
  <2>2. CatalogOK'
    BY <1>1, <2>1, PublishingChanges DEF catalog
  <2>3. CachesOK'
    BY <1>1, <2>1, CachesKept
  <2>4. Still
    BY <2>1 DEF Still, catalog
  <2>5. ASSUME NEW t \in Tasks
        PROVE  RequestSound(task[t])'
    <3>1. PICK x : x = task[t]
      OBVIOUS
    <3>2. x \in Requests /\ RequestSound(x)
      BY <1>1, <3>1 DEF RequestsOK
    <3>3. RequestSound(x)'
      BY <1>1, <2>4, <3>2, RequestStill
    <3> QED
      BY <2>1, <3>1, <3>3
  <2>6. Tasks' = Tasks /\ Requests' = Requests
    BY ScenarioFixed
  <2>7. RequestsOK'
    BY <1>1, <2>1, <2>5, <2>6 DEF RequestsOK
  <2> QED
    BY <2>2, <2>3, <2>7
<1>3. CASE h \notin admitted[n]
  <2>1. /\ admitted' = [admitted EXCEPT ![n] = @ \cup {h}]
        /\ RequestRevalidation(n, h) /\ InvalidateOutputs(n)
    BY <1>3 DEF ApplyHint
  <2>2. CatalogOK'
    BY <2>1, HintCatalog
  <2>3. CachesOK'
    BY <1>1, <2>1, InvalidateCaches
  <2>4. \A x \in Requests : RequestSound(x) => RequestSound(x)'
    BY <2>1, HintRequest
  <2>5. RequestsOK'
    BY <1>1, <2>1, <2>4, InvalidateRequests
  <2> QED
    BY <2>2, <2>3, <2>5
<1> QED
  BY <1>2, <1>3

\* A hint received over HTTP is applied and queued for the ring.
LEMMA RefreshStyleKeeps ==
  ASSUME Inv, NEW n \in Nodes, NEW h \in Hints, RefreshStyle(n, h)
  PROVE  Inv'
<1>1. BaseOK /\ CatalogOK /\ GossipOK
  BY DEF Inv
<1>2. publishing \in [Nodes -> SUBSET Hints]
  BY <1>1 DEF CatalogOK
<1>3. publishing' \in [Nodes -> SUBSET Hints]
  BY <1>2 DEF RefreshStyle
<1>4. ASSUME NEW m \in Nodes, NEW g \in publishing'[m]
      PROVE  g <= content
  <2>1. g \in publishing[m] \/ g = h
    BY <1>2 DEF RefreshStyle
  <2> QED
    BY <1>1, <2>1 DEF CatalogOK, NodeBehind, RefreshStyle
<1>5. CatalogOK' /\ CachesOK' /\ RequestsOK'
  BY <1>3, <1>4, ApplyHintSound DEF RefreshStyle
<1>6. Onward
  BY <1>1, SMTT(30) DEF RefreshStyle, BaseOK, Onward
<1>7. GossipOK'
  BY <1>1, <1>6, GossipKept DEF RefreshStyle
<1>8. BaseOK'
  BY <1>1 DEF BaseOK, RefreshStyle
<1> QED
  BY <1>5, <1>7, <1>8 DEF Inv

\* A peer's observation of a content that exists.
LEMMA ApplyObservationSound ==
  ASSUME Inv, NEW n \in Nodes, NEW h, NEW v \in Revs, v <= content,
         ApplyClusterObservation(n, h, v),
         UNCHANGED <<sc, content, json, err, admitted, publishing>>
  PROVE  CatalogOK' /\ CachesOK' /\ RequestsOK'
<1>1. BaseOK /\ CatalogOK /\ CachesOK /\ RequestsOK
  BY DEF Inv
<1>2. UNCHANGED <<obs, gen, reqs>>
  BY DEF ApplyClusterObservation, catalog
<1>3. Still
  BY <1>2 DEF Still
<1>4. \A x \in Requests : RequestSound(x) => RequestSound(x)'
  BY <1>1, <1>3, RequestStill
<1>5. CatalogOK'
  <2>1. Nodes' = Nodes /\ Hints' = Hints /\ Revs' = Revs /\ Observed' = Observed
    BY ScenarioFixed
  <2>2. \/ UNCHANGED <<clus, pending>>
        \/ /\ clus' = [clus EXCEPT ![n] =
                 [ver |-> v, prev |-> IF Latest(n) = v THEN None ELSE Latest(n)]]
           /\ pending' = [pending EXCEPT ![n] = 0]
    BY DEF ApplyClusterObservation, catalog
  <2>3. PICK c : c = [ver |-> v, prev |-> IF Latest(n) = v THEN None ELSE Latest(n)]
    OBVIOUS
  <2>4. c \in [ver : Revs, prev : Revs \cup {None}] /\ c.ver = v
    BY <1>1, <2>3, LatestFacts
  <2>5. clus' = clus \/ clus' = [clus EXCEPT ![n] = c]
    BY <2>2, <2>3
  <2>6. clus' \in [Nodes -> [ver : Revs, prev : Revs \cup {None}]]
    BY <1>1, <2>4, <2>5 DEF CatalogOK
  <2>7. pending' \in [Nodes -> {0} \cup Hints]
    BY <1>1, <2>2 DEF CatalogOK
  <2>8. ASSUME NEW m \in Nodes
        PROVE  NodeBehind(m)' /\ Remembers(m)'
    <3>1. NodeBehind(m) /\ Remembers(m)
      BY <1>1 DEF CatalogOK
    <3>2. clus'[m] = clus[m] \/ clus'[m] = c
      BY <1>1, <2>5 DEF CatalogOK
    <3>5. pending'[m] = pending[m] \/ pending'[m] = 0
      BY <1>1, <2>2 DEF CatalogOK
    <3>6. 0 <= content
      BY <1>1, SMTT(30) DEF BaseOK
    <3>3. NodeBehind(m)'
      BY <1>2, <2>4, <3>1, <3>2, <3>5, <3>6 DEF NodeBehind
    <3>4. Remembers(m)'
      BY <1>2, <3>1 DEF Remembers
    <3> QED
      BY <3>3, <3>4
  <2> QED
    BY <1>1, <1>2, <2>1, <2>6, <2>7, <2>8 DEF CatalogOK
<1>6. CASE InvalidateOutputs(n)
  <2>1. CachesOK'
    BY <1>1, <1>6, InvalidateCaches
  <2>2. RequestsOK'
    BY <1>1, <1>4, <1>6, InvalidateRequests
  <2> QED
    BY <1>5, <2>1, <2>2
<1>7. CASE UNCHANGED <<out, task>>
  <2>1. CachesOK'
    BY <1>1, <1>7, CachesKept
  <2>2. Tasks' = Tasks /\ Requests' = Requests
    BY ScenarioFixed
  <2>3. ASSUME NEW t \in Tasks
        PROVE  RequestSound(task[t])'
    <3>1. PICK x : x = task[t]
      OBVIOUS
    <3>2. x \in Requests /\ RequestSound(x)
      BY <1>1, <3>1 DEF RequestsOK
    <3> QED
      BY <1>4, <1>7, <3>1, <3>2
  <2>4. RequestsOK'
    BY <1>1, <1>7, <2>2, <2>3 DEF RequestsOK
  <2> QED
    BY <1>5, <2>1, <2>4
<1> QED
  BY <1>6, <1>7 DEF ApplyClusterObservation

\* A record of the snapshot is applied like a hint or an observation.
LEMMA ApplyGossipKeeps ==
  ASSUME Inv, NEW n \in Nodes, ApplyGossip(n)
  PROVE  Inv'
<1>1. BaseOK /\ CatalogOK /\ GossipOK
  BY DEF Inv
<1>2. PICK item \in First(n) :
        inbox' = [inbox EXCEPT ![n] = @ \ {item}] /\ ApplyRecord(n, item)
  BY DEF ApplyGossip
<1>3. item \in inbox[n]
  BY DEF First
<1>4. PICK r : r = Record(seen[n], item)
  OBVIOUS
<1>5. /\ r \in Records /\ r # NoRecord /\ r[1] <= content /\ r[2] <= content
  <2>1. item \in {"hint", "rev"} \X Nodes \X Slots
    BY <1>1, <1>3 DEF GossipOK
  <2>2. item[2] \in Nodes /\ item[3] \in Slots
    BY <2>1
  <2>3. RingOK(seen[n].hints) /\ RingOK(seen[n].revs)
    BY <1>1 DEF GossipOK
  <2>4. r \in Records /\ r[1] <= content /\ r[2] <= content
    BY <1>4, <2>2, <2>3 DEF Record, RingOK
  <2> QED
    BY <1>1, <1>3, <1>4, <2>4 DEF GossipOK
<1>6. r[1] \in Hints /\ r[2] \in Revs
  BY <1>1, <1>5, RecordFacts DEF BaseOK
<1>7. /\ publishing' \in [Nodes -> SUBSET Hints]
      /\ \A m \in Nodes : \A g \in publishing'[m] : g <= content
  BY <1>1 DEF CatalogOK, NodeBehind, ApplyGossip
<1>8. CatalogOK' /\ CachesOK' /\ RequestsOK'
  <2>1. CASE ApplyHint(n, r[1])
    BY <1>5, <1>6, <1>7, <2>1, ApplyHintSound DEF ApplyGossip
  <2>2. CASE ApplyClusterObservation(n, r[1], r[2]) /\ UNCHANGED admitted
    BY <1>5, <1>6, <2>2, ApplyObservationSound DEF ApplyGossip
  <2> QED
    BY <1>2, <1>4, <2>1, <2>2 DEF ApplyRecord
<1>9. GossipOK'
  <2>1. Onward
    BY <1>1, SMTT(30) DEF ApplyGossip, BaseOK, Onward
  <2>2. Nodes' = Nodes /\ Slots' = Slots /\ Records' = Records
    BY <2>1, ScenarioFixed DEF Onward
  <2>3. RingOK(ring)' /\ RingOK(ann)'
    BY <1>1, <2>1, RingKept DEF GossipOK, RingOK, ApplyGossip
  <2>4. ASSUME NEW m \in Nodes
        PROVE  RingOK(seen[m].hints)' /\ RingOK(seen[m].revs)'
    BY <1>1, <2>1, RingKept, ZenonT(30) DEF GossipOK, RingOK, ApplyGossip
  <2>5. inbox' \in [Nodes -> SUBSET ({"hint", "rev"} \X Nodes \X Slots)]
    BY <1>1, <1>2 DEF GossipOK
  <2>6. \A m \in Nodes : inbox'[m] \subseteq inbox[m]
    BY <1>1, <1>2 DEF GossipOK
  <2>7. \A m \in Nodes' : \A i \in inbox'[m] : Record(seen'[m], i) # NoRecord
    BY <1>1, <2>2, <2>6 DEF GossipOK, ApplyGossip
  <2>8. seen' \in [Nodes -> [hints : [Nodes -> [Slots -> Records]],
                             revs : [Nodes -> [Slots -> Records]]]]
    BY <1>1 DEF GossipOK, ApplyGossip
  <2> QED
    BY <2>2, <2>3, <2>4, <2>5, <2>7, <2>8 DEF GossipOK, Record, NoRecord
<1>10. BaseOK'
  BY <1>1 DEF BaseOK, ApplyGossip
<1> QED
  BY <1>8, <1>9, <1>10 DEF Inv

-----------------------------------------------------------------------------
(* A fetch completes.                                                      *)

\* What is known of the request and its node then.
LEMMA FetchedFacts ==
  ASSUME Inv, NEW t \in Tasks, FetchCompletes(t)
  PROVE  /\ task[t].pc # "idle" /\ task[t].at \in Nodes
         /\ task[t].got \in Revs /\ task[t].got # 0 /\ task[t].got <= content
         /\ task[t].rev <= task[t].got
         /\ FetchIsCurrent(task[t].at, task[t].fence) =>
              \A h \in admitted[task[t].at] : h <= task[t].got
<1>1. BaseOK /\ RequestsOK
  BY DEF Inv
<1>2. task[t].pc # "idle" /\ task[t].pc \in {"fetch", "fetched"} /\ task[t].pc = "fetched"
  BY SMTT(30) DEF FetchCompletes
<1>3. task[t].at \in Nodes /\ task[t].got \in Revs /\ RequestSound(task[t])
  BY <1>1, <1>2, RequestFacts
<1>4. FetchSound(task[t])
  BY <1>2, <1>3 DEF RequestSound
<1>5. 1 <= task[t].got
  BY <1>2, <1>4 DEF FetchSound
<1>6. task[t].got # 0
  BY <1>5, SMTT(30)
<1> QED
  BY <1>2, <1>3, <1>4, <1>6 DEF FetchSound

\* record_observed_for_generation: the entry it leaves, with what remains of a
\* hint that came during the fetch.
LEMMA RecordedEntry ==
  ASSUME Inv, NEW n \in Nodes, NEW v \in Revs, NEW f, RecordObserved(n, v, f)
  PROVE  /\ obs' \in [Nodes -> Observed]
         /\ \A m \in Nodes : m # n => obs'[m] = obs[m]
         /\ obs'[n].ver = v
         /\ ~FetchIsCurrent(n, f) => obs'[n].pend
<1>1. obs \in [Nodes -> Observed] /\ obs[n] \in Observed
  BY DEF Inv, CatalogOK
<1>2. obs[n].ver \in Revs /\ obs[n].prev \in Revs \cup {None}
  BY <1>1, SMTT(30) DEF Observed
<1> DEFINE p == CASE obs[n].ver = v -> obs[n].prev
                  [] obs[n].ver = 0 -> None
                  [] OTHER -> obs[n].ver
           b == obs[n].ver = 0 \/ (obs[n].ver = v /\ obs[n].boot)
           c == ~FetchIsCurrent(n, f)
           o == [ver |-> v, prev |-> p, boot |-> b, floor |-> FALSE, due |-> FALSE, pend |-> c]
<1>3. p \in Revs \cup {None}
  <2>1. CASE obs[n].ver = v /\ obs[n].ver = 0
    BY <1>2, <2>1
  <2>2. CASE obs[n].ver = v /\ obs[n].ver # 0
    BY <1>2, <2>2
  <2>3. CASE obs[n].ver # v /\ obs[n].ver = 0
    BY <2>3
  <2>4. CASE obs[n].ver # v /\ obs[n].ver # 0
    BY <1>2, <2>4
  <2> QED
    BY <2>1, <2>2, <2>3, <2>4
<1>4. b \in BOOLEAN /\ c \in BOOLEAN
  BY DEF FetchIsCurrent
<1>5. obs' = [obs EXCEPT ![n] = o]
  BY DEF RecordObserved
<1> HIDE DEF p, b, c
<1>6. o \in Observed
  BY <1>3, <1>4 DEF Observed
<1>7. o.ver = v /\ o.pend = c
  OBVIOUS
<1> HIDE DEF o
<1>8. obs' \in [Nodes -> Observed]
  BY <1>1, <1>5, <1>6
<1>9. (\A m \in Nodes : m # n => obs'[m] = obs[m]) /\ obs'[n] = o
  BY <1>1, <1>5
<1> QED
  BY <1>7, <1>8, <1>9 DEF c

\* The catalog still remembers each applied hint the new entry is older than:
\* a fetch that is current has seen them all, any other leaves the entry pending.
LEMMA FetchCompletesCatalog ==
  ASSUME Inv, NEW t \in Tasks, FetchCompletes(t)
  PROVE  CatalogOK'
<1> DEFINE n == task[t].at
           v == task[t].got
           f == task[t].fence
<1>1. BaseOK /\ CatalogOK
  BY DEF Inv
<1>2. /\ n \in Nodes /\ v \in Revs /\ v # 0 /\ v <= content
      /\ FetchIsCurrent(n, f) => \A h \in admitted[n] : h <= v
  BY FetchedFacts
<1>3. RecordObserved(n, v, f) /\ UNCHANGED <<sc, content, admitted, publishing>>
  BY DEF FetchCompletes
<1> HIDE DEF n, v, f
<1>4. Nodes' = Nodes /\ Hints' = Hints /\ Revs' = Revs /\ Observed' = Observed
  BY <1>3, ScenarioFixed
<1>5. /\ obs' \in [Nodes -> Observed] /\ obs'[n].ver = v
      /\ \A m \in Nodes : m # n => obs'[m] = obs[m]
      /\ ~FetchIsCurrent(n, f) => obs'[n].pend
  BY <1>2, <1>3, RecordedEntry
<1>6. /\ gen' = gen /\ reqs' = reqs
      /\ pending' = pending \/ pending' = [pending EXCEPT ![n] = 0]
      /\ \/ clus' = clus
         \/ clus' = [clus EXCEPT ![n] = [ver |-> v, prev |-> None]]
         \/ clus' = [clus EXCEPT ![n] = NoClus]
  BY <1>3 DEF RecordObserved
<1>7. 0 \in Revs /\ 0 <= content /\ content \in Nat /\ v \in Nat
  <2>1. 0 \in Revs /\ Revs \subseteq Nat
    BY <1>1, ScenarioFacts DEF BaseOK
  <2> QED
    BY <1>1, <1>2, <2>1, SMTT(30) DEF BaseOK
<1>8. PICK c, d : c = [ver |-> v, prev |-> None] /\ d = NoClus
  OBVIOUS
<1>9. /\ c \in [ver : Revs, prev : Revs \cup {None}] /\ c.ver = v
      /\ d \in [ver : Revs, prev : Revs \cup {None}] /\ d.ver = 0
  BY <1>2, <1>7, <1>8 DEF NoClus
<1>10. clus' = clus \/ clus' = [clus EXCEPT ![n] = c] \/ clus' = [clus EXCEPT ![n] = d]
  BY <1>6, <1>8
<1>11. clus' \in [Nodes -> [ver : Revs, prev : Revs \cup {None}]]
  BY <1>1, <1>9, <1>10 DEF CatalogOK
<1>12. pending' \in [Nodes -> {0} \cup Hints]
  BY <1>1, <1>6 DEF CatalogOK
<1>13. ASSUME NEW m \in Nodes
       PROVE  NodeBehind(m)' /\ Remembers(m)'
  <2>1. NodeBehind(m) /\ Remembers(m)
    BY <1>1 DEF CatalogOK
  <2>2. clus'[m] = clus[m] \/ clus'[m] = c \/ clus'[m] = d
    BY <1>1, <1>10 DEF CatalogOK
  <2>3. clus'[m].ver <= content
    BY <1>2, <1>7, <1>9, <2>1, <2>2 DEF NodeBehind
  <2>4. pending'[m] = pending[m] \/ pending'[m] = 0
    BY <1>1, <1>6 DEF CatalogOK
  <2>5. pending'[m] <= content
    BY <1>7, <2>1, <2>4 DEF NodeBehind
  <2>6. obs'[m].ver <= content
    BY <1>2, <1>5, <2>1 DEF NodeBehind
  <2>7. NodeBehind(m)'
    BY <1>3, <2>1, <2>3, <2>5, <2>6 DEF NodeBehind
  <2>8. CASE m # n
    BY <1>3, <1>5, <1>6, <2>1, <2>7, <2>8 DEF Remembers
  <2>9. CASE m = n
    <3>1. obs'[m].ver = v /\ v # 0
      BY <1>2, <1>5, <2>9
    <3>2. ASSUME NEW h \in admitted'[m], obs'[m].ver < h
          PROVE  obs'[m].pend
      <4>1. h \in admitted[n] /\ h \in Nat
        BY <1>1, <1>3, <2>9, ScenarioFacts DEF BaseOK, CatalogOK
      <4>2. ~(h <= v)
        BY <1>7, <3>1, <3>2, <4>1, SMTT(30)
      <4>3. ~FetchIsCurrent(n, f)
        BY <1>2, <4>1, <4>2
      <4> QED
        BY <1>5, <2>9, <4>3
    <3>3. Remembers(m)'
      BY <3>1, <3>2 DEF Remembers
    <3> QED
      BY <2>7, <3>3
  <2> QED
    BY <2>8, <2>9
<1> QED
  BY <1>1, <1>3, <1>4, <1>5, <1>6, <1>11, <1>12, <1>13 DEF CatalogOK

\* A revision announced with a hint exists at the provider.
LEMMA FetchCompletesGossip ==
  ASSUME Inv, NEW t \in Tasks, FetchCompletes(t)
  PROVE  GossipOK'
<1> DEFINE n == task[t].at
           v == task[t].got
<1>1. BaseOK /\ CatalogOK /\ GossipOK
  BY DEF Inv
<1>2. n \in Nodes /\ v \in Revs /\ v <= content
  BY FetchedFacts
<1>3. /\ UNCHANGED <<sc, content, ring, seen, inbox>>
      /\ \/ UNCHANGED ann
         \/ pending[n] # 0 /\ ann' = [ann EXCEPT ![n][sc.slot[pending[n]]] = <<pending[n], v>>]
  BY DEF FetchCompletes, RecordObserved
<1> HIDE DEF n, v
<1>4. Onward
  BY <1>1, <1>3, SMTT(30) DEF BaseOK, Onward
<1>5. RingOK(ring)'
  BY <1>1, <1>3, <1>4, RingKept DEF GossipOK, RingOK
<1>6. CASE UNCHANGED ann
  BY <1>1, <1>3, <1>5, <1>6, RingWriteKeeps
<1>7. CASE /\ pending[n] # 0
           /\ ann' = [ann EXCEPT ![n][sc.slot[pending[n]]] = <<pending[n], v>>]
  <2>1. pending[n] \in Hints /\ pending[n] <= content
    BY <1>1, <1>2, <1>7 DEF CatalogOK, NodeBehind
  <2>2. sc.slot[pending[n]] \in Slots
    BY <1>1, <2>1, ScenarioFacts DEF BaseOK
  <2>3. PICK r : r = <<pending[n], v>>
    OBVIOUS
  <2>4. r \in Records /\ r[1] = pending[n] /\ r[2] = v
    BY <1>2, <2>1, <2>3 DEF Records
  <2>5. r[1] <= content /\ r[2] <= content
    BY <1>2, <2>1, <2>4
  <2>6. ann' = [ann EXCEPT ![n][sc.slot[pending[n]]] = r]
    BY <1>7, <2>3
  <2>7. RingOK(ann')
    BY <1>1, <1>2, <2>2, <2>4, <2>5, <2>6, RingWritten DEF GossipOK
  <2>8. Nodes' = Nodes /\ Slots' = Slots /\ Records' = Records
    BY <1>3, ScenarioFixed
  <2>9. RingOK(ann)'
    BY <1>3, <2>7, <2>8 DEF RingOK
  <2> QED
    BY <1>1, <1>3, <1>5, <2>9, RingWriteKeeps
<1> QED
  BY <1>3, <1>6, <1>7

\* The bytes are kept under their own revision, and under the requested one
\* only if that is not newer.
LEMMA FetchCompletesCaches ==
  ASSUME Inv, NEW t \in Tasks, FetchCompletes(t)
  PROVE  CachesOK'
<1> DEFINE n == task[t].at
           v == task[t].got
           own == <<v, sc.task[t].cred>>
<1>1. BaseOK /\ CachesOK /\ RequestsOK
  BY DEF Inv
<1>2. n \in Nodes /\ v \in Revs /\ task[t].rev <= v
  BY FetchedFacts
<1>3. Revs \subseteq Nat
  BY <1>1, ScenarioFacts DEF BaseOK
<1>4. Nodes' = Nodes /\ Keys' = Keys /\ Revs' = Revs
  BY ScenarioFixed DEF FetchCompletes
<1>5. json \in [Nodes -> [Keys -> Revs]]
  BY <1>1 DEF CachesOK
<1> DEFINE held == [k \in Keys |->
             IF k = own \/ (k = Key(t) /\ task[t].stale = 0 /\ Response(t) # 0)
             THEN v ELSE json[n][k]]
<1>6. json' = [json EXCEPT ![n] = held]
  BY DEF FetchCompletes, Representation
<1>7. ASSUME NEW k \in Keys
      PROVE  held[k] = json[n][k] \/ (held[k] = v /\ k[1] <= v)
  <2>3. \A x \in Nat : x <= x
    BY SMTT(30)
  <2>1. v <= v
    BY <1>2, <1>3, <2>3
  <2>2. own[1] = v /\ Key(t)[1] = task[t].rev
    BY DEF Key
  <2> QED
    BY <1>2, <2>1, <2>2
<1>8. held = [k \in Keys |-> held[k]]
  OBVIOUS
<1> HIDE DEF held
<1>9. held \in [Keys -> Revs]
  <2>1. \A k \in Keys : held[k] \in Revs
    BY <1>2, <1>5, <1>7
  <2> QED
    BY <1>8, <2>1
<1>10. json' \in [Nodes -> [Keys -> Revs]]
  BY <1>5, <1>6, <1>9
<1>11. ASSUME NEW m \in Nodes, NEW k \in Keys, json'[m][k] # 0
       PROVE  json'[m][k] >= k[1]
  <2>1. json[m][k] # 0 => json[m][k] >= k[1]
    BY <1>1 DEF CachesOK, NeverOlderThanLabel
  <2>2. json'[m] = IF m = n THEN held ELSE json[m]
    BY <1>5, <1>6
  <2>3. CASE json'[m][k] = json[m][k]
    BY <1>11, <2>1, <2>3
  <2>4. CASE json'[m][k] = v /\ k[1] <= v
    <3>1. k[1] \in Nat /\ v \in Nat
      BY <1>2, <1>3 DEF Keys
    <3>2. v >= k[1]
      BY <2>4, <3>1, SMTT(30)
    <3> QED
      BY <2>4, <3>2
  <2> QED
    BY <1>7, <2>2, <2>3, <2>4
<1>12. err' \in [Nodes -> SUBSET Keys]
  BY <1>1 DEF CachesOK, FetchCompletes
<1>13. out' = out
  BY DEF FetchCompletes
<1> QED
  BY <1>1, <1>4, <1>10, <1>11, <1>12, <1>13 DEF CachesOK, NeverOlderThanLabel

\* A completed fetch keeps the invariant.
LEMMA FetchCompletesKeeps ==
  ASSUME Inv, NEW t \in Tasks, FetchCompletes(t)
  PROVE  Inv'
<1>1. BaseOK /\ CatalogOK /\ RequestsOK
  BY DEF Inv
<1>2. task[t].pc # "idle"
  BY FetchedFacts
<1>3. Still
  BY DEF FetchCompletes, RecordObserved, Still
<1>4. Response(t) \in Revs
  <2>1. task[t].got \in Revs /\ task[t].stale \in Revs
    BY <1>1, RequestFacts
  <2>2. 0 \in Revs
    BY <1>1, ScenarioFacts DEF BaseOK
  <2>3. CASE task[t].got = task[t].rev
    BY <2>1, <2>3 DEF Response
  <2>4. CASE task[t].got # task[t].rev /\ task[t].stale # 0
    BY <2>1, <2>4 DEF Response
  <2>5. CASE task[t].got # task[t].rev /\ task[t].stale = 0
    BY <2>1, <2>2, <2>5 DEF Response
  <2> QED
    BY <2>3, <2>4, <2>5
<1>5. RequestsOK'
  <2>1. \/ EndFlight(t, Prepared(t, Response(t)), FALSE)
        \/ EndFlight(t, Refused, TRUE)
    BY DEF FetchCompletes
  <2>2. PICK b \in Revs : b = Response(t)
    BY <1>4
  <2>3. Prepared(t, b) \in Requests /\ RequestSound(Prepared(t, b))
    BY <1>1, <1>2, PreparedSound
  <2>4. CASE EndFlight(t, Prepared(t, b), FALSE)
    BY <1>1, <1>3, <2>3, <2>4, EndFlightSound
  <2>5. CASE EndFlight(t, Refused, TRUE)
    BY <1>1, <1>3, <2>5, RefusedSound, EndFlightSound
  <2> QED
    BY <2>1, <2>2, <2>4, <2>5
<1>6. BaseOK'
  BY <1>1 DEF BaseOK, FetchCompletes
<1> QED
  BY <1>5, <1>6, FetchCompletesCatalog, FetchCompletesGossip, FetchCompletesCaches DEF Inv

-----------------------------------------------------------------------------
(* The invariance, and the theorems.                                       *)

\* The invariant holds in the initial states of every scenario.
LEMMA InitKeeps ==
  ASSUME Init
  PROVE  Inv
<1>1. PICK s \in Scenarios : InitWith(s)
  BY DEF Init
<1>2. sc \in Scenarios /\ sc = s /\ Nodes = s.nodes
  BY <1>1 DEF InitWith, Nodes
<1>3. /\ sc.last \in Nat /\ 1 <= sc.last /\ 0 \in Revs /\ content = 1
      /\ s.budget \in [foreign : Nat, fail : Nat, lost : Nat]
  BY <1>1, <1>2, ScenarioFacts, ScenariosAssumption DEF InitWith
<1>4. 1 \in Nat /\ 1 <= 1 /\ 0 <= 1 /\ 0 \in Nat
  BY SMTT(30)
<1>5. BaseOK
  BY <1>1, <1>2, <1>3, <1>4 DEF BaseOK, InitWith
<1>6. CatalogOK
  <2>1. NoObs \in Observed
    BY <1>3 DEF NoObs, Observed
  <2>2. NoClus \in [ver : Revs, prev : Revs \cup {None}]
    BY <1>3 DEF NoClus
  <2>3. /\ NoObs.ver = 0 /\ NoObs.due = TRUE /\ NoObs.floor = TRUE
        /\ NoClus.ver = 0
    BY DEF NoObs, NoClus
  <2>4. ASSUME NEW n \in Nodes
        PROVE  /\ obs[n] = NoObs /\ clus[n] = NoClus /\ pending[n] = 0 /\ gen[n] = 0
               /\ admitted[n] = {} /\ publishing[n] = {}
    BY <1>1, <1>2 DEF InitWith
  <2>5. ASSUME NEW n \in Nodes
        PROVE  NodeBehind(n) /\ Remembers(n)
    BY <1>3, <1>4, <2>3, <2>4 DEF NodeBehind, Remembers
  <2>6. /\ obs \in [Nodes -> Observed]
        /\ clus \in [Nodes -> [ver : Revs, prev : Revs \cup {None}]]
    BY <1>1, <1>2, <2>1, <2>2 DEF InitWith
  <2>7. /\ pending \in [Nodes -> {0} \cup Hints]
        /\ gen \in [Nodes -> Nat] /\ reqs \in [Nodes -> Nat]
        /\ admitted \in [Nodes -> SUBSET Hints] /\ publishing \in [Nodes -> SUBSET Hints]
    BY <1>1, <1>2, <1>4 DEF InitWith
  <2> QED
    BY <2>5, <2>6, <2>7 DEF CatalogOK
<1>7. GossipOK
  <2> DEFINE empty == [i \in Slots |-> NoRecord]
  <2>1. empty \in [Slots -> Records] /\ \A i \in Slots : empty[i] = NoRecord
    BY DEF Records
  <2>2. ring = [n \in Nodes |-> empty] /\ ann = ring
    BY <1>1, <1>2 DEF InitWith
  <2> HIDE DEF empty
  <2>3. ring \in [Nodes -> [Slots -> Records]]
    BY <2>1, <2>2
  <2>4. NoRecord[1] <= content /\ NoRecord[2] <= content
    BY <1>3, SMTT(30) DEF NoRecord
  <2>5. \A p \in Nodes, i \in Slots : ring[p][i] = NoRecord
    BY <2>1, <2>2
  <2>6. RingOK(ring)
    BY <2>3, <2>4, <2>5 DEF RingOK
  <2>7. RingOK(ann)
    BY <2>2, <2>6
  <2>8. \A n \in Nodes : seen[n] = Rings /\ inbox[n] = {}
    BY <1>1, <1>2 DEF InitWith
  <2>9. Rings.hints = ring /\ Rings.revs = ann
    BY DEF Rings
  <2>10. Rings \in [hints : [Nodes -> [Slots -> Records]],
                    revs : [Nodes -> [Slots -> Records]]]
    BY <2>2, <2>3 DEF Rings
  <2>11. seen = [n \in Nodes |-> Rings] /\ inbox = [n \in Nodes |-> {}]
    BY <1>1, <1>2 DEF InitWith
  <2>12. seen \in [Nodes -> [hints : [Nodes -> [Slots -> Records]],
                             revs : [Nodes -> [Slots -> Records]]]]
    BY <2>10, <2>11
  <2>13. inbox \in [Nodes -> SUBSET ({"hint", "rev"} \X Nodes \X Slots)]
    BY <2>11
  <2> QED
    BY <2>6, <2>7, <2>8, <2>9, <2>12, <2>13 DEF GossipOK
<1>8. CachesOK
  <2> DEFINE none == [k \in Keys |-> 0]
  <2>1. none \in [Keys -> Revs] /\ \A k \in Keys : none[k] = 0
    BY <1>3
  <2>2. json = [n \in Nodes |-> none] /\ out = json /\ err = [n \in Nodes |-> {}]
    BY <1>1, <1>2 DEF InitWith
  <2> HIDE DEF none
  <2>3. json \in [Nodes -> [Keys -> Revs]] /\ err \in [Nodes -> SUBSET Keys]
    BY <2>1, <2>2
  <2>4. NeverOlderThanLabel
    BY <2>1, <2>2 DEF NeverOlderThanLabel
  <2> QED
    BY <2>2, <2>3, <2>4 DEF CachesOK
<1>9. RequestsOK
  <2>1. task = [t \in Tasks |-> NoTask]
    BY <1>1 DEF InitWith
  <2>2. NoTask \in Requests /\ RequestSound(NoTask)
    BY <1>5, RefusedSound DEF Refused
  <2> QED
    BY <2>1, <2>2 DEF RequestsOK
<1> QED
  BY <1>5, <1>6, <1>7, <1>8, <1>9 DEF Inv

\* A request's step keeps the invariant.
LEMMA TaskStepKeeps ==
  ASSUME Inv, NEW t \in Tasks, TaskStep(t)
  PROVE  Inv'
BY ArriveKeeps, LookupKeeps, RecheckKeeps, LoadStyleJsonKeeps, ProviderReadsKeeps,
   FetchCompletesKeeps, RenderKeeps DEF TaskStep

\* So does a node's gossip, and the passing of time.
LEMMA NodeStepKeeps ==
  ASSUME Inv, NEW n \in Nodes, GossipStep(n) \/ TimeStep(n)
  PROVE  Inv'
<1>1. CASE GossipStep(n)
  BY <1>1, PublishStyleRefreshKeeps, ObservePeersKeeps, ApplyGossipKeeps DEF GossipStep
<1>2. CASE TimeStep(n)
  BY <1>2, FloorPassesKeeps, FreshnessEndsKeeps, ExpiriesKeep DEF TimeStep
<1> QED
  BY <1>1, <1>2

\* And every failure.
LEMMA FaultStepKeeps ==
  ASSUME Inv, FaultStep
  PROVE  Inv'
BY FetchFailsKeeps, FollowerTimesOutKeeps, NativeRefusesKeeps, ForeignHintKeeps,
   AbandonPublicationKeeps DEF FaultStep

\* A step that changes nothing keeps the invariant.
LEMMA StutterKeeps ==
  ASSUME Inv, UNCHANGED vars
  PROVE  Inv'
<1>1. /\ UNCHANGED <<sc, content, obs, clus, pending, gen, reqs>>
      /\ UNCHANGED <<admitted, publishing, ring, ann, seen, inbox>>
      /\ UNCHANGED <<json, err, out, task, budget>>
  BY DEF vars, catalog, gossip, caches
<1>2. BaseOK /\ CatalogOK /\ GossipOK /\ CachesOK /\ RequestsOK
  BY DEF Inv
<1>3. BaseOK'
  BY <1>1, <1>2 DEF BaseOK
<1>4. Onward
  BY <1>1, <1>2, SMTT(30) DEF BaseOK, Onward
<1>5. CatalogOK' /\ GossipOK' /\ CachesOK'
  BY <1>1, <1>2, <1>4, CatalogKept, GossipKept, CachesKept
<1>6. RequestsOK'
  <2>1. reqs \in [Nodes -> Nat] /\ \A n \in Nodes : reqs[n] <= reqs[n]
    BY <1>2, SMTT(30) DEF CatalogOK
  <2>2. Nodes' = Nodes
    BY <1>1 DEF Nodes
  <2> QED
    BY <1>1, <1>2, <1>4, <2>1, <2>2, RequestsKept
<1> QED
  BY <1>3, <1>5, <1>6 DEF Inv

\* Every step keeps the invariant.
LEMMA NextKeeps ==
  ASSUME Inv, [Next]_vars
  PROVE  Inv'
<1>1. CASE Mutate
  BY <1>1, MutateKeeps
<1>2. CASE FaultStep
  BY <1>2, FaultStepKeeps
<1>3. CASE \E n \in Nodes, h \in Hints : RefreshStyle(n, h)
  BY <1>3, RefreshStyleKeeps
<1>4. CASE \E n \in Nodes : GossipStep(n) \/ TimeStep(n)
  BY <1>4, NodeStepKeeps
<1>5. CASE \E t \in Tasks : TaskStep(t)
  BY <1>5, TaskStepKeeps
<1>6. CASE UNCHANGED vars
  BY <1>6, StutterKeeps
<1> QED
  BY <1>1, <1>2, <1>3, <1>4, <1>5, <1>6 DEF Next

\* The invariant holds of every behaviour.
LEMMA Invariance == Spec => []Inv
<1>1. Init => Inv
  BY InitKeeps
<1>2. Inv /\ [Next]_vars => Inv'
  BY NextKeeps
<1> QED
  BY <1>1, <1>2, PTL DEF Spec

\* The catalogs, caches, rings and requests keep their types.
THEOREM TypeCorrect == Spec => []TypeOK
<1>1. Inv => TypeOK
  <2> SUFFICES ASSUME Inv
               PROVE  TypeOK
    OBVIOUS
  <2>1. BaseOK /\ CatalogOK /\ GossipOK /\ CachesOK /\ RequestsOK
    BY DEF Inv
  <2>2. ring \in [Nodes -> [Slots -> Records]] /\ ann \in [Nodes -> [Slots -> Records]]
    BY <2>1 DEF GossipOK, RingOK
  <2>3. sc \in Scenarios /\ content \in Nat
        /\ budget \in [foreign : Nat, fail : Nat, lost : Nat]
    BY <2>1 DEF BaseOK
  <2>4. json \in [Nodes -> [Keys -> Revs]] /\ out \in [Nodes -> [Keys -> Revs]]
        /\ err \in [Nodes -> SUBSET Keys]
    BY <2>1 DEF CachesOK
  <2>5. task \in [Tasks -> Requests]
    BY <2>1 DEF RequestsOK
  <2> QED
    BY <2>1, <2>2, <2>3, <2>4, <2>5 DEF TypeOK, CatalogOK, GossipOK
<1> QED
  BY <1>1, Invariance, PTL

\* A node that routes by content older than a hint it has applied knows that
\* it must revalidate: the observed entry remembers the hint itself, and a
\* peer's older revision differs from a newer observed one.
THEOREM StaleIsKnown == Spec => []StaleKnowsIt
<1>1. Inv => StaleKnowsIt
  <2> SUFFICES ASSUME Inv, NEW n \in Nodes, NEW h \in admitted[n], Latest(n) < h
               PROVE  HasPendingRevalidation(n) \/ NeedsRevalidation(n)
    BY DEF StaleKnowsIt
  <2>1. Remembers(n)
    BY DEF Inv, CatalogOK
  <2>2. obs[n].ver \in Nat /\ clus[n].ver \in Nat /\ h \in Nat
    <3>1. obs[n].ver \in Revs
      BY SMTT(30) DEF Inv, CatalogOK, Observed
    <3>2. clus[n].ver \in Revs /\ h \in Hints
      BY DEF Inv, CatalogOK
    <3>3. Revs \subseteq Nat /\ Hints \subseteq Nat
      BY ScenarioFacts DEF Inv, BaseOK
    <3> QED
      BY <3>1, <3>2, <3>3
  <2>3. CASE obs[n].ver = 0
    BY <2>1, <2>3 DEF Remembers, NeedsRevalidation
  <2>4. CASE obs[n].ver # 0 /\ obs[n].ver < h
    BY <2>1, <2>4 DEF Remembers, HasPendingRevalidation
  <2>5. CASE ~(obs[n].ver < h)
    <3>1. clus[n].ver # 0
      BY <2>5 DEF Latest
    <3>2. clus[n].ver < h
      BY <3>1 DEF Latest
    <3>3. obs[n].ver # clus[n].ver
      BY <2>5, <3>2
    <3> QED
      BY <3>1, <3>3 DEF NeedsRevalidation
  <2> QED
    BY <2>3, <2>4, <2>5
<1> QED
  BY <1>1, Invariance, PTL

\* The style JSON a node holds under a revision is not older than it.
THEOREM LabelsHold == Spec => []NeverOlderThanLabel
<1>1. Inv => NeverOlderThanLabel
  BY DEF Inv, CachesOK
<1> QED
  BY <1>1, Invariance, PTL
=============================================================================
