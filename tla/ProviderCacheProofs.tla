-------------------------- MODULE ProviderCacheProofs --------------------------
(***************************************************************************)
(* Proofs about ProviderCache, for any number of keys, requests, hints,    *)
(* publications and lost fences.                                           *)
(***************************************************************************)
EXTENDS ProviderCache, TLAPS

USE Zenon

Leading == {"recheck", "fence", "fence2", "io", "failed", "put", "put2", "store", "discard",
            "publish"}
Fetched == {"failed", "put", "put2", "store", "discard", "publish"}
Awake == {"woken", "woken2"}
Revalidating == {"fence", "fence2", "io", "put", "put2", "store"}

Epoch(k) == EpochNumber(epochs[k])

\* Whoever leads a flight is its leader, a follower has one, and the background
\* task of a key only ever leads.
Led ==
    /\ \A w \in Workers : wpc[w] \in Leading => leader[Subject(w)] = w
    /\ FollowersLed
    /\ \A k \in Keys : wpc[k] \in {"idle"} \cup Leading

\* The versions that hints and requests are about have been published.
Published ==
    /\ \A k \in Keys : hinted[k] <= origin[k]
    /\ \A f \in Refreshers : fversion[f] <= origin[KeyOf[f]]
    /\ \A r \in Requests : floor[r] <= hinted[KeyOf[r]]

\* A document v taken under the epoch n of its key: a refresh about a newer one
\* that has read the epoch read n or more, and one that has inserted, or is over,
\* left an epoch beyond n.
Covered(k, v, n) ==
    /\ n <= Epoch(k)
    /\ v < hinted[k] => n < Epoch(k)
    /\ \A f \in Refreshers : KeyOf[f] = k /\ v < fversion[f] =>
          /\ fpc[f] = "insert" => n <= fepoch[f]
          /\ fpc[f] = "drop" => n < Epoch(k)

\* A document v taken under the count c: a refresh about a newer one that has
\* raised the count, or is over, left a count beyond c.
Counted(k, v, c) ==
    /\ c <= refreshes
    /\ v < hinted[k] => c < refreshes
    /\ \A f \in Refreshers :
          KeyOf[f] = k /\ v < fversion[f] /\ fpc[f] \in {"epoch", "insert", "drop"} =>
             c < refreshes

EntriesCovered ==
    \A k \in Keys \ lost : \A e \in entries[k] : Covered(k, e.version, e.epoch)

\* The fence a worker has captured so far is not ahead of the cache.
FenceBehind(w) ==
    /\ wpc[w] \in {"fence2", "io"} /\ Subject(w) \notin lost =>
          EpochNumber(fence[w].epoch) <= Epoch(Subject(w))
    /\ wpc[w] = "io" => fence[w].count <= refreshes

\* What a leader fetched and what it sent to a follower was taken under the fence
\* that goes with it.
AnswerFenced(w) ==
    wpc[w] \in Fetched \/ sent[w] => \A v \in result[w] :
       /\ Subject(w) \notin lost => Covered(Subject(w), v, EpochNumber(fence[w].epoch))
       /\ Counted(Subject(w), v, fence[w].count)

\* What a request fetched, or is about to return, is new enough for it.
AnswerFresh(r) ==
    wpc[r] \in Fetched \/ (wpc[r] \in {"allowed", "spawn", "done"} /\ KeyOf[r] \notin lost) =>
       \A v \in result[r] : v >= floor[r]

\* A background revalidation that goes on found the entry stale.
EntryStale(k) == wpc[k] \in Revalidating => \A e \in entries[k] : e.age # "fresh"

WorkerSound(w) ==
    /\ FenceBehind(w) /\ AnswerFenced(w)
    /\ sent[w] => wpc[w] \in Awake
    /\ wpc[w] = "woken2" => sent[w]
    /\ w \in Requests => AnswerFresh(w)
    /\ w \in Keys => EntryStale(w)

\* The inductive invariant.
Inv ==
    /\ TypeOK /\ Led /\ Published /\ EntriesCovered
    /\ \A w \in Workers : WorkerSound(w)
-----------------------------------------------------------------------------
(* What a step changes. *)

\* Fences move forward only, and what was taken under one stays covered.
WorldForward ==
    /\ lost \subseteq lost' /\ refreshes <= refreshes'
    /\ \A k \in Keys \ lost' : Epoch(k) <= Epoch(k)'
    /\ \A k \in Keys \ lost', v \in Versions, n \in Nat : Covered(k, v, n) => Covered(k, v, n)'
    /\ \A k \in Keys, v \in Versions, c \in Nat : Counted(k, v, c) => Counted(k, v, c)'

WorldKept == UNCHANGED <<origin, hinted, epochs, refreshes, fpc, fepoch, fversion, losses, lost>>

WorkerKept(x) ==
    /\ wpc'[x] = wpc[x] /\ fence'[x] = fence[x] /\ result'[x] = result[x] /\ sent'[x] = sent[x]
    /\ x \in Requests => floor'[x] = floor[x]

\* No document of the key becomes fresh.
NoneFresher(k) == \A e \in entries'[k] : e.age = "fresh" => e \in entries[k]

\* Every worker works on a key.
LEMMA Subjects ==
  /\ \A w \in Workers : Subject(w) \in Keys
  /\ \A r \in Requests : /\ r \in Workers /\ KeyOf[r] \in Keys
                        /\ Subject(r) = KeyOf[r] /\ r \notin Keys
  /\ \A k \in Keys : Subject(k) = k
BY ProviderCacheAssumption DEF ProviderCacheAssumption, Workers, Subject

\* An epoch is a number, and the one that was inserted if one was.
LEMMA Epochs ==
  /\ \A S \in SUBSET Nat : EpochNumber(S) \in Nat
  /\ \A n : EpochNumber({n}) = n
<1>1. 0 \in Nat
  BY SMTT(30)
<1> QED
  BY <1>1 DEF EpochNumber

\* The numbers a state is made of.
LEMMA Numbers ==
  ASSUME TypeOK
  PROVE  /\ \A k \in Keys : Epoch(k) \in Nat
         /\ \A w \in Workers : EpochNumber(fence[w].epoch) \in Nat /\ fence[w].count \in Nat
         /\ \A w \in Workers : result[w] \subseteq Versions
         /\ \A k \in Keys, e \in Entries : e.version \in Versions /\ e.epoch \in Nat
         /\ \A k \in Keys : entries[k] \subseteq Entries
         /\ Versions \subseteq Nat /\ refreshes \in Nat
<1>1. \A w \in Workers : fence[w].epoch \in SUBSET Nat /\ fence[w].count \in Nat
  <2>1. \A w \in Workers : fence[w] \in Fences
    BY DEF TypeOK
  <2> QED
    BY <2>1, SMTT(30) DEF Fences
<1>2. \A k \in Keys, e \in Entries : e.version \in Versions /\ e.epoch \in Nat
  BY SMTT(30) DEF Entries
<1>3. Versions \subseteq Nat
  BY ProviderCacheAssumption, SMTT(30) DEF Versions, ProviderCacheAssumption
<1> QED
  BY <1>1, <1>2, <1>3, Epochs DEF TypeOK, Epoch

\* A step of a worker leaves the fences alone.
LEMMA WorldKeptForward ==
  ASSUME TypeOK, WorldKept
  PROVE  /\ WorldForward
         /\ \A k, v, n : /\ Covered(k, v, n)' <=> Covered(k, v, n)
                         /\ Counted(k, v, n)' <=> Counted(k, v, n)
<1>1. \A k, v, n : /\ Covered(k, v, n)' <=> Covered(k, v, n)
                   /\ Counted(k, v, n)' <=> Counted(k, v, n)
  <2>1. \A k, v, n : Covered(k, v, n)' <=> Covered(k, v, n)
    BY SMTT(30) DEF WorldKept, Covered, Epoch
  <2>2. \A k, v, n : Counted(k, v, n)' <=> Counted(k, v, n)
    BY SMTT(30) DEF WorldKept, Counted
  <2> QED
    BY <2>1, <2>2
<1>2. refreshes <= refreshes' /\ \A k \in Keys \ lost' : Epoch(k) <= Epoch(k)'
  <2>1. refreshes' = refreshes /\ \A k : Epoch(k)' = Epoch(k)
    BY DEF WorldKept, Epoch
  <2> QED
    BY <2>1, Numbers, SMTT(30)
<1> QED
  BY <1>1, <1>2 DEF WorldForward, WorldKept

\* Documents that stay, also aged, stay covered.
LEMMA EntriesStay ==
  ASSUME Inv, WorldForward,
         \A k \in Keys : \A e \in entries'[k] :
            \E d \in entries[k] : e.version = d.version /\ e.epoch = d.epoch
  PROVE  EntriesCovered'
<1> SUFFICES ASSUME NEW k \in Keys \ lost', NEW e \in entries'[k]
             PROVE  Covered(k, e.version, e.epoch)'
  BY DEF EntriesCovered
<1>1. PICK d \in entries[k] : e.version = d.version /\ e.epoch = d.epoch
  OBVIOUS
<1>2. PICK v \in Versions, n \in Nat : v = d.version /\ n = d.epoch
  BY Numbers DEF Inv
<1>3. Covered(k, v, n)
  BY <1>2 DEF Inv, EntriesCovered, WorldForward
<1>4. Covered(k, v, n)'
  BY <1>3 DEF WorldForward
<1> QED
  BY <1>1, <1>2, <1>4

\* A worker that does not move stays sound.
LEMMA KeptSound ==
  ASSUME Inv, TypeOK', WorldForward, NEW x \in Workers, WorkerKept(x),
         x \in Keys /\ wpc[x] \in Revalidating => NoneFresher(x)
  PROVE  WorkerSound(x)'
<1>1. WorkerSound(x) /\ Subject(x) \in Keys
  BY Subjects DEF Inv
<1>2. /\ EpochNumber(fence[x].epoch) \in Nat /\ fence[x].count \in Nat /\ result[x] \subseteq Versions
      /\ Epoch(Subject(x)) \in Nat /\ Epoch(Subject(x))' \in Nat
      /\ refreshes \in Nat /\ refreshes' \in Nat
  <2>1. \A k \in Keys : Epoch(k)' \in Nat
    BY Epochs DEF TypeOK, Epoch
  <2> QED
    BY <1>1, <2>1, Numbers DEF Inv, TypeOK, Subject
<1>3. /\ wpc'[x] = wpc[x] /\ fence'[x] = fence[x] /\ result'[x] = result[x] /\ sent'[x] = sent[x]
      /\ x \in Requests => floor'[x] = floor[x]
  BY DEF WorkerKept
<1>4. FenceBehind(x)'
  <2>1. ASSUME wpc[x] \in {"fence2", "io"}, Subject(x) \notin lost'
        PROVE  EpochNumber(fence[x].epoch) <= Epoch(Subject(x))'
    <3>1. EpochNumber(fence[x].epoch) <= Epoch(Subject(x))
      BY <1>1, <2>1 DEF WorkerSound, FenceBehind, WorldForward
    <3>2. Epoch(Subject(x)) <= Epoch(Subject(x))'
      BY <1>1, <2>1 DEF WorldForward, Epoch, Subject
    <3> QED
      BY <1>2, <3>1, <3>2, SMTT(30)
  <2>2. ASSUME wpc[x] = "io" PROVE fence[x].count <= refreshes'
    <3>1. fence[x].count <= refreshes /\ refreshes <= refreshes'
      BY <1>1, <2>2 DEF WorkerSound, FenceBehind, WorldForward
    <3> QED
      BY <1>2, <3>1, SMTT(30)
  <2> QED
    BY <1>3, <2>1, <2>2 DEF FenceBehind, Subject
<1>5. AnswerFenced(x)'
  <2> SUFFICES ASSUME wpc[x] \in Fetched \/ sent[x], NEW v \in result[x]
               PROVE  /\ Subject(x) \notin lost' => Covered(Subject(x), v, EpochNumber(fence[x].epoch))'
                      /\ Counted(Subject(x), v, fence[x].count)'
    BY <1>3 DEF AnswerFenced, Subject, Covered, Counted
  <2>1. PICK k \in Keys, n \in Nat, c \in Nat :
           k = Subject(x) /\ n = EpochNumber(fence[x].epoch) /\ c = fence[x].count
    BY <1>1, <1>2
  <2>2. v \in Versions
    BY <1>2
  <2>3. Counted(k, v, c) /\ (k \notin lost => Covered(k, v, n))
    BY <1>1, <2>1 DEF WorkerSound, AnswerFenced
  <2>4. Counted(k, v, c)' /\ (k \notin lost' => Covered(k, v, n)')
    BY <2>2, <2>3 DEF WorldForward
  <2> QED
    BY <1>3, <2>1, <2>4 DEF Subject, Covered, Counted
<1>6. x \in Requests => AnswerFresh(x)'
  BY <1>1, <1>3 DEF WorkerSound, AnswerFresh, WorldForward
<1>7. x \in Keys => EntryStale(x)'
  BY <1>1, <1>3 DEF WorkerSound, EntryStale, NoneFresher
<1> QED
  BY <1>1, <1>3, <1>4, <1>5, <1>6, <1>7 DEF WorkerSound

\* One worker moves, and leads no more than it did.
LEMMA OneMoves ==
  ASSUME Inv, TypeOK', WorldForward, Published', EntriesCovered', NEW w \in Workers,
         UNCHANGED leader, \A x \in Workers \ {w} : WorkerKept(x),
         wpc'[w] \in Leading => wpc[w] \in Leading,
         wpc'[w] # "waiting" \/ leader[Subject(w)] # NoWorker,
         w \in Keys => wpc'[w] \in {"idle"} \cup Leading,
         \A k \in Keys \ {w} : wpc[k] \in Revalidating => NoneFresher(k),
         WorkerSound(w)'
  PROVE  Inv'
<1>1. \A x \in Workers \ {w} : WorkerSound(x)'
  BY KeptSound
<1>2. \A x \in Workers \ {w} : wpc'[x] = wpc[x]
  BY DEF WorkerKept
<1>3. ASSUME NEW x \in Workers, wpc'[x] \in Leading PROVE leader'[Subject(x)] = x
  BY <1>2, <1>3 DEF Inv, Led
<1>4. ASSUME NEW r \in Requests, wpc'[r] = "waiting" PROVE leader'[KeyOf[r]] # NoWorker
  BY <1>2, <1>4, Subjects DEF Inv, Led, FollowersLed, Workers
<1>5. ASSUME NEW k \in Keys PROVE wpc'[k] \in {"idle"} \cup Leading
  BY <1>2 DEF Inv, Led, Workers
<1>6. Led'
  BY <1>3, <1>4, <1>5 DEF Led, FollowersLed, Subject
<1> QED
  BY <1>1, <1>6 DEF Inv

\* The worker would be sound at p with that fence, result and flag.
SoundAs(w, p, fn, res, snt) ==
    /\ p \in {"fence2", "io"} /\ Subject(w) \notin lost =>
          EpochNumber(fn.epoch) <= Epoch(Subject(w))
    /\ p = "io" => fn.count <= refreshes
    /\ p \in Fetched \/ snt => \A v \in res :
          /\ Subject(w) \notin lost => Covered(Subject(w), v, EpochNumber(fn.epoch))
          /\ Counted(Subject(w), v, fn.count)
    /\ snt => p \in Awake
    /\ p = "woken2" => snt
    /\ w \in Requests =>
          (p \in Fetched \/ (p \in {"allowed", "spawn", "done"} /\ KeyOf[w] \notin lost) =>
             \A v \in res : v >= floor[w])
    /\ w \in Keys => (p \in Revalidating => \A e \in entries[w] : e.age # "fresh")

\* The invariant says of a worker that it is sound where it is.
LEMMA SoundNow ==
  ASSUME NEW w \in Workers, WorkerSound(w)
  PROVE  SoundAs(w, wpc[w], fence[w], result[w], sent[w])
BY DEF WorkerSound, SoundAs, FenceBehind, AnswerFenced, AnswerFresh, EntryStale

\* Where the worker goes, and with what.
Move(w, p, fn, res, snt) ==
    /\ wpc' = [wpc EXCEPT ![w] = p] /\ fence' = [fence EXCEPT ![w] = fn]
    /\ result' = [result EXCEPT ![w] = res] /\ sent' = [sent EXCEPT ![w] = snt]

\* A worker that would be sound where the step leaves it is sound after the step.
LEMMA AsSound ==
  ASSUME Inv, WorldKept, UNCHANGED <<entries, floor>>, NEW w \in Workers, NEW p, NEW fn, NEW res, NEW snt,
         wpc'[w] = p, fence'[w] = fn, result'[w] = res, sent'[w] = snt,
         SoundAs(w, p, fn, res, snt)
  PROVE  WorkerSound(w)'
<1>0. wpc'[w] = p /\ fence'[w] = fn /\ result'[w] = res /\ sent'[w] = snt
  OBVIOUS
<1>1. \A k, v, n : /\ Covered(k, v, n)' <=> Covered(k, v, n)
                   /\ Counted(k, v, n)' <=> Counted(k, v, n)
  BY WorldKeptForward DEF Inv
<1>2. Subject(w)' = Subject(w) /\ lost' = lost /\ refreshes' = refreshes /\ \A k : Epoch(k)' = Epoch(k)
  BY DEF WorldKept, Epoch, Subject
<1>3. FenceBehind(w)'
  <2>1. (p = "io" => fn.count <= refreshes') /\ Epoch(Subject(w))' = Epoch(Subject(w))
    BY <1>2 DEF SoundAs, Subject, Epoch, WorldKept
  <2>2. p \in {"fence2", "io"} /\ Subject(w)' \notin lost' =>
           EpochNumber(fn.epoch) <= Epoch(Subject(w))'
    BY <1>2, <2>1 DEF SoundAs
  <2> QED
    BY <1>0, <2>1, <2>2 DEF FenceBehind
<1>4. AnswerFenced(w)'
  <2> SUFFICES ASSUME p \in Fetched \/ snt, NEW v \in res
               PROVE  /\ Subject(w) \notin lost' => Covered(Subject(w), v, EpochNumber(fence[w].epoch))'
                      /\ Counted(Subject(w), v, fence[w].count)'
    BY <1>0 DEF AnswerFenced, Subject, Covered, Counted
  <2>1. PICK k, n, c : k = Subject(w) /\ n = EpochNumber(fn.epoch) /\ c = fn.count
    OBVIOUS
  <2>2. Counted(k, v, c)' /\ (k \notin lost => Covered(k, v, n)')
    BY <1>1, <2>1 DEF SoundAs
  <2> QED
    BY <1>0, <1>2, <2>1, <2>2 DEF Subject, Covered, Counted
<1>5. w \in Requests => AnswerFresh(w)'
  BY <1>0, <1>2 DEF SoundAs, AnswerFresh
<1>6. w \in Keys => EntryStale(w)'
  BY <1>0 DEF SoundAs, EntryStale
<1> QED
  BY <1>0, <1>3, <1>4, <1>5, <1>6 DEF WorkerSound, SoundAs

\* A worker moves and touches neither entries nor flights.
LEMMA WorkerMoves ==
  ASSUME Inv, WorldKept, UNCHANGED <<entries, leader, floor>>, cooldown' \subseteq Keys,
         NEW w \in Workers, NEW p \in Phases, NEW fn \in Fences, AtMostOne(fn.epoch),
         NEW res \in SUBSET Versions, AtMostOne(res), NEW snt \in BOOLEAN,
         Move(w, p, fn, res, snt), SoundAs(w, p, fn, res, snt),
         p \in Leading => wpc[w] \in Leading,
         p # "waiting" \/ leader[Subject(w)] # NoWorker,
         w \in Keys => p \in {"idle"} \cup Leading
  PROVE  Inv'
<1>1. /\ wpc \in [Workers -> Phases] /\ fence \in [Workers -> Fences]
      /\ result \in [Workers -> SUBSET Versions] /\ sent \in [Workers -> BOOLEAN]
  BY DEF Inv, TypeOK
<1>2. /\ wpc' \in [Workers -> Phases] /\ fence' \in [Workers -> Fences]
      /\ result' \in [Workers -> SUBSET Versions] /\ sent' \in [Workers -> BOOLEAN]
  BY <1>1 DEF Move
<1>3. wpc'[w] = p /\ fence'[w] = fn /\ result'[w] = res /\ sent'[w] = snt
  BY <1>1 DEF Move
<1>4. \A x \in Workers \ {w} : WorkerKept(x)
  BY <1>1 DEF Move, WorkerKept
<1>5. \A x \in Workers : AtMostOne(fence'[x].epoch) /\ AtMostOne(result'[x])
  BY <1>3, <1>4 DEF Inv, TypeOK, WorkerKept
<1>6. TypeOK'
  BY <1>2, <1>5 DEF Inv, TypeOK, WorldKept, Subject
<1>7. Published' /\ WorldForward /\ EntriesCovered'
  <2>1. WorldForward
    BY WorldKeptForward DEF Inv
  <2>2. \A k \in Keys : \A e \in entries'[k] :
            \E d \in entries[k] : e.version = d.version /\ e.epoch = d.epoch
    OBVIOUS
  <2> QED
    BY <2>1, <2>2, EntriesStay DEF Inv, Published, WorldKept
<1>8. WorkerSound(w)'
  BY <1>3, AsSound
<1>9. /\ \A k \in Keys \ {w} : wpc[k] \in Revalidating => NoneFresher(k)
      /\ UNCHANGED leader
  BY DEF NoneFresher
<1> QED
  BY <1>3, <1>4, <1>6, <1>7, <1>8, <1>9, OneMoves

\* What a worker has in hand.
LEMMA InHand ==
  ASSUME Inv, NEW w \in Workers
  PROVE  /\ fence[w] \in Fences /\ AtMostOne(fence[w].epoch)
         /\ result[w] \in SUBSET Versions /\ AtMostOne(result[w])
         /\ sent[w] \in BOOLEAN /\ wpc[w] \in Phases /\ cooldown \subseteq Keys
         /\ wpc[w] \notin Awake => sent[w] = FALSE
         /\ fence = [fence EXCEPT ![w] = fence[w]]
         /\ result = [result EXCEPT ![w] = result[w]]
         /\ sent = [sent EXCEPT ![w] = sent[w]]
         /\ SoundAs(w, wpc[w], fence[w], result[w], sent[w])
<1>1. /\ wpc \in [Workers -> Phases] /\ fence \in [Workers -> Fences]
      /\ result \in [Workers -> SUBSET Versions] /\ sent \in [Workers -> BOOLEAN]
      /\ cooldown \subseteq Keys
  BY DEF Inv, TypeOK
<1>2. AtMostOne(fence[w].epoch) /\ AtMostOne(result[w]) /\ WorkerSound(w)
  BY DEF Inv, TypeOK
<1>3. SoundAs(w, wpc[w], fence[w], result[w], sent[w])
  BY <1>2, SoundNow
<1>4. wpc[w] \notin Awake => sent[w] = FALSE
  BY <1>1, <1>2 DEF WorkerSound
<1>5. /\ fence = [fence EXCEPT ![w] = fence[w]]
      /\ result = [result EXCEPT ![w] = result[w]]
      /\ sent = [sent EXCEPT ![w] = sent[w]]
  BY <1>1
<1> QED
  BY <1>1, <1>2, <1>3, <1>4, <1>5

\* A worker goes on with what it has in hand.
LEMMA GoesOn ==
  ASSUME Inv, WorldKept, UNCHANGED <<entries, leader, floor, fence, result, sent>>,
         cooldown' \subseteq Keys, NEW w \in Workers, NEW p \in Phases, Goto(w, p),
         SoundAs(w, p, fence[w], result[w], sent[w]),
         p \in Leading => wpc[w] \in Leading,
         p # "waiting" \/ leader[Subject(w)] # NoWorker,
         w \in Keys => p \in {"idle"} \cup Leading
  PROVE  Inv'
<1>1. Move(w, p, fence[w], result[w], sent[w])
  BY InHand DEF Move, Goto
<1>2. /\ fence[w] \in Fences /\ AtMostOne(fence[w].epoch)
      /\ result[w] \in SUBSET Versions /\ AtMostOne(result[w]) /\ sent[w] \in BOOLEAN
  BY InHand
<1>3. UNCHANGED <<entries, leader, floor>>
  OBVIOUS
<1>4. PICK fn \in Fences, res \in SUBSET Versions, snt \in BOOLEAN :
         fn = fence[w] /\ res = result[w] /\ snt = sent[w]
  BY <1>2
<1>5. Move(w, p, fn, res, snt) /\ SoundAs(w, p, fn, res, snt) /\ AtMostOne(fn.epoch) /\ AtMostOne(res)
  BY <1>1, <1>2, <1>4
<1> QED
  BY <1>3, <1>5, WorkerMoves

\* A request lets go of everything and holds res.
LEMMA LetsGo ==
  ASSUME Inv, WorldKept, UNCHANGED <<entries, leader, floor>>, cooldown' \subseteq Keys,
         NEW r \in Requests, NEW p \in {"done", "get", "gone"},
         NEW res \in SUBSET Versions, AtMostOne(res),
         Move(r, p, NoFence, res, FALSE),
         p = "done" /\ KeyOf[r] \notin lost => \A v \in res : v >= floor[r]
  PROVE  Inv'
<1>1. /\ p \in Phases /\ p \notin Leading /\ p # "waiting" /\ p \notin Fetched
      /\ p \notin {"fence2", "io", "woken2"} /\ p \notin {"allowed", "spawn"}
  BY SMTT(30) DEF Phases, Leading, Fetched
<1>2. NoFence \in Fences /\ AtMostOne(NoFence.epoch)
  BY SMTT(30) DEF NoFence, Fences, AtMostOne
<1>3. r \in Workers /\ r \notin Keys
  BY Subjects DEF Workers
<1>4. SoundAs(r, p, NoFence, res, FALSE)
  BY <1>1, <1>3 DEF SoundAs
<1> QED
  BY <1>1, <1>2, <1>3, <1>4, WorkerMoves

\* A request that returns a document that is new enough for it.
LEMMA Returns ==
  ASSUME Inv, UNCHANGED <<origin, hinted, cacheVars, leader, floor, refresherVars, lossVars>>,
         NEW r \in Requests, NEW res \in SUBSET Versions, AtMostOne(res), Return(r, res),
         KeyOf[r] \notin lost => \A v \in res : v >= floor[r]
  PROVE  Inv'
<1>1. WorldKept /\ UNCHANGED <<entries, leader, floor>> /\ cooldown' \subseteq Keys
  BY DEF WorldKept, cacheVars, refresherVars, lossVars, Inv, TypeOK
<1>2. Move(r, "done", NoFence, res, FALSE)
  BY DEF Return, Move
<1> QED
  BY <1>1, <1>2, LetsGo

\* What a document must be to be returned: not older than the last finished hint.
LEMMA NewEnough ==
  ASSUME Inv, NEW r \in Requests, NEW v \in Versions, ~(v < hinted[KeyOf[r]])
  PROVE  v >= floor[r]
<1>1. floor[r] <= hinted[KeyOf[r]]
  BY DEF Inv, Published
<1>2. floor[r] \in Nat /\ hinted[KeyOf[r]] \in Nat /\ v \in Nat
  <2>1. KeyOf[r] \in Keys
    BY Subjects DEF Workers
  <2>2. floor[r] \in Versions /\ hinted[KeyOf[r]] \in Versions
    BY <2>1 DEF Inv, TypeOK
  <2> QED
    BY <2>2, Numbers DEF Inv
<1> QED
  BY <1>1, <1>2, SMTT(30)

\* A document found under the current fence is not older than the last finished hint.
LEMMA Current ==
  ASSUME Inv, NEW r \in Requests, NEW v \in Versions, NEW n \in Nat, Covered(KeyOf[r], v, n), n = Epoch(KeyOf[r])
  PROVE  v >= floor[r]
<1>1. ~(v < hinted[KeyOf[r]])
  BY SMTT(30) DEF Covered
<1> QED
  BY <1>1, NewEnough

\* A hit under the current epoch is new enough, and a miss promises nothing.
LEMMA GetKeeps ==
  ASSUME Inv, NEW r \in Requests, Get(r)
  PROVE  Inv'
<1>1. /\ r \in Workers /\ r \notin Keys /\ wpc[r] = "get" /\ Subject(r) = KeyOf[r] /\ KeyOf[r] \in Keys
      /\ UNCHANGED <<origin, hinted, cacheVars, leader, floor, refresherVars, lossVars>>
  BY Subjects DEF Get, Workers
<1>2. WorldKept /\ UNCHANGED <<entries, leader, floor>> /\ cooldown' \subseteq Keys
  BY <1>1 DEF WorldKept, cacheVars, refresherVars, lossVars, Inv, TypeOK
<1>3. sent[r] = FALSE
  <2>1. wpc[r] \notin Awake
    BY <1>1, SMTT(30) DEF Awake
  <2> QED
    BY <1>1, <2>1, InHand
<1>4. ASSUME NEW e \in Lookup(KeyOf[r])
      PROVE  /\ e.version \in Versions /\ {e.version} \in SUBSET Versions /\ AtMostOne({e.version})
             /\ KeyOf[r] \notin lost => \A v \in {e.version} : v >= floor[r]
  <2>1. e \in Entries /\ e \in entries[KeyOf[r]] /\ e.epoch = Epoch(KeyOf[r])
    BY <1>1, Numbers DEF Lookup, Epoch, Inv
  <2>2. PICK v \in Versions, n \in Nat : v = e.version /\ n = e.epoch
    BY <1>1, <2>1, Numbers DEF Inv
  <2>3. KeyOf[r] \notin lost => Covered(KeyOf[r], v, n)
    BY <1>1, <2>1, <2>2 DEF Inv, EntriesCovered
  <2>4. KeyOf[r] \notin lost => v >= floor[r]
    BY <2>1, <2>2, <2>3, Current
  <2> QED
    BY <2>2, <2>4 DEF AtMostOne
<1>5. ASSUME NEW e \in Lookup(KeyOf[r]), Return(r, {e.version}) PROVE Inv'
  BY <1>1, <1>4, <1>5, Returns
<1>6. ASSUME NEW e \in Lookup(KeyOf[r]), Goto(r, "allowed"),
             result' = [result EXCEPT ![r] = {e.version}], UNCHANGED <<fence, sent>>
      PROVE  Inv'
  <2>1. PICK fn \in Fences, snt \in BOOLEAN : fn = fence[r] /\ snt = sent[r] /\ AtMostOne(fn.epoch)
    BY <1>1, InHand
  <2>2. Move(r, "allowed", fn, {e.version}, snt)
    BY <1>1, <1>6, <2>1, InHand DEF Move, Goto
  <2>3. /\ "allowed" \in Phases /\ "allowed" \notin Leading /\ "allowed" # "waiting"
        /\ "allowed" \notin Fetched /\ "allowed" \notin {"fence2", "io", "woken2"}
    BY SMTT(30) DEF Phases, Leading, Fetched
  <2>4. SoundAs(r, "allowed", fn, {e.version}, snt)
    BY <1>1, <1>3, <1>4, <2>1, <2>3 DEF SoundAs
  <2> QED
    BY <1>1, <1>2, <1>4, <2>1, <2>2, <2>3, <2>4, WorkerMoves, ZenonT(30)
<1>7. ASSUME Goto(r, "begin"), UNCHANGED <<fence, result, sent>> PROVE Inv'
  <2>1. /\ "begin" \in Phases /\ "begin" \notin Leading /\ "begin" # "waiting"
        /\ "begin" \notin Fetched /\ "begin" \notin {"fence2", "io", "woken2"}
        /\ "begin" \notin {"allowed", "spawn", "done"}
    BY SMTT(30) DEF Phases, Leading, Fetched
  <2>2. SoundAs(r, "begin", fence[r], result[r], sent[r])
    BY <1>1, <1>3, <2>1 DEF SoundAs
  <2>3. UNCHANGED <<entries, leader, floor, fence, result, sent>>
    BY <1>2, <1>7
  <2> QED
    BY <1>1, <1>2, <1>7, <2>1, <2>2, <2>3, GoesOn
<1> QED
  BY <1>5, <1>6, <1>7 DEF Get

\* What a step of a worker on its own leaves alone.
LEMMA AloneKeeps ==
  ASSUME Inv, UNCHANGED <<origin, hinted, cacheVars, refresherVars, lossVars>>
  PROVE  WorldKept /\ UNCHANGED entries /\ cooldown' \subseteq Keys
BY DEF WorldKept, cacheVars, refresherVars, lossVars, Inv, TypeOK

\* The stale document a request is about to return stays new enough for it.
LEMMA AllowedKeeps ==
  ASSUME Inv, NEW r \in Requests, Allowed(r)
  PROVE  Inv'
<1>1. /\ r \in Workers /\ r \notin Keys /\ wpc[r] = "allowed"
      /\ UNCHANGED <<origin, hinted, cacheVars, leader, floor, refresherVars, lossVars>>
  BY Subjects DEF Allowed, Workers
<1>2. WorldKept /\ UNCHANGED <<entries, leader, floor>> /\ cooldown' \subseteq Keys
  BY <1>1, AloneKeeps
<1>3. /\ "allowed" \notin Awake /\ "allowed" \in {"allowed", "spawn", "done"}
      /\ "spawn" \in Phases /\ "spawn" \notin Leading /\ "spawn" # "waiting"
      /\ "spawn" \notin Fetched /\ "spawn" \notin {"fence2", "io", "woken2"}
  BY SMTT(30) DEF Phases, Leading, Fetched, Awake
<1>4. /\ sent[r] = FALSE /\ result[r] \in SUBSET Versions /\ AtMostOne(result[r])
      /\ KeyOf[r] \notin lost => \A v \in result[r] : v >= floor[r]
  BY <1>1, <1>3, InHand DEF SoundAs
<1>5. ASSUME Return(r, result[r]) PROVE Inv'
  <2>1. PICK res \in SUBSET Versions : res = result[r]
    BY <1>4
  <2> QED
    BY <1>1, <1>4, <1>5, <2>1, Returns
<1>6. ASSUME Goto(r, "spawn"), UNCHANGED <<result, fence, sent>> PROVE Inv'
  <2>1. SoundAs(r, "spawn", fence[r], result[r], sent[r])
    <3>1. SoundAs(r, wpc[r], fence[r], result[r], sent[r])
      BY <1>1, InHand
    <3> QED
      BY <1>1, <1>3, <1>4, <3>1 DEF SoundAs
  <2>2. UNCHANGED <<entries, leader, floor, fence, result, sent>>
    BY <1>2, <1>6
  <2> QED
    BY <1>1, <1>2, <1>3, <1>6, <2>1, <2>2, GoesOn
<1> QED
  BY <1>5, <1>6 DEF Allowed

\* The flight of the key is already led: the request returns all the same.
LEMMA SpawnBusyKeeps ==
  ASSUME Inv, NEW r \in Requests, SpawnRevalidation(r), leader[KeyOf[r]] # NoWorker
  PROVE  Inv'
<1>1. /\ r \in Workers /\ r \notin Keys /\ wpc[r] = "spawn" /\ Goto(r, "done")
      /\ UNCHANGED <<origin, hinted, cacheVars, leader, fence, result, sent, floor, refresherVars, lossVars>>
  BY Subjects DEF SpawnRevalidation, Workers, Goto
<1>2. WorldKept /\ UNCHANGED <<entries, leader, floor, fence, result, sent>> /\ cooldown' \subseteq Keys
  BY <1>1, AloneKeeps
<1>3. /\ "spawn" \notin Awake /\ "spawn" \in {"allowed", "spawn", "done"}
      /\ "done" \in Phases /\ "done" \notin Leading /\ "done" # "waiting"
      /\ "done" \notin Fetched /\ "done" \notin {"fence2", "io", "woken2"}
  BY SMTT(30) DEF Phases, Leading, Fetched, Awake
<1>4. SoundAs(r, "done", fence[r], result[r], sent[r])
  BY <1>1, <1>3, InHand DEF SoundAs
<1> QED
  BY <1>1, <1>2, <1>3, <1>4, GoesOn

\* The request joins a flight that is led.
LEMMA FollowKeeps ==
  ASSUME Inv, NEW r \in Requests, Begin(r), leader[KeyOf[r]] # NoWorker
  PROVE  Inv'
<1>1. /\ r \in Workers /\ r \notin Keys /\ wpc[r] = "begin" /\ Goto(r, "waiting") /\ Subject(r) = KeyOf[r]
      /\ UNCHANGED <<origin, hinted, cacheVars, leader, fence, result, sent, floor, refresherVars, lossVars>>
  BY Subjects DEF Begin, Workers
<1>2. WorldKept /\ UNCHANGED <<entries, leader, floor, fence, result, sent>> /\ cooldown' \subseteq Keys
  BY <1>1, AloneKeeps
<1>3. /\ "begin" \notin Awake /\ "waiting" \notin {"allowed", "spawn", "done"}
      /\ "waiting" \in Phases /\ "waiting" \notin Leading
      /\ "waiting" \notin Fetched /\ "waiting" \notin {"fence2", "io", "woken2"}
  BY SMTT(30) DEF Phases, Leading, Fetched, Awake
<1>4. SoundAs(r, "waiting", fence[r], result[r], sent[r])
  BY <1>1, <1>3, InHand DEF SoundAs
<1> QED
  BY <1>1, <1>2, <1>3, <1>4, GoesOn

\* A follower that was sent an outcome holds it under the leader's fence.
LEMMA SentFenced ==
  ASSUME Inv, NEW r \in Requests, sent[r], NEW v \in result[r]
  PROVE  /\ v \in Versions /\ Counted(KeyOf[r], v, fence[r].count)
         /\ KeyOf[r] \notin lost => Covered(KeyOf[r], v, EpochNumber(fence[r].epoch))
<1>1. r \in Workers /\ Subject(r) = KeyOf[r]
  BY Subjects DEF Workers
<1>2. SoundAs(r, wpc[r], fence[r], result[r], sent[r]) /\ result[r] \in SUBSET Versions
  BY <1>1, InHand
<1> QED
  BY <1>1, <1>2 DEF SoundAs

\* An outcome whose count has not moved is newer than any refresh that finished.
LEMMA WokenKeeps ==
  ASSUME Inv, NEW r \in Requests, Woken(r)
  PROVE  Inv'
<1>1. /\ r \in Workers /\ r \notin Keys /\ wpc[r] = "woken"
      /\ UNCHANGED <<origin, hinted, cacheVars, leader, floor, refresherVars, lossVars>>
  BY Subjects DEF Woken, Workers
<1>2. WorldKept /\ UNCHANGED <<entries, leader, floor>> /\ cooldown' \subseteq Keys
  BY <1>1, AloneKeeps
<1>3. /\ \A p \in {"get", "woken2"} :
           /\ p \in Phases /\ p \notin Leading /\ p # "waiting" /\ p \notin Fetched
           /\ p \notin {"fence2", "io"} /\ p \notin {"allowed", "spawn", "done"}
      /\ "woken2" \in Awake
  BY SMTT(30) DEF Phases, Leading, Fetched, Awake
<1>4. ASSUME NEW p \in {"get", "woken2"}, p = "woken2" <=> sent[r], Goto(r, p), UNCHANGED <<fence, result, sent>>
      PROVE  Inv'
  <2>1. SoundAs(r, p, fence[r], result[r], sent[r])
    <3>1. SoundAs(r, wpc[r], fence[r], result[r], sent[r])
      BY <1>1, InHand
    <3> QED
      BY <1>1, <1>3, <1>4, <3>1 DEF SoundAs
  <2>2. UNCHANGED <<entries, leader, floor, fence, result, sent>>
    BY <1>2, <1>4
  <2> QED
    BY <1>1, <1>2, <1>3, <1>4, <2>1, <2>2, GoesOn
<1>5. ASSUME sent[r], ~CountMoved(r), Return(r, result[r]) PROVE Inv'
  <2>1. \A v \in result[r] : v >= floor[r]
    <3> SUFFICES ASSUME NEW v \in result[r] PROVE v >= floor[r]
      OBVIOUS
    <3>1. v \in Versions /\ Counted(KeyOf[r], v, fence[r].count)
      BY <1>5, SentFenced
    <3>2. refreshes = fence[r].count /\ refreshes \in Nat
      BY <1>5 DEF CountMoved, Inv, TypeOK
    <3>3. ~(v < hinted[KeyOf[r]])
      BY <3>1, <3>2, SMTT(30) DEF Counted
    <3> QED
      BY <3>1, <3>3, NewEnough
  <2>2. PICK res \in SUBSET Versions : res = result[r] /\ AtMostOne(res)
    BY <1>1, InHand
  <2> QED
    BY <1>1, <1>5, <2>1, <2>2, Returns
<1>6. "get" \in {"get", "woken2"} /\ "woken2" \in {"get", "woken2"} /\ "woken2" # "get"
  BY SMTT(30)
<1> QED
  BY <1>4, <1>5, <1>6 DEF Woken

\* The count moved for other keys: the fence of this one is where the leader found it.
LEMMA WokenFenceKeeps ==
  ASSUME Inv, NEW r \in Requests, WokenFence(r)
  PROVE  Inv'
<1>1. /\ r \in Workers /\ r \notin Keys /\ Subject(r) = KeyOf[r] /\ KeyOf[r] \in Keys
      /\ UNCHANGED <<origin, hinted, cacheVars, leader, floor, refresherVars, lossVars>>
  BY Subjects DEF WokenFence, Workers
<1>2. WorldKept /\ UNCHANGED <<entries, leader, floor>> /\ cooldown' \subseteq Keys
  BY <1>1, AloneKeeps
<1>3. ASSUME sent[r], ~FenceMoved(r), Return(r, result[r]) PROVE Inv'
  <2>1. KeyOf[r] \notin lost => \A v \in result[r] : v >= floor[r]
    <3> SUFFICES ASSUME KeyOf[r] \notin lost, NEW v \in result[r] PROVE v >= floor[r]
      OBVIOUS
    <3>1. PICK n \in Nat : n = Epoch(KeyOf[r])
      BY <1>1, Numbers DEF Inv
    <3>2. EpochNumber(fence[r].epoch) = n
      BY <1>1, <1>3, <3>1 DEF FenceMoved, Epoch
    <3>3. v \in Versions /\ Covered(KeyOf[r], v, n)
      BY <1>3, <3>2, SentFenced
    <3> QED
      BY <3>1, <3>3, Current
  <2>2. PICK res \in SUBSET Versions : res = result[r] /\ AtMostOne(res)
    BY <1>1, InHand
  <2> QED
    BY <1>1, <1>3, <2>1, <2>2, Returns
<1>4. sent[r]
  BY <1>1, InHand DEF SoundAs, WokenFence
<1>5. ASSUME Goto(r, "get"), result' = [result EXCEPT ![r] = {}],
             fence' = [fence EXCEPT ![r] = NoFence], sent' = [sent EXCEPT ![r] = FALSE]
      PROVE  Inv'
  <2>1. Move(r, "get", NoFence, {}, FALSE) /\ "get" \in {"done", "get", "gone"} /\ "get" # "done"
    BY <1>5, SMTT(30) DEF Move, Goto
  <2>2. {} \in SUBSET Versions /\ AtMostOne({})
    BY DEF AtMostOne
  <2> QED
    BY <1>2, <2>1, <2>2, LetsGo
<1> QED
  BY <1>3, <1>4, <1>5 DEF WokenFence

\* The request is dropped while it does not lead.
LEMMA CancelFollowerKeeps ==
  ASSUME Inv, NEW r \in Requests, Cancel(r), leader[KeyOf[r]] # r
  PROVE  Inv'
<1>1. /\ Goto(r, "gone") /\ fence' = [fence EXCEPT ![r] = NoFence]
      /\ result' = [result EXCEPT ![r] = {}] /\ sent' = [sent EXCEPT ![r] = FALSE]
      /\ UNCHANGED <<origin, hinted, cacheVars, leader, floor, refresherVars, lossVars>>
  BY DEF Cancel
<1>2. WorldKept /\ UNCHANGED <<entries, leader, floor>> /\ cooldown' \subseteq Keys
  BY <1>1, AloneKeeps
<1>3. Move(r, "gone", NoFence, {}, FALSE) /\ "gone" \in {"done", "get", "gone"} /\ "gone" # "done"
  BY <1>1, SMTT(30) DEF Move, Goto
<1>4. {} \in SUBSET Versions /\ AtMostOne({})
  BY DEF AtMostOne
<1> QED
  BY <1>2, <1>3, <1>4, LetsGo

\* A worker that leads was sent nothing.
LEMMA LeaderUnsent ==
  ASSUME Inv, NEW w \in Workers, wpc[w] \in Leading
  PROVE  sent[w] = FALSE /\ leader[Subject(w)] = w
<1>1. wpc[w] \notin Awake
  BY SMTT(30) DEF Leading, Awake
<1> QED
  BY <1>1, InHand DEF Inv, Led

\* What a leader goes to.
LEMMA LeadingPhases ==
  /\ \A p \in Leading : /\ p \in Phases /\ p # "waiting" /\ p # "woken2" /\ p \notin Awake
                        /\ p \notin {"allowed", "spawn", "done"}
  /\ Fetched \subseteq Leading /\ Revalidating \subseteq Leading
BY SMTT(30) DEF Leading, Phases, Awake, Fetched, Revalidating

\* A revalidation goes on only if the one entry of its key is stale.
LEMMA RecheckWantedKeeps ==
  ASSUME Inv, NEW w \in Workers, Recheck(w), StillWanted(w)
  PROVE  Inv'
<1>1. /\ wpc[w] = "recheck" /\ Goto(w, "fence")
      /\ UNCHANGED <<origin, hinted, cacheVars, leader, fence, result, sent, floor, refresherVars, lossVars>>
  BY DEF Recheck
<1>2. WorldKept /\ UNCHANGED <<entries, leader, floor, fence, result, sent>> /\ cooldown' \subseteq Keys
  BY <1>1, AloneKeeps
<1>3. /\ "recheck" \in Leading /\ "fence" \in Leading /\ "fence" \notin Fetched
      /\ "fence" \notin {"fence2", "io"}
  BY SMTT(30) DEF Leading, Fetched
<1>4. ASSUME w \in Keys PROVE \A e \in entries[w] : e.age # "fresh"
  <2>1. PICK d \in entries[w] : d.age = "stale"
    BY <1>4, Subjects DEF StillWanted, Lookup
  <2>2. AtMostOne(entries[w])
    BY <1>4 DEF Inv, TypeOK
  <2>3. \A e \in entries[w] : e = d
    BY <2>2 DEF AtMostOne
  <2>4. "stale" # "fresh"
    BY SMTT(30)
  <2> QED
    BY <2>1, <2>3, <2>4
<1>5. SoundAs(w, "fence", fence[w], result[w], sent[w])
  BY <1>1, <1>3, <1>4, LeaderUnsent, LeadingPhases DEF SoundAs
<1>6. "fence" \in Phases /\ "fence" # "waiting"
  BY <1>3, LeadingPhases
<1> QED
  BY <1>1, <1>2, <1>3, <1>5, <1>6, GoesOn

\* The epoch just read is not ahead of the cache.
LEMMA FenceEpochKeeps ==
  ASSUME Inv, NEW w \in Workers, FenceEpoch(w)
  PROVE  Inv'
<1>1. /\ wpc[w] = "fence" /\ Goto(w, "fence2") /\ fence' = [fence EXCEPT ![w].epoch = epochs[Subject(w)]]
      /\ UNCHANGED <<origin, hinted, cacheVars, leader, result, sent, floor, refresherVars, lossVars>>
  BY DEF FenceEpoch
<1>2. WorldKept /\ UNCHANGED <<entries, leader, floor>> /\ cooldown' \subseteq Keys
  BY <1>1, AloneKeeps
<1>3. /\ "fence" \in Leading /\ "fence" \in Revalidating /\ "fence2" \in Leading
      /\ "fence2" \notin Fetched /\ "fence2" # "io"
  BY SMTT(30) DEF Leading, Fetched, Revalidating
<1>4. PICK k \in Keys : k = Subject(w)
  BY Subjects
<1>5. PICK S \in SUBSET Nat : S = epochs[k] /\ AtMostOne(S)
  BY <1>4 DEF Inv, TypeOK
<1>6. PICK fn : fn = [fence[w] EXCEPT !.epoch = S]
  OBVIOUS
<1>7. fn \in Fences /\ fn.epoch = S
  <2>1. fence[w] \in Fences
    BY InHand
  <2> QED
    BY <1>6, <2>1, SMTT(30) DEF Fences
<1>8. PICK res \in SUBSET Versions, snt \in BOOLEAN :
         res = result[w] /\ snt = sent[w] /\ AtMostOne(res) /\ snt = FALSE
  BY <1>1, <1>3, InHand, LeaderUnsent
<1>9. Move(w, "fence2", fn, res, snt)
  <2>1. fence' = [fence EXCEPT ![w] = fn]
    BY <1>1, <1>4, <1>5, <1>6
  <2> QED
    BY <1>1, <1>8, <2>1, InHand DEF Move, Goto
<1>10. SoundAs(w, "fence2", fn, res, snt)
  <2>1. EpochNumber(fn.epoch) <= Epoch(Subject(w))
    <3>1. EpochNumber(fn.epoch) = Epoch(Subject(w)) /\ Epoch(Subject(w)) \in Nat
      BY <1>4, <1>5, <1>7, Numbers DEF Epoch, Inv
    <3> QED
      BY <3>1, SMTT(30)
  <2>2. w \in Keys => \A e \in entries[w] : e.age # "fresh"
    BY <1>1, <1>3, InHand DEF SoundAs
  <2> QED
    BY <1>3, <1>8, <2>1, <2>2, LeadingPhases DEF SoundAs
<1>11. "fence2" \in Phases /\ "fence2" # "waiting" /\ wpc[w] \in Leading /\ AtMostOne(fn.epoch)
  BY <1>1, <1>3, <1>5, <1>7, LeadingPhases
<1> QED
  BY <1>2, <1>3, <1>7, <1>8, <1>9, <1>10, <1>11, WorkerMoves

\* Nor is the count just read.
LEMMA FenceCountKeeps ==
  ASSUME Inv, NEW w \in Workers, FenceCount(w)
  PROVE  Inv'
<1>1. /\ wpc[w] = "fence2" /\ Goto(w, "io") /\ fence' = [fence EXCEPT ![w].count = refreshes]
      /\ UNCHANGED <<origin, hinted, cacheVars, leader, result, sent, floor, refresherVars, lossVars>>
  BY DEF FenceCount
<1>2. WorldKept /\ UNCHANGED <<entries, leader, floor>> /\ cooldown' \subseteq Keys
  BY <1>1, AloneKeeps
<1>3. /\ "fence2" \in Leading /\ "fence2" \in Revalidating /\ "io" \in Leading /\ "io" \notin Fetched
      /\ "fence2" \in {"fence2", "io"}
  BY SMTT(30) DEF Leading, Fetched, Revalidating
<1>4. PICK fn : fn = [fence[w] EXCEPT !.count = refreshes]
  OBVIOUS
<1>5. fn \in Fences /\ fn.epoch = fence[w].epoch /\ fn.count = refreshes /\ fn.count <= refreshes
  <2>1. fence[w] \in Fences /\ refreshes \in Nat
    BY InHand DEF Inv, TypeOK
  <2> QED
    BY <1>4, <2>1, SMTT(30) DEF Fences
<1>6. PICK res \in SUBSET Versions, snt \in BOOLEAN :
         res = result[w] /\ snt = sent[w] /\ AtMostOne(res) /\ snt = FALSE
  BY <1>1, <1>3, InHand, LeaderUnsent
<1>7. Move(w, "io", fn, res, snt)
  <2>1. fence' = [fence EXCEPT ![w] = fn]
    BY <1>1, <1>4
  <2> QED
    BY <1>1, <1>6, <2>1, InHand DEF Move, Goto
<1>8. SoundAs(w, "io", fn, res, snt)
  <2>1. Subject(w) \notin lost => EpochNumber(fn.epoch) <= Epoch(Subject(w))
    BY <1>1, <1>3, <1>5, InHand DEF SoundAs
  <2>2. w \in Keys => \A e \in entries[w] : e.age # "fresh"
    BY <1>1, <1>3, InHand DEF SoundAs
  <2> QED
    BY <1>3, <1>5, <1>6, <2>1, <2>2, LeadingPhases DEF SoundAs
<1>9. "io" \in Phases /\ "io" # "waiting" /\ wpc[w] \in Leading /\ AtMostOne(fn.epoch)
  BY <1>1, <1>3, <1>5, LeadingPhases, InHand
<1> QED
  BY <1>2, <1>3, <1>5, <1>6, <1>7, <1>8, <1>9, WorkerMoves

\* The origin's version of the moment is covered by any fence that is not ahead.
LEMMA OriginCovered ==
  ASSUME Inv, NEW k \in Keys
  PROVE  /\ \A n : n <= Epoch(k) => Covered(k, origin[k], n)
         /\ \A c : c <= refreshes => Counted(k, origin[k], c)
         /\ \A r \in Requests : KeyOf[r] = k => origin[k] >= floor[r]
<1>1. /\ origin[k] \in Versions /\ origin[k] \in Nat /\ hinted[k] \in Nat
      /\ \A f \in Refreshers : fversion[f] \in Nat
      /\ hinted[k] <= origin[k]
      /\ \A f \in Refreshers : KeyOf[f] = k => fversion[f] <= origin[k]
  <2>1. origin[k] \in Versions /\ hinted[k] \in Versions /\ \A f \in Refreshers : fversion[f] \in Versions
    BY DEF Inv, TypeOK
  <2>2. /\ hinted[k] <= origin[k]
        /\ \A f \in Refreshers : KeyOf[f] = k => fversion[f] <= origin[k]
    BY DEF Inv, Published
  <2>3. Versions \subseteq Nat
    BY Numbers DEF Inv
  <2> QED
    BY <2>1, <2>2, <2>3
<1>2. ~(origin[k] < hinted[k]) /\ \A f \in Refreshers : KeyOf[f] = k => ~(origin[k] < fversion[f])
  BY <1>1, SMTT(30)
<1>3. \A r \in Requests : KeyOf[r] = k => origin[k] >= floor[r]
  BY <1>1, <1>2, NewEnough
<1> QED
  BY <1>2, <1>3 DEF Covered, Counted

\* The origin answers after the fence was captured.
LEMMA OriginAnswersKeeps ==
  ASSUME Inv, NEW w \in Workers, OriginAnswers(w)
  PROVE  Inv'
<1>1. /\ wpc[w] = "io" /\ Goto(w, "put") /\ result' = [result EXCEPT ![w] = {origin[Subject(w)]}]
      /\ UNCHANGED <<origin, hinted, cacheVars, leader, fence, sent, floor, refresherVars, lossVars>>
  BY DEF OriginAnswers
<1>2. WorldKept /\ UNCHANGED <<entries, leader, floor>> /\ cooldown' \subseteq Keys
  BY <1>1, AloneKeeps
<1>3. /\ "io" \in Leading /\ "io" \in Revalidating /\ "put" \in Leading
      /\ "put" \notin {"fence2", "io"} /\ "io" \in {"fence2", "io"}
  BY SMTT(30) DEF Leading, Revalidating
<1>4. PICK k \in Keys : k = Subject(w)
  BY Subjects
<1>5. PICK v \in Versions : v = origin[k]
  BY DEF Inv, TypeOK
<1>6. PICK fn \in Fences, snt \in BOOLEAN :
         fn = fence[w] /\ snt = sent[w] /\ AtMostOne(fn.epoch) /\ snt = FALSE
  BY <1>1, <1>3, InHand, LeaderUnsent
<1>7. Move(w, "put", fn, {v}, snt)
  BY <1>1, <1>4, <1>5, <1>6, InHand DEF Move, Goto
<1>8. SoundAs(w, "put", fn, {v}, snt)
  <2>1. fn.count <= refreshes /\ (k \notin lost => EpochNumber(fn.epoch) <= Epoch(k))
    BY <1>1, <1>3, <1>4, <1>6, InHand DEF SoundAs
  <2>2. Counted(k, v, fn.count) /\ (k \notin lost => Covered(k, v, EpochNumber(fn.epoch)))
    BY <1>5, <2>1, OriginCovered
  <2>3. w \in Requests => v >= floor[w]
    BY <1>4, <1>5, OriginCovered, Subjects
  <2>4. w \in Keys => \A e \in entries[w] : e.age # "fresh"
    BY <1>1, <1>3, InHand DEF SoundAs
  <2> QED
    BY <1>3, <1>4, <1>6, <2>2, <2>3, <2>4, LeadingPhases DEF SoundAs
<1>9. "put" \in Phases /\ "put" # "waiting" /\ wpc[w] \in Leading /\ {v} \in SUBSET Versions /\ AtMostOne({v})
  BY <1>1, <1>3, LeadingPhases DEF AtMostOne
<1> QED
  BY <1>2, <1>3, <1>6, <1>7, <1>8, <1>9, WorkerMoves

\* A failed fetch has nothing to answer for.
LEMMA OriginFailsKeeps ==
  ASSUME Inv, NEW w \in Workers, OriginFails(w)
  PROVE  Inv'
<1>1. /\ wpc[w] = "io" /\ result' = [result EXCEPT ![w] = {}]
      /\ UNCHANGED <<origin, hinted, cacheVars, leader, fence, sent, floor, refresherVars, lossVars>>
  BY DEF OriginFails
<1>2. WorldKept /\ UNCHANGED <<entries, leader, floor>> /\ cooldown' \subseteq Keys
  BY <1>1, AloneKeeps
<1>3. PICK p \in {"failed", "publish"} : Goto(w, p)
  BY DEF OriginFails
<1>4. /\ "io" \in Leading /\ p \in Leading /\ p \notin {"fence2", "io"} /\ p \notin Revalidating
  BY SMTT(30) DEF Leading, Revalidating
<1>5. PICK fn \in Fences, snt \in BOOLEAN :
         fn = fence[w] /\ snt = sent[w] /\ AtMostOne(fn.epoch) /\ snt = FALSE
  BY <1>1, <1>4, InHand, LeaderUnsent
<1>6. Move(w, p, fn, {}, snt)
  BY <1>1, <1>3, <1>5, InHand DEF Move, Goto
<1>7. SoundAs(w, p, fn, {}, snt)
  BY <1>4, <1>5, LeadingPhases DEF SoundAs
<1>8. p \in Phases /\ p # "waiting" /\ wpc[w] \in Leading /\ {} \in SUBSET Versions /\ AtMostOne({})
  BY <1>1, <1>4, LeadingPhases DEF AtMostOne
<1> QED
  BY <1>2, <1>4, <1>5, <1>6, <1>7, <1>8, WorkerMoves

\* A leader that has fetched goes on with its answer.
LEMMA AnswerGoesOn ==
  ASSUME Inv, WorldKept, UNCHANGED <<entries, leader, floor, fence, result, sent>>,
         cooldown' \subseteq Keys, NEW w \in Workers, wpc[w] \in {"put", "put2"},
         NEW p \in {"put2", "store", "discard"}, Goto(w, p)
  PROVE  Inv'
<1>1. /\ wpc[w] \in Leading /\ wpc[w] \in Fetched /\ wpc[w] \in Revalidating
      /\ p \in Leading /\ p \notin {"fence2", "io"}
  BY SMTT(30) DEF Leading, Revalidating, Fetched
<1>2. p \in Phases /\ p # "waiting"
  BY <1>1, LeadingPhases
<1>3. SoundAs(w, wpc[w], fence[w], result[w], sent[w]) /\ sent[w] = FALSE
  BY <1>1, InHand, LeaderUnsent
<1>4. SoundAs(w, p, fence[w], result[w], sent[w])
  BY <1>1, <1>3, LeadingPhases DEF SoundAs
<1> QED
  BY <1>1, <1>2, <1>4, GoesOn

\* Neither check of the fence changes the answer.
LEMMA PutCheckKeeps ==
  ASSUME Inv, NEW w \in Workers, PutCheckCount(w) \/ PutCheckFence(w)
  PROVE  Inv'
<1>1. /\ WorldKept /\ UNCHANGED <<entries, leader, floor, fence, result, sent>>
      /\ cooldown' \subseteq Keys
  BY DEF PutCheckCount, PutCheckFence, WorldKept, cacheVars, refresherVars, lossVars, Inv, TypeOK
<1>2. PICK p \in {"put2", "store", "discard"} : Goto(w, p)
  BY DEF PutCheckCount, PutCheckFence
<1>3. wpc[w] \in {"put", "put2"}
  BY DEF PutCheckCount, PutCheckFence
<1> QED
  BY <1>1, <1>2, <1>3, AnswerGoesOn

\* A leader replaces the entry of its key by E and goes on to publish.
LEMMA LeaderWrites ==
  ASSUME Inv, WorldKept, UNCHANGED <<leader, floor, fence, result, sent>>,
         cooldown' \subseteq Keys, NEW w \in Workers, wpc[w] \in {"failed", "store", "discard"},
         Goto(w, "publish"), NEW E \in SUBSET Entries, AtMostOne(E),
         entries' = [entries EXCEPT ![Subject(w)] = E],
         Subject(w) \notin lost => \A e \in E : Covered(Subject(w), e.version, e.epoch)
  PROVE  Inv'
<1>1. /\ wpc[w] \in Leading /\ wpc[w] \in Fetched /\ "publish" \in Leading
      /\ "publish" \notin Revalidating /\ "publish" \in Phases /\ "publish" \notin {"fence2", "io"}
      /\ "publish" # "waiting" /\ "publish" # "woken2"
  BY SMTT(30) DEF Leading, Revalidating, Fetched, Phases
<1>2. PICK k \in Keys : k = Subject(w)
  BY Subjects
<1>3. sent[w] = FALSE /\ leader[k] = w
  BY <1>1, <1>2, LeaderUnsent
<1>4. /\ entries \in [Keys -> SUBSET Entries] /\ wpc \in [Workers -> Phases]
      /\ \A x \in Keys : AtMostOne(entries[x])
  BY DEF Inv, TypeOK
<1>5. /\ entries' \in [Keys -> SUBSET Entries] /\ wpc' \in [Workers -> Phases]
      /\ entries'[k] = E /\ (\A x \in Keys \ {k} : entries'[x] = entries[x])
      /\ wpc'[w] = "publish" /\ \A x \in Workers \ {w} : wpc'[x] = wpc[x]
  BY <1>1, <1>2, <1>4 DEF Goto
<1>6. \A x \in Keys : AtMostOne(entries'[x])
  BY <1>4, <1>5
<1>7. TypeOK'
  BY <1>5, <1>6 DEF Inv, TypeOK, WorldKept, Subject
<1>8. \A x, v, n : /\ Covered(x, v, n)' <=> Covered(x, v, n)
                   /\ Counted(x, v, n)' <=> Counted(x, v, n)
  BY WorldKeptForward DEF Inv
<1>9. EntriesCovered'
  <2> SUFFICES ASSUME NEW x \in Keys \ lost', NEW e \in entries'[x]
               PROVE  Covered(x, e.version, e.epoch)'
    BY DEF EntriesCovered
  <2>1. PICK v, n : v = e.version /\ n = e.epoch
    OBVIOUS
  <2>2. Covered(x, v, n)
    BY <1>2, <1>5, <2>1 DEF Inv, EntriesCovered, WorldKept
  <2>3. Covered(x, v, n)'
    BY <1>8, <2>2
  <2> QED
    BY <2>1, <2>3
<1>10. \A x \in Workers \ {w} : WorkerKept(x)
  BY <1>5 DEF WorkerKept
<1>11. ASSUME NEW x \in Keys \ {w}, wpc[x] \in Revalidating PROVE NoneFresher(x)
  <2>1. x \in Workers /\ wpc[x] \in Leading /\ Subject(x) = x
    BY <1>11, LeadingPhases, Subjects DEF Workers
  <2>2. leader[x] = x
    BY <2>1, LeaderUnsent
  <2>3. x # k
    BY <1>3, <2>2
  <2> QED
    BY <1>5, <2>3 DEF NoneFresher
<1>12. WorkerSound(w)'
  <2>1. AnswerFenced(w)'
    <3> SUFFICES ASSUME NEW v \in result[w]
                 PROVE  /\ k \notin lost => Covered(k, v, EpochNumber(fence[w].epoch))'
                        /\ Counted(k, v, fence[w].count)'
      BY <1>2 DEF AnswerFenced, Subject, Covered, Counted, WorldKept
    <3>1. PICK n, c : n = EpochNumber(fence[w].epoch) /\ c = fence[w].count
      OBVIOUS
    <3>2. Counted(k, v, c) /\ (k \notin lost => Covered(k, v, n))
      BY <1>1, <1>2, <3>1, InHand DEF SoundAs
    <3>3. Counted(k, v, c)' /\ (k \notin lost => Covered(k, v, n)')
      BY <1>8, <3>2
    <3> QED
      BY <3>1, <3>3 DEF Covered, Counted
  <2>2. w \in Requests => AnswerFresh(w)'
    BY <1>1, InHand DEF SoundAs, AnswerFresh
  <2> QED
    BY <1>1, <1>3, <1>5, <2>1, <2>2 DEF WorkerSound, FenceBehind, EntryStale
<1>13. WorldForward /\ Published' /\ UNCHANGED leader
  BY WorldKeptForward DEF Inv, Published, WorldKept
<1>14. /\ wpc'[w] \in Leading => wpc[w] \in Leading
       /\ wpc'[w] # "waiting" \/ leader[Subject(w)] # NoWorker
       /\ w \in Keys => wpc'[w] \in {"idle"} \cup Leading
  BY <1>1, <1>5
<1> QED
  BY <1>7, <1>9, <1>10, <1>11, <1>12, <1>13, <1>14, OneMoves

\* A failed revalidation keeps the entry, or drops one that is expired.
LEMMA MarkFailureKeeps ==
  ASSUME Inv, NEW k \in Keys, MarkFailure(k)
  PROVE  Inv'
<1>1. k \in Workers /\ Subject(k) = k /\ wpc[k] \in {"failed", "store", "discard"} /\ Goto(k, "publish")
  BY Subjects DEF MarkFailure, Workers
<1>2. WorldKept /\ UNCHANGED <<leader, floor, fence, result, sent>> /\ cooldown' \subseteq Keys
  BY DEF MarkFailure, WorldKept, refresherVars, lossVars, Inv, TypeOK
<1>3. PICK E : entries' = [entries EXCEPT ![k] = E] /\ (E = {} \/ E = entries[k])
  BY DEF MarkFailure
<1>4. E \in SUBSET Entries /\ AtMostOne(E)
  BY <1>3 DEF Inv, TypeOK, AtMostOne
<1>5. k \notin lost => \A e \in E : Covered(k, e.version, e.epoch)
  BY <1>3 DEF Inv, EntriesCovered
<1> QED
  BY <1>1, <1>2, <1>3, <1>4, <1>5, LeaderWrites

\* The stored entry carries the epoch of the fence it was fetched under.
LEMMA StoreKeeps ==
  ASSUME Inv, NEW w \in Workers, Store(w)
  PROVE  Inv'
<1>1. wpc[w] \in {"failed", "store", "discard"} /\ Goto(w, "publish") /\ wpc[w] = "store"
  BY DEF Store
<1>2. WorldKept /\ UNCHANGED <<leader, floor, fence, result, sent>> /\ cooldown' \subseteq Keys
  BY DEF Store, WorldKept, refresherVars, lossVars, Inv, TypeOK
<1>3. ASSUME NEW v \in result[w],
             entries' = [entries EXCEPT ![Subject(w)] =
                {[version |-> v, epoch |-> EpochNumber(fence[w].epoch), age |-> "fresh"]}]
      PROVE  Inv'
  <2>1. v \in Versions /\ EpochNumber(fence[w].epoch) \in Nat
    BY Numbers DEF Inv
  <2>2. PICK n \in Nat : n = EpochNumber(fence[w].epoch)
    BY <2>1
  <2>3. PICK e : e = [version |-> v, epoch |-> n, age |-> "fresh"]
    OBVIOUS
  <2>4. e \in Entries /\ e.version = v /\ e.epoch = n
    BY <2>1, <2>3, SMTT(30) DEF Entries
  <2>5. {e} \in SUBSET Entries /\ AtMostOne({e})
    BY <2>4 DEF AtMostOne
  <2>6. "store" \in Fetched
    BY SMTT(30) DEF Fetched
  <2>7. Subject(w) \notin lost => Covered(Subject(w), v, n)
    BY <1>1, <2>2, <2>6, InHand DEF SoundAs
  <2>8. Subject(w) \notin lost => \A d \in {e} : Covered(Subject(w), d.version, d.epoch)
    BY <2>4, <2>7
  <2>9. entries' = [entries EXCEPT ![Subject(w)] = {e}]
    BY <1>3, <2>2, <2>3
  <2> QED
    BY <1>1, <1>2, <2>5, <2>8, <2>9, LeaderWrites
<1>4. ASSUME entries' = [entries EXCEPT ![Subject(w)] = {}] PROVE Inv'
  <2>1. {} \in SUBSET Entries /\ AtMostOne({}) /\ \A d \in {} : Covered(Subject(w), d.version, d.epoch)
    BY DEF AtMostOne
  <2> QED
    BY <1>1, <1>2, <1>4, <2>1, LeaderWrites
<1> QED
  BY <1>3, <1>4 DEF Store

\* A superseded answer is not stored.
LEMMA DiscardKeeps ==
  ASSUME Inv, NEW w \in Workers, Discard(w)
  PROVE  Inv'
<1>1. wpc[w] \in {"failed", "store", "discard"} /\ Goto(w, "publish")
  BY DEF Discard
<1>2. WorldKept /\ UNCHANGED <<leader, floor, fence, result, sent>> /\ cooldown' \subseteq Keys
  BY DEF Discard, WorldKept, refresherVars, lossVars, Inv, TypeOK
<1>3. {} \in SUBSET Entries /\ AtMostOne({}) /\ \A d \in {} : Covered(Subject(w), d.version, d.epoch)
  BY DEF AtMostOne
<1>4. entries' = [entries EXCEPT ![Subject(w)] = {}]
  BY DEF Discard
<1> QED
  BY <1>1, <1>2, <1>3, <1>4, LeaderWrites

\* Flights begin and end: every worker is sound where the step leaves it.
LEMMA FlightsMove ==
  ASSUME Inv, TypeOK', WorldKept, UNCHANGED <<entries, floor>>, Led',
         \A x \in Workers : SoundAs(x, wpc'[x], fence'[x], result'[x], sent'[x])
  PROVE  Inv'
<1>1. ASSUME NEW x \in Workers PROVE WorkerSound(x)'
  <2>1. PICK p, fn, res, snt : wpc'[x] = p /\ fence'[x] = fn /\ result'[x] = res /\ sent'[x] = snt
    OBVIOUS
  <2>2. SoundAs(x, p, fn, res, snt)
    BY <2>1
  <2> QED
    BY <2>1, <2>2, AsSound
<1>2. WorldForward
  BY WorldKeptForward DEF Inv
<1>3. EntriesCovered'
  BY <1>2, EntriesStay
<1>4. Published'
  BY DEF Inv, Published, WorldKept
<1> QED
  BY <1>1, <1>3, <1>4 DEF Inv

\* A worker takes the free flight of a key; a request that saw it stale returns.
LEMMA LeadKeeps ==
  ASSUME Inv, WorldKept, UNCHANGED <<entries, floor, fence, result, sent>>, cooldown' \subseteq Keys,
         NEW k \in Keys, NEW l \in Workers, Subject(l) = k, leader[k] = NoWorker,
         leader' = [leader EXCEPT ![k] = l], wpc' \in [Workers -> Phases], wpc'[l] = "recheck",
         wpc[l] \notin Awake,
         \A x \in Workers \ {l} : \/ wpc'[x] = wpc[x]
                                  \/ x \in Requests /\ wpc[x] = "spawn" /\ wpc'[x] = "done"
  PROVE  Inv'
<1>1. leader \in [Keys -> Workers \cup {NoWorker}] /\ l # NoWorker
  BY ProviderCacheAssumption DEF Inv, TypeOK, ProviderCacheAssumption, Workers
<1>2. /\ leader' \in [Keys -> Workers \cup {NoWorker}] /\ leader'[k] = l
      /\ \A x \in Keys \ {k} : leader'[x] = leader[x]
  BY <1>1
<1>3. \A x \in Keys : leader'[x] # NoWorker => Subject(leader'[x]) = x
  BY <1>2 DEF Inv, TypeOK
<1>4. TypeOK'
  BY <1>2, <1>3 DEF Inv, TypeOK, WorldKept, Subject
<1>5. /\ "done" \notin Leading /\ "done" # "waiting" /\ "done" \notin Fetched
      /\ "done" \notin {"fence2", "io"} /\ "done" # "woken2" /\ "spawn" \notin Awake
      /\ "recheck" \in Leading /\ "recheck" \notin Fetched /\ "recheck" \notin {"fence2", "io"}
      /\ "recheck" \notin Revalidating /\ "spawn" \in {"allowed", "spawn", "done"}
  BY SMTT(30) DEF Leading, Fetched, Awake, Revalidating
<1>6. ASSUME NEW x \in Workers, wpc'[x] \in Leading PROVE leader'[Subject(x)] = x
  <2>1. CASE x = l
    BY <1>2, <2>1
  <2>2. CASE x # l
    <3>1. wpc[x] \in Leading
      BY <1>5, <1>6, <2>2
    <3>2. leader[Subject(x)] = x /\ Subject(x) \in Keys /\ x # NoWorker
      BY <3>1, LeaderUnsent, Subjects, ProviderCacheAssumption DEF ProviderCacheAssumption, Workers
    <3> QED
      BY <1>2, <3>2
  <2> QED
    BY <2>1, <2>2
<1>7. ASSUME NEW r \in Requests, wpc'[r] = "waiting" PROVE leader'[KeyOf[r]] # NoWorker
  <2>1. r \in Workers /\ KeyOf[r] \in Keys
    BY Subjects
  <2>2. "recheck" # "waiting"
    BY SMTT(30)
  <2>3. wpc[r] = "waiting"
    BY <1>5, <1>7, <2>1, <2>2
  <2>4. leader[KeyOf[r]] # NoWorker
    BY <2>3 DEF Inv, Led, FollowersLed
  <2> QED
    BY <1>1, <1>2, <2>1, <2>4
<1>8. ASSUME NEW x \in Keys PROVE wpc'[x] \in {"idle"} \cup Leading
  <2>1. x \in Workers /\ x \notin Requests
    BY ProviderCacheAssumption DEF Workers, ProviderCacheAssumption
  <2>2. wpc[x] \in {"idle"} \cup Leading
    BY DEF Inv, Led
  <2> QED
    BY <1>5, <2>1, <2>2
<1>9. Led'
  BY <1>6, <1>7, <1>8 DEF Led, FollowersLed, Subject
<1>10. ASSUME NEW x \in Workers PROVE SoundAs(x, wpc'[x], fence'[x], result'[x], sent'[x])
  <2>1. SoundAs(x, wpc[x], fence[x], result[x], sent[x]) /\ (wpc[x] \notin Awake => sent[x] = FALSE)
    BY InHand
  <2>2. CASE x = l
    BY <1>5, <2>1, <2>2, LeadingPhases DEF SoundAs
  <2>3. CASE x # l /\ wpc'[x] = wpc[x]
    BY <2>1, <2>3
  <2>4. CASE x \in Requests /\ wpc[x] = "spawn" /\ wpc'[x] = "done"
    BY <1>5, <2>1, <2>4, Subjects DEF SoundAs
  <2> QED
    BY <2>2, <2>3, <2>4
<1> QED
  BY <1>4, <1>9, <1>10, FlightsMove

\* The background task of an idle key takes its flight.
LEMMA SpawnFreeKeeps ==
  ASSUME Inv, NEW r \in Requests, SpawnRevalidation(r), leader[KeyOf[r]] = NoWorker
  PROVE  Inv'
<1>1. /\ r \in Workers /\ r \notin Keys /\ wpc[r] = "spawn"
      /\ wpc' = [wpc EXCEPT ![r] = "done", ![KeyOf[r]] = "recheck"]
      /\ leader' = [leader EXCEPT ![KeyOf[r]] = KeyOf[r]]
      /\ UNCHANGED <<origin, hinted, cacheVars, fence, result, sent, floor, refresherVars, lossVars>>
  BY Subjects DEF SpawnRevalidation, Workers
<1>2. WorldKept /\ UNCHANGED <<entries, floor, fence, result, sent>> /\ cooldown' \subseteq Keys
  BY <1>1, AloneKeeps
<1>3. PICK k \in Keys : k = KeyOf[r] /\ k \in Workers /\ Subject(k) = k
  <2>1. KeyOf[r] \in Keys
    BY <1>1, Subjects
  <2> QED
    BY <2>1, Subjects DEF Workers
<1>4. "done" \in Phases /\ "recheck" \in Phases /\ "idle" \notin Awake
  BY SMTT(30) DEF Phases, Awake
<1>5. wpc \in [Workers -> Phases] /\ r # k
  BY <1>1 DEF Inv, TypeOK
<1>6. /\ wpc' \in [Workers -> Phases] /\ wpc'[k] = "recheck" /\ wpc'[r] = "done"
      /\ \A x \in Workers : x = k \/ x = r \/ wpc'[x] = wpc[x]
  BY <1>1, <1>3, <1>4, <1>5
<1>7. wpc[k] \notin Awake
  BY <1>4, LeadingPhases DEF Inv, Led
<1>8. \A x \in Workers \ {k} : \/ wpc'[x] = wpc[x]
                               \/ x \in Requests /\ wpc[x] = "spawn" /\ wpc'[x] = "done"
  BY <1>1, <1>6
<1> QED
  BY <1>1, <1>2, <1>3, <1>6, <1>7, <1>8, LeadKeeps

\* A request takes the free flight of its key.
LEMMA BeginLeadKeeps ==
  ASSUME Inv, NEW r \in Requests, Begin(r), leader[KeyOf[r]] = NoWorker
  PROVE  Inv'
<1>1. /\ r \in Workers /\ wpc[r] = "begin" /\ wpc' = [wpc EXCEPT ![r] = "recheck"]
      /\ leader' = [leader EXCEPT ![KeyOf[r]] = r]
      /\ UNCHANGED <<origin, hinted, cacheVars, fence, result, sent, floor, refresherVars, lossVars>>
  BY DEF Begin, Workers, Goto
<1>2. WorldKept /\ UNCHANGED <<entries, floor, fence, result, sent>> /\ cooldown' \subseteq Keys
  BY <1>1, AloneKeeps
<1>3. PICK k \in Keys : k = KeyOf[r] /\ Subject(r) = k
  BY <1>1, Subjects
<1>4. "recheck" \in Phases /\ "begin" \notin Awake
  BY SMTT(30) DEF Phases, Awake
<1>5. wpc \in [Workers -> Phases]
  BY DEF Inv, TypeOK
<1>6. /\ wpc' \in [Workers -> Phases] /\ wpc'[r] = "recheck" /\ wpc[r] \notin Awake
      /\ \A x \in Workers \ {r} : wpc'[x] = wpc[x]
  BY <1>1, <1>4, <1>5
<1> QED
  BY <1>1, <1>2, <1>3, <1>6, LeadKeeps

\* A leader ends its flight at p: its followers wake, told its outcome if it publishes.
LEMMA DropKeeps ==
  ASSUME Inv, UNCHANGED <<origin, hinted, cacheVars, floor, refresherVars, lossVars>>,
         NEW w \in Workers, leader[Subject(w)] = w, NEW p \in {"idle", "get", "done", "gone"},
         NEW publishes \in BOOLEAN, DropGuard(w, p, publishes),
         publishes => wpc[w] = "publish", p = "done" => wpc[w] = "publish",
         w \in Keys => p = "idle"
  PROVE  Inv'
<1>1. WorldKept /\ UNCHANGED <<entries, floor>> /\ cooldown' \subseteq Keys
  BY AloneKeeps
<1>2. PICK k \in Keys : k = Subject(w) /\ leader[k] = w
  BY Subjects
<1> DEFINE woken == Followers(k)
           told == IF publishes THEN woken ELSE {}
<1>3. /\ leader' = [leader EXCEPT ![k] = NoWorker]
      /\ wpc' = [x \in Workers |-> IF x = w THEN p ELSE IF x \in woken THEN "woken" ELSE wpc[x]]
      /\ sent' = [x \in Workers |-> x \in told \/ (x # w /\ sent[x])]
      /\ fence' = [x \in Workers |-> IF x = w THEN NoFence ELSE IF x \in told THEN fence[w] ELSE fence[x]]
      /\ result' = [x \in Workers |-> IF x \in told THEN result[w]
                                      ELSE IF x = w /\ p # "done" THEN {} ELSE result[x]]
  BY <1>2 DEF DropGuard
<1>4. /\ p \in Phases /\ p \notin Leading /\ p # "waiting" /\ p \notin Fetched /\ p # "woken2"
      /\ p \notin {"fence2", "io"} /\ p \notin {"allowed", "spawn"} /\ p \notin Revalidating
      /\ "woken" \in Phases /\ "woken" \notin Leading /\ "woken" # "waiting" /\ "woken" \notin Fetched
      /\ "woken" \notin {"fence2", "io", "woken2"} /\ "woken" \notin {"allowed", "spawn", "done"}
      /\ "woken" \in Awake /\ "waiting" \notin Awake /\ "publish" # "waiting" /\ "publish" \in Fetched
  BY SMTT(30) DEF Phases, Leading, Fetched, Awake, Revalidating
<1>5. /\ woken \subseteq Requests /\ w \notin told
      /\ \A x \in woken : /\ wpc[x] = "waiting" /\ x \in Workers /\ Subject(x) = k /\ KeyOf[x] = k
                          /\ x \notin Keys /\ sent[x] = FALSE
  <2>1. \A x \in woken : x \in Requests /\ wpc[x] = "waiting" /\ KeyOf[x] = k
    BY DEF Followers
  <2>2. \A x \in woken : x \in Workers /\ Subject(x) = k /\ x \notin Keys
    BY <2>1, Subjects DEF Workers
  <2>3. \A x \in woken : sent[x] = FALSE
    BY <1>4, <2>1, <2>2, InHand
  <2>4. w \notin told
    BY <1>4, <2>1
  <2> QED
    BY <2>1, <2>2, <2>3, <2>4
<1> HIDE DEF woken, told
<1>6. told \subseteq woken /\ (told # {} => wpc[w] = "publish")
  BY DEF told
<1>7. \A x \in Workers :
         /\ wpc'[x] = IF x = w THEN p ELSE IF x \in woken THEN "woken" ELSE wpc[x]
         /\ sent'[x] = (x \in told \/ (x # w /\ sent[x]))
         /\ fence'[x] = IF x = w THEN NoFence ELSE IF x \in told THEN fence[w] ELSE fence[x]
         /\ result'[x] = IF x \in told THEN result[w]
                         ELSE IF x = w /\ p # "done" THEN {} ELSE result[x]
  BY <1>3
<1>8. TypeOK'
  <2>1. NoFence \in Fences /\ AtMostOne(NoFence.epoch) /\ {} \in SUBSET Versions /\ AtMostOne({})
    BY SMTT(30) DEF NoFence, Fences, AtMostOne
  <2>2. \A x \in Workers : /\ wpc'[x] \in Phases /\ sent'[x] \in BOOLEAN
                           /\ fence'[x] \in Fences /\ AtMostOne(fence'[x].epoch)
                           /\ result'[x] \in SUBSET Versions /\ AtMostOne(result'[x])
    <3> SUFFICES ASSUME NEW x \in Workers
                 PROVE  /\ wpc'[x] \in Phases /\ sent'[x] \in BOOLEAN
                        /\ fence'[x] \in Fences /\ AtMostOne(fence'[x].epoch)
                        /\ result'[x] \in SUBSET Versions /\ AtMostOne(result'[x])
      OBVIOUS
    <3>1. wpc'[x] \in Phases /\ sent'[x] \in BOOLEAN
      BY <1>4, <1>7, InHand
    <3>2. fence'[x] \in Fences /\ AtMostOne(fence'[x].epoch)
      <4>1. fence'[x] = NoFence \/ fence'[x] = fence[w] \/ fence'[x] = fence[x]
        BY <1>7
      <4> QED
        BY <2>1, <4>1, InHand
    <3>3. result'[x] \in SUBSET Versions /\ AtMostOne(result'[x])
      <4>1. result'[x] = {} \/ result'[x] = result[w] \/ result'[x] = result[x]
        BY <1>7
      <4> QED
        BY <2>1, <4>1, InHand
    <3> QED
      BY <3>1, <3>2, <3>3
  <2>3. /\ wpc' \in [Workers -> Phases] /\ sent' \in [Workers -> BOOLEAN]
        /\ fence' \in [Workers -> Fences] /\ result' \in [Workers -> SUBSET Versions]
    <3>1. /\ wpc' = [x \in Workers |-> wpc'[x]] /\ sent' = [x \in Workers |-> sent'[x]]
          /\ fence' = [x \in Workers |-> fence'[x]] /\ result' = [x \in Workers |-> result'[x]]
      BY <1>3
    <3> QED
      BY <2>2, <3>1
  <2>4. /\ leader' \in [Keys -> Workers \cup {NoWorker}]
        /\ \A x \in Keys : leader'[x] # NoWorker => Subject(leader'[x]) = x
    BY <1>3 DEF Inv, TypeOK
  <2> QED
    BY <1>1, <2>2, <2>3, <2>4 DEF Inv, TypeOK, WorldKept, Subject
<1>9. /\ leader'[k] = NoWorker
      /\ \A x \in Keys \ {k} : leader'[x] = leader[x]
  BY <1>3 DEF Inv, TypeOK
<1>10. ASSUME NEW x \in Workers, wpc'[x] \in Leading PROVE leader'[Subject(x)] = x
  <2>1. x # w /\ wpc[x] \in Leading
    BY <1>4, <1>7, <1>10
  <2>2. leader[Subject(x)] = x /\ Subject(x) \in Keys
    BY <2>1, LeaderUnsent, Subjects
  <2> QED
    BY <1>2, <1>9, <2>1, <2>2
<1>11. ASSUME NEW r \in Requests, wpc'[r] = "waiting" PROVE leader'[KeyOf[r]] # NoWorker
  <2>1. r \in Workers /\ KeyOf[r] \in Keys
    BY Subjects
  <2>2. r \notin woken /\ wpc[r] = "waiting"
    BY <1>4, <1>7, <1>11, <2>1
  <2>3. KeyOf[r] # k
    BY <2>2 DEF woken, Followers
  <2>4. leader[KeyOf[r]] # NoWorker
    BY <2>2 DEF Inv, Led, FollowersLed
  <2> QED
    BY <1>9, <2>1, <2>3, <2>4
<1>12. ASSUME NEW x \in Keys PROVE wpc'[x] \in {"idle"} \cup Leading
  <2>1. x \in Workers /\ x \notin woken
    BY <1>5 DEF Workers
  <2>2. wpc[x] \in {"idle"} \cup Leading
    BY DEF Inv, Led
  <2> QED
    BY <1>7, <2>1, <2>2
<1>13. Led'
  BY <1>10, <1>11, <1>12 DEF Led, FollowersLed, Subject
<1>14. ASSUME NEW x \in Workers PROVE SoundAs(x, wpc'[x], fence'[x], result'[x], sent'[x])
  <2>1. SoundAs(x, wpc[x], fence[x], result[x], sent[x]) /\ SoundAs(w, wpc[w], fence[w], result[w], sent[w])
    BY InHand
  <2>2. CASE x = w
    <3>1. wpc'[w] = p /\ sent'[w] = FALSE /\ (p = "done" => result'[w] = result[w])
      BY <1>5, <1>7
    <3>2. w \in Requests /\ p = "done" => \A v \in result[w] : v >= floor[w]
      BY <1>4, <2>1 DEF SoundAs
    <3> QED
      BY <1>4, <2>2, <3>1, <3>2 DEF SoundAs
  <2>3. CASE x # w /\ x \in told
    <3>1. /\ wpc'[x] = "woken" /\ sent'[x] = TRUE /\ fence'[x] = fence[w] /\ result'[x] = result[w]
          /\ Subject(x) = k /\ x \notin Keys /\ wpc[w] = "publish"
      BY <1>5, <1>6, <1>7, <2>3
    <3>2. \A v \in result[w] : /\ k \notin lost => Covered(k, v, EpochNumber(fence[w].epoch))
                               /\ Counted(k, v, fence[w].count)
      BY <1>2, <1>4, <2>1, <3>1 DEF SoundAs
    <3> QED
      BY <1>4, <3>1, <3>2 DEF SoundAs
  <2>4. CASE x # w /\ x \notin told /\ x \in woken
    <3>1. /\ wpc'[x] = "woken" /\ sent'[x] = FALSE /\ x \notin Keys
      BY <1>5, <1>7, <2>4
    <3> QED
      BY <1>4, <3>1 DEF SoundAs
  <2>5. CASE x # w /\ x \notin woken
    <3>1. /\ wpc'[x] = wpc[x] /\ fence'[x] = fence[x] /\ result'[x] = result[x] /\ sent'[x] = sent[x]
      BY <1>6, <1>7, <2>5, InHand
    <3> QED
      BY <2>1, <3>1
  <2> QED
    BY <1>6, <2>2, <2>3, <2>4, <2>5
<1> QED
  BY <1>1, <1>8, <1>13, <1>14, FlightsMove

\* A leader that finds nothing to do frees the flight and tells nobody anything.
LEMMA RecheckDropKeeps ==
  ASSUME Inv, NEW w \in Workers, Recheck(w), ~StillWanted(w)
  PROVE  Inv'
<1>1. /\ wpc[w] = "recheck" /\ DropGuard(w, IF w \in Keys THEN "idle" ELSE "get", FALSE)
      /\ UNCHANGED <<origin, hinted, cacheVars, floor, refresherVars, lossVars>>
  BY DEF Recheck
<1>2. "recheck" \in Leading /\ "get" # "done" /\ "idle" # "done"
  BY SMTT(30) DEF Leading
<1>3. PICK p \in {"idle", "get", "done", "gone"} :
         DropGuard(w, p, FALSE) /\ (w \in Keys => p = "idle") /\ p # "done"
  BY <1>1, <1>2
<1>4. leader[Subject(w)] = w
  BY <1>1, <1>2, LeaderUnsent
<1> QED
  BY <1>1, <1>3, <1>4, DropKeeps

\* The followers are sent the answer with the fence that covers it.
LEMMA PublishOutcomeKeeps ==
  ASSUME Inv, NEW w \in Workers, PublishOutcome(w)
  PROVE  Inv'
<1>1. /\ wpc[w] = "publish" /\ DropGuard(w, IF w \in Keys THEN "idle" ELSE "done", TRUE)
      /\ UNCHANGED <<origin, hinted, cacheVars, floor, refresherVars, lossVars>>
  BY DEF PublishOutcome
<1>2. "publish" \in Leading
  BY SMTT(30) DEF Leading
<1>3. PICK p \in {"idle", "get", "done", "gone"} : DropGuard(w, p, TRUE) /\ (w \in Keys => p = "idle")
  BY <1>1
<1>4. leader[Subject(w)] = w
  BY <1>1, <1>2, LeaderUnsent
<1> QED
  BY <1>1, <1>3, <1>4, DropKeeps

\* A leading request is dropped, and its guard with it.
LEMMA CancelLeaderKeeps ==
  ASSUME Inv, NEW r \in Requests, Cancel(r), leader[KeyOf[r]] = r
  PROVE  Inv'
<1>1. /\ DropGuard(r, "gone", FALSE)
      /\ UNCHANGED <<origin, hinted, cacheVars, floor, refresherVars, lossVars>>
  BY DEF Cancel
<1>2. "gone" # "done" /\ "gone" \in {"idle", "get", "done", "gone"}
  BY SMTT(30)
<1>3. r \in Workers /\ leader[Subject(r)] = r /\ r \notin Keys
  BY Subjects DEF Workers
<1> QED
  BY <1>1, <1>2, <1>3, DropKeeps

\* A request holds nothing when it comes in.
LEMMA StartKeeps ==
  ASSUME Inv, NEW r \in Requests, Start(r)
  PROVE  Inv'
<1>1. /\ r \in Workers /\ r \notin Keys /\ KeyOf[r] \in Keys /\ wpc[r] = "idle"
      /\ wpc' = [wpc EXCEPT ![r] = "get"] /\ floor' = [floor EXCEPT ![r] = hinted[KeyOf[r]]]
      /\ UNCHANGED <<origin, hinted, cacheVars, leader, fence, result, sent, refresherVars, lossVars>>
  BY Subjects DEF Start, Goto
<1>2. WorldKept /\ UNCHANGED <<entries, leader, fence, result, sent>> /\ cooldown' \subseteq Keys
  BY <1>1, AloneKeeps
<1>3. /\ "get" \in Phases /\ "get" \notin Leading /\ "get" # "waiting" /\ "get" \notin Fetched
      /\ "get" \notin {"fence2", "io"} /\ "get" # "woken2" /\ "get" \notin {"allowed", "spawn", "done"}
      /\ "idle" \notin Awake
  BY SMTT(30) DEF Phases, Leading, Fetched, Awake
<1>4. wpc \in [Workers -> Phases] /\ floor \in [Requests -> Versions] /\ hinted[KeyOf[r]] \in Versions
  BY <1>1 DEF Inv, TypeOK
<1>5. /\ wpc' \in [Workers -> Phases] /\ floor' \in [Requests -> Versions]
      /\ wpc'[r] = "get" /\ (\A x \in Workers \ {r} : wpc'[x] = wpc[x])
      /\ floor'[r] = hinted[KeyOf[r]] /\ \A x \in Requests \ {r} : floor'[x] = floor[x]
  BY <1>1, <1>3, <1>4
<1>6. TypeOK'
  BY <1>2, <1>5 DEF Inv, TypeOK, WorldKept, Subject
<1>7. WorldForward
  BY <1>2, WorldKeptForward DEF Inv
<1>8. EntriesCovered'
  BY <1>2, <1>7, EntriesStay
<1>9. Published'
  <2>1. hinted[KeyOf[r]] <= hinted[KeyOf[r]]
    <3>1. hinted[KeyOf[r]] \in Nat
      BY <1>4, Numbers DEF Inv
    <3> QED
      BY <3>1, SMTT(30)
  <2>2. \A x \in Requests : floor'[x] <= hinted[KeyOf[x]]
    BY <1>5, <2>1 DEF Inv, Published
  <2> QED
    BY <1>2, <2>2 DEF Inv, Published, WorldKept
<1>10. \A x \in Workers \ {r} : WorkerKept(x)
  BY <1>2, <1>5 DEF WorkerKept
<1>11. sent[r] = FALSE
  BY <1>1, <1>3, InHand
<1>12. WorkerSound(r)'
  BY <1>1, <1>2, <1>3, <1>5, <1>11 DEF WorkerSound, FenceBehind, AnswerFenced, AnswerFresh
<1>13. /\ wpc'[r] \in Leading => wpc[r] \in Leading
       /\ wpc'[r] # "waiting" \/ leader[Subject(r)] # NoWorker
       /\ r \in Keys => wpc'[r] \in {"idle"} \cup Leading
       /\ \A x \in Keys \ {r} : wpc[x] \in Revalidating => NoneFresher(x)
       /\ UNCHANGED leader
  BY <1>1, <1>2, <1>3, <1>5 DEF NoneFresher
<1> QED
  BY <1>1, <1>6, <1>7, <1>8, <1>9, <1>10, <1>12, <1>13, OneMoves
-----------------------------------------------------------------------------
(* The world around the workers. *)

\* No worker moves: what each holds stays sound when the fences move forward only.
LEMMA WorldMoves ==
  ASSUME Inv, TypeOK', WorldForward, Published', UNCHANGED <<leader, workerVars>>,
         \A k \in Keys : \A e \in entries'[k] :
            /\ \E d \in entries[k] : e.version = d.version /\ e.epoch = d.epoch
            /\ e.age = "fresh" => e \in entries[k]
  PROVE  Inv'
<1>1. \A x \in Workers : WorkerKept(x)
  BY DEF WorkerKept, workerVars
<1>2. \A k \in Keys : NoneFresher(k)
  BY DEF NoneFresher
<1>3. \A x \in Workers : WorkerSound(x)'
  BY <1>1, <1>2, KeptSound
<1>4. EntriesCovered'
  BY EntriesStay
<1>5. Led'
  BY DEF Inv, Led, FollowersLed, Subject, workerVars
<1> QED
  BY <1>3, <1>4, <1>5 DEF Inv

\* An entry that is left alone, dropped or aged.
LEMMA EntriesLeft ==
  ASSUME Inv, entries' = entries \/ \E k \in Keys : entries' = [entries EXCEPT ![k] = {}]
  PROVE  /\ entries' \in [Keys -> SUBSET Entries]
         /\ \A k \in Keys : entries'[k] \subseteq entries[k] /\ AtMostOne(entries'[k])
         /\ \A k \in Keys : \A e \in entries'[k] :
               /\ \E d \in entries[k] : e.version = d.version /\ e.epoch = d.epoch
               /\ e.age = "fresh" => e \in entries[k]
<1>1. entries \in [Keys -> SUBSET Entries] /\ \A k \in Keys : AtMostOne(entries[k])
  BY DEF Inv, TypeOK
<1>2. entries' \in [Keys -> SUBSET Entries] /\ \A k \in Keys : entries'[k] \subseteq entries[k]
  BY <1>1
<1> QED
  BY <1>1, <1>2 DEF AtMostOne

\* A publication at the origin makes no document older than a hint.
LEMMA PublishKeeps ==
  ASSUME Inv, NEW k \in Keys, Publish(k)
  PROVE  Inv'
<1>1. /\ origin \in [Keys -> Versions] /\ Versions \subseteq Nat /\ origin[k] \in Nat
      /\ MaxVersion \in Nat
  BY Numbers, ProviderCacheAssumption DEF Inv, TypeOK, ProviderCacheAssumption
<1>2. origin[k] + 1 \in Versions
  BY <1>1, SMTT(30) DEF Publish, Versions
<1>3. origin' = [origin EXCEPT ![k] = origin[k] + 1]
  BY DEF Publish
<1>4. origin' \in [Keys -> Versions]
  BY <1>1, <1>2, <1>3
<1>5. TypeOK'
  BY <1>4 DEF Publish, Inv, TypeOK, cacheVars, workerVars, refresherVars, lossVars, Subject
<1>6. \A x \in Keys : origin[x] <= origin'[x] /\ origin[x] \in Nat /\ origin'[x] \in Nat
  <2>1. \A x \in Keys : origin'[x] = IF x = k THEN origin[k] + 1 ELSE origin[x]
    BY <1>1, <1>3
  <2>2. \A x \in Keys : origin[x] \in Nat
    BY <1>1
  <2> QED
    BY <2>1, <2>2, SMTT(30)
<1>7. Published'
  <2>1. /\ \A x \in Keys : hinted[x] \in Nat /\ hinted[x] <= origin[x]
        /\ \A f \in Refreshers : fversion[f] \in Nat /\ fversion[f] <= origin[KeyOf[f]] /\ KeyOf[f] \in Keys
    BY Numbers, ProviderCacheAssumption DEF Inv, TypeOK, Published, ProviderCacheAssumption
  <2>2. /\ \A x \in Keys : hinted[x] <= origin'[x]
        /\ \A f \in Refreshers : fversion[f] <= origin'[KeyOf[f]]
    BY <1>6, <2>1, SMTT(30)
  <2> QED
    BY <2>2 DEF Publish, Inv, Published, refresherVars, workerVars
<1>8. WorldForward
  <2>1. /\ hinted' = hinted /\ epochs' = epochs /\ refreshes' = refreshes /\ fpc' = fpc
        /\ fepoch' = fepoch /\ fversion' = fversion /\ lost' = lost
    BY DEF Publish, cacheVars, refresherVars, lossVars
  <2>2. \A x, v, n : Covered(x, v, n)' <=> Covered(x, v, n)
    BY <2>1, SMTT(30) DEF Covered, Epoch
  <2>3. \A x, v, n : Counted(x, v, n)' <=> Counted(x, v, n)
    BY <2>1, SMTT(30) DEF Counted
  <2>4. \A x \in Keys : Epoch(x)' = Epoch(x) /\ Epoch(x) \in Nat
    BY <2>1, Numbers DEF Epoch, Inv
  <2>5. refreshes <= refreshes' /\ \A x \in Keys : Epoch(x) <= Epoch(x)'
    BY <2>1, <2>4, Numbers, SMTT(30) DEF Inv
  <2> QED
    BY <2>1, <2>2, <2>3, <2>5 DEF WorldForward
<1>9. entries' = entries /\ UNCHANGED <<leader, workerVars>>
  BY DEF Publish, cacheVars
<1> QED
  BY <1>5, <1>7, <1>8, <1>9, EntriesLeft, WorldMoves

\* What a step that touches no fence, count or refresher leaves covered.
LEMMA FencesKept ==
  ASSUME Inv, UNCHANGED <<hinted, epochs, refreshes, fpc, fepoch, fversion, lost>>
  PROVE  WorldForward
<1>1. \A x, v, n : Covered(x, v, n)' <=> Covered(x, v, n)
  BY SMTT(30) DEF Covered, Epoch
<1>2. \A x, v, n : Counted(x, v, n)' <=> Counted(x, v, n)
  BY SMTT(30) DEF Counted
<1>3. \A x \in Keys : Epoch(x)' = Epoch(x) /\ Epoch(x) \in Nat
  BY Numbers DEF Epoch, Inv
<1>4. refreshes <= refreshes' /\ \A x \in Keys : Epoch(x) <= Epoch(x)'
  BY <1>3, Numbers, SMTT(30) DEF Inv
<1> QED
  BY <1>1, <1>2, <1>4 DEF WorldForward

\* An entry is evicted, or a cooldown is over.
LEMMA EvictKeeps ==
  ASSUME Inv, NEW k \in Keys, Evict(k) \/ CooldownOver(k)
  PROVE  Inv'
<1>1. /\ UNCHANGED <<origin, hinted, epochs, refreshes, leader, workerVars, refresherVars, lossVars>>
      /\ entries' = entries \/ entries' = [entries EXCEPT ![k] = {}]
      /\ cooldown' \subseteq Keys
  BY DEF Evict, CooldownOver, Inv, TypeOK
<1>2. WorldForward
  BY <1>1, FencesKept DEF refresherVars, lossVars
<1>3. TypeOK'
  BY <1>1, EntriesLeft DEF Inv, TypeOK, workerVars, refresherVars, lossVars, Subject
<1>4. Published'
  BY <1>1 DEF Inv, Published, workerVars, refresherVars
<1> QED
  BY <1>1, <1>2, <1>3, <1>4, EntriesLeft, WorldMoves

\* An entry ages, and keeps its version and its epoch.
LEMMA AgeKeeps ==
  ASSUME Inv, NEW k \in Keys, Age(k)
  PROVE  Inv'
<1>1. /\ UNCHANGED <<origin, hinted, epochs, refreshes, cooldown, leader, workerVars, refresherVars, lossVars>>
  BY DEF Age
<1>2. PICK d \in entries[k], age \in {"stale", "expired"} :
         entries' = [entries EXCEPT ![k] = {[d EXCEPT !.age = age]}]
  BY DEF Age
<1>3. PICK e : e = [d EXCEPT !.age = age]
  OBVIOUS
<1>4. d \in Entries
  BY DEF Inv, TypeOK
<1>5. e \in Entries /\ e.version = d.version /\ e.epoch = d.epoch /\ e.age # "fresh"
  BY <1>3, <1>4, SMTT(30) DEF Entries
<1>6. entries \in [Keys -> SUBSET Entries] /\ \A x \in Keys : AtMostOne(entries[x])
  BY DEF Inv, TypeOK
<1>7. /\ entries' \in [Keys -> SUBSET Entries] /\ entries'[k] = {e}
      /\ \A x \in Keys \ {k} : entries'[x] = entries[x]
  BY <1>2, <1>3, <1>5, <1>6
<1>8. \A x \in Keys : AtMostOne(entries'[x])
  <2>1. AtMostOne({e})
    BY DEF AtMostOne
  <2> QED
    BY <1>6, <1>7, <2>1
<1>9. TypeOK'
  BY <1>1, <1>7, <1>8 DEF Inv, TypeOK, workerVars, refresherVars, lossVars, Subject
<1>10. WorldForward
  BY <1>1, FencesKept DEF refresherVars, lossVars
<1>11. Published'
  BY <1>1 DEF Inv, Published, workerVars, refresherVars
<1>12. \A x \in Keys : \A c \in entries'[x] :
         /\ \E b \in entries[x] : c.version = b.version /\ c.epoch = b.epoch
         /\ c.age = "fresh" => c \in entries[x]
  BY <1>5, <1>7
<1> QED
  BY <1>1, <1>9, <1>10, <1>11, <1>12, WorldMoves

\* The key's fence is gone: nothing is promised about it any more.
LEMMA LoseFenceKeeps ==
  ASSUME Inv, NEW k \in Keys, LoseFence(k)
  PROVE  Inv'
<1>1. /\ UNCHANGED <<origin, hinted, entries, refreshes, cooldown, leader, workerVars, refresherVars>>
      /\ epochs' = [epochs EXCEPT ![k] = {}] /\ lost' = lost \cup {k}
      /\ losses > 0 /\ losses' = losses - 1
  BY DEF LoseFence
<1>2. losses' \in Nat
  BY <1>1, SMTT(30) DEF Inv, TypeOK
<1>3. epochs \in [Keys -> SUBSET Nat] /\ \A x \in Keys : AtMostOne(epochs[x])
  BY DEF Inv, TypeOK
<1>4. /\ epochs' \in [Keys -> SUBSET Nat] /\ epochs'[k] = {}
      /\ \A x \in Keys \ {k} : epochs'[x] = epochs[x]
  BY <1>1, <1>3
<1>5. \A x \in Keys : AtMostOne(epochs'[x])
  BY <1>3, <1>4 DEF AtMostOne
<1>6. TypeOK'
  BY <1>1, <1>2, <1>4, <1>5 DEF Inv, TypeOK, workerVars, refresherVars, Subject
<1>7. WorldForward
  <2>1. \A x \in Keys \ lost' : epochs'[x] = epochs[x]
    BY <1>1, <1>4
  <2>2. \A x \in Keys \ lost' : Epoch(x)' = Epoch(x) /\ Epoch(x) \in Nat
    BY <2>1, Numbers DEF Epoch, Inv
  <2>3. \A x \in Keys \ lost', v \in Versions, n \in Nat : Covered(x, v, n) => Covered(x, v, n)'
    BY <1>1, <2>2, ZenonT(30) DEF Covered, refresherVars
  <2>4. \A x \in Keys, v \in Versions, n \in Nat : Counted(x, v, n) => Counted(x, v, n)'
    BY <1>1 DEF Counted, refresherVars
  <2>5. refreshes <= refreshes' /\ \A x \in Keys \ lost' : Epoch(x) <= Epoch(x)'
    BY <1>1, <2>2, Numbers, SMTT(30) DEF Inv
  <2> QED
    BY <1>1, <2>3, <2>4, <2>5 DEF WorldForward
<1>8. Published'
  BY <1>1 DEF Inv, Published, workerVars, refresherVars
<1> QED
  BY <1>1, <1>6, <1>7, <1>8, EntriesLeft, WorldMoves

\* The refresher's variables.
LEMMA RefresherTypes ==
  ASSUME Inv
  PROVE  /\ fpc \in [Refreshers -> {"idle", "count", "epoch", "insert", "drop", "done"}]
         /\ fepoch \in [Refreshers -> Nat] /\ fversion \in [Refreshers -> Versions]
         /\ \A f \in Refreshers : KeyOf[f] \in Keys
BY ProviderCacheAssumption DEF Inv, TypeOK, ProviderCacheAssumption

\* A hint is about the version the origin has.
LEMMA HintArrivesKeeps ==
  ASSUME Inv, NEW f \in Refreshers, HintArrives(f)
  PROVE  Inv'
<1>1. /\ fpc' = [fpc EXCEPT ![f] = "count"] /\ fversion' = [fversion EXCEPT ![f] = origin[KeyOf[f]]]
      /\ UNCHANGED <<origin, hinted, cacheVars, leader, workerVars, fepoch, lossVars>>
  BY DEF HintArrives
<1>2. origin[KeyOf[f]] \in Versions
  BY RefresherTypes DEF Inv, TypeOK
<1>3. /\ fpc' \in [Refreshers -> {"idle", "count", "epoch", "insert", "drop", "done"}]
      /\ fversion' \in [Refreshers -> Versions]
      /\ fpc'[f] = "count" /\ fversion'[f] = origin[KeyOf[f]]
      /\ \A g \in Refreshers \ {f} : fpc'[g] = fpc[g] /\ fversion'[g] = fversion[g]
  BY <1>1, <1>2, RefresherTypes
<1>4. TypeOK'
  BY <1>1, <1>3 DEF Inv, TypeOK, cacheVars, workerVars, lossVars, Subject
<1>5. Published'
  <2>1. origin[KeyOf[f]] <= origin[KeyOf[f]]
    <3>1. origin[KeyOf[f]] \in Nat
      BY <1>2, Numbers DEF Inv
    <3> QED
      BY <3>1, SMTT(30)
  <2>2. \A g \in Refreshers : fversion'[g] <= origin[KeyOf[g]]
    BY <1>3, <2>1 DEF Inv, Published
  <2> QED
    BY <1>1, <2>2 DEF Inv, Published, workerVars
<1>6. WorldForward
  <2>1. /\ hinted' = hinted /\ epochs' = epochs /\ refreshes' = refreshes /\ fepoch' = fepoch /\ lost' = lost
        /\ entries' = entries
    BY <1>1 DEF cacheVars, lossVars
  <2>2. "count" # "insert" /\ "count" # "drop" /\ "count" # "epoch"
    BY SMTT(30)
  <2>3. \A x \in Keys : Epoch(x)' = Epoch(x) /\ Epoch(x) \in Nat
    BY <2>1, Numbers DEF Epoch, Inv
  <2>4. \A x \in Keys \ lost', v \in Versions, n \in Nat : Covered(x, v, n) => Covered(x, v, n)'
    BY <1>3, <2>1, <2>2, <2>3, ZenonT(30) DEF Covered
  <2>5. \A x \in Keys, v \in Versions, n \in Nat : Counted(x, v, n) => Counted(x, v, n)'
    BY <1>3, <2>1, <2>2 DEF Counted
  <2>6. refreshes <= refreshes' /\ \A x \in Keys \ lost' : Epoch(x) <= Epoch(x)'
    BY <2>1, <2>3, Numbers, SMTT(30) DEF Inv
  <2> QED
    BY <2>1, <2>4, <2>5, <2>6 DEF WorldForward
<1>7. entries' = entries /\ UNCHANGED <<leader, workerVars>>
  BY <1>1 DEF cacheVars
<1> QED
  BY <1>4, <1>5, <1>6, <1>7, EntriesLeft, WorldMoves

\* Once the count is raised, it is past every fence captured before.
LEMMA RaiseCountKeeps ==
  ASSUME Inv, NEW f \in Refreshers, RaiseCount(f)
  PROVE  Inv'
<1>1. /\ refreshes' = refreshes + 1 /\ fpc' = [fpc EXCEPT ![f] = "epoch"]
      /\ UNCHANGED <<origin, hinted, entries, epochs, cooldown, leader, workerVars, fepoch, fversion, lossVars>>
  BY DEF RaiseCount
<1>2. refreshes \in Nat /\ refreshes' \in Nat /\ refreshes < refreshes' /\ refreshes <= refreshes'
  <2>1. refreshes \in Nat
    BY DEF Inv, TypeOK
  <2> QED
    BY <1>1, <2>1, SMTT(30)
<1>3. /\ fpc' \in [Refreshers -> {"idle", "count", "epoch", "insert", "drop", "done"}]
      /\ fpc'[f] = "epoch" /\ \A g \in Refreshers \ {f} : fpc'[g] = fpc[g]
  BY <1>1, RefresherTypes
<1>4. TypeOK'
  BY <1>1, <1>2, <1>3 DEF Inv, TypeOK, workerVars, lossVars, Subject
<1>5. Published'
  BY <1>1 DEF Inv, Published, workerVars
<1>6. WorldForward
  <2>1. \A x \in Keys : Epoch(x)' = Epoch(x) /\ Epoch(x) \in Nat
    BY <1>1, Numbers DEF Epoch, Inv
  <2>2. "epoch" # "insert" /\ "epoch" # "drop"
    BY SMTT(30)
  <2>3. \A x \in Keys \ lost', v \in Versions, n \in Nat : Covered(x, v, n) => Covered(x, v, n)'
    BY <1>1, <1>3, <2>1, <2>2, ZenonT(30) DEF Covered
  <2>4. ASSUME NEW x \in Keys, NEW v \in Versions, NEW n \in Nat, Counted(x, v, n) PROVE Counted(x, v, n)'
    <3>1. n <= refreshes
      BY <2>4 DEF Counted
    <3>2. n <= refreshes' /\ n < refreshes'
      BY <1>2, <3>1, SMTT(30)
    <3> QED
      BY <3>2 DEF Counted
  <2>5. \A x \in Keys \ lost' : Epoch(x) <= Epoch(x)'
    BY <2>1, SMTT(30)
  <2>6. lost' = lost
    BY <1>1 DEF lossVars
  <2> QED
    BY <1>2, <2>3, <2>4, <2>5, <2>6 DEF WorldForward
<1> QED
  BY <1>1, <1>4, <1>5, <1>6, EntriesLeft, WorldMoves

\* The epoch a refresher reads is not behind any fence captured before.
LEMMA ReadEpochKeeps ==
  ASSUME Inv, NEW f \in Refreshers, ReadEpoch(f)
  PROVE  Inv'
<1>1. /\ fepoch' = [fepoch EXCEPT ![f] = EpochNumber(epochs[KeyOf[f]])]
      /\ fpc[f] = "epoch" /\ fpc' = [fpc EXCEPT ![f] = "insert"]
      /\ UNCHANGED <<origin, hinted, cacheVars, leader, workerVars, fversion, lossVars>>
  BY DEF ReadEpoch
<1>2. EpochNumber(epochs[KeyOf[f]]) \in Nat /\ EpochNumber(epochs[KeyOf[f]]) = Epoch(KeyOf[f])
  BY RefresherTypes, Numbers DEF Inv, Epoch
<1>3. /\ fpc' \in [Refreshers -> {"idle", "count", "epoch", "insert", "drop", "done"}]
      /\ fepoch' \in [Refreshers -> Nat]
      /\ fpc'[f] = "insert" /\ fepoch'[f] = Epoch(KeyOf[f])
      /\ \A g \in Refreshers \ {f} : fpc'[g] = fpc[g] /\ fepoch'[g] = fepoch[g]
  BY <1>1, <1>2, RefresherTypes
<1>4. TypeOK'
  BY <1>1, <1>3 DEF Inv, TypeOK, cacheVars, workerVars, lossVars, Subject
<1>5. Published'
  BY <1>1 DEF Inv, Published, workerVars
<1>6. WorldForward
  <2>1. /\ hinted' = hinted /\ epochs' = epochs /\ refreshes' = refreshes /\ fversion' = fversion /\ lost' = lost
    BY <1>1 DEF cacheVars, lossVars
  <2>2. "insert" # "drop" /\ "epoch" \in {"epoch", "insert", "drop"}
    BY SMTT(30)
  <2>3. \A x \in Keys : Epoch(x)' = Epoch(x) /\ Epoch(x) \in Nat
    BY <2>1, Numbers DEF Epoch, Inv
  <2>4. ASSUME NEW x \in Keys \ lost', NEW v \in Versions, NEW n \in Nat, Covered(x, v, n)
        PROVE  Covered(x, v, n)'
    <3>1. n <= Epoch(x) /\ (v < hinted[x] => n < Epoch(x))
      BY <2>4 DEF Covered
    <3>2. ASSUME NEW g \in Refreshers, KeyOf[g] = x, v < fversion[g]
          PROVE  /\ fpc'[g] = "insert" => n <= fepoch'[g]
                 /\ fpc'[g] = "drop" => n < Epoch(x)
      <4>1. CASE g = f
        BY <1>3, <2>2, <3>1, <3>2, <4>1
      <4>2. CASE g # f
        BY <1>3, <2>4, <3>2, <4>2 DEF Covered
      <4> QED
        BY <4>1, <4>2
    <3> QED
      BY <2>1, <2>3, <3>1, <3>2 DEF Covered
  <2>5. \A x \in Keys, v \in Versions, n \in Nat : Counted(x, v, n) => Counted(x, v, n)'
    BY <1>1, <1>3, <2>1, <2>2 DEF Counted
  <2>6. refreshes <= refreshes' /\ \A x \in Keys \ lost' : Epoch(x) <= Epoch(x)'
    BY <2>1, <2>3, Numbers, SMTT(30) DEF Inv
  <2> QED
    BY <2>1, <2>4, <2>5, <2>6 DEF WorldForward
<1>7. entries' = entries /\ UNCHANGED <<leader, workerVars>>
  BY <1>1 DEF cacheVars
<1> QED
  BY <1>4, <1>5, <1>6, <1>7, EntriesLeft, WorldMoves

\* The epoch goes to one past what the refresher read: further than anything taken
\* before the read, unless another refresh went past it, which sets the fence back.
LEMMA InsertEpochKeeps ==
  ASSUME Inv, NEW f \in Refreshers, InsertEpoch(f)
  PROVE  Inv'
<1>1. /\ fpc[f] = "insert" /\ fpc' = [fpc EXCEPT ![f] = "drop"]
      /\ epochs' = [epochs EXCEPT ![KeyOf[f]] = {fepoch[f] + 1}]
      /\ lost' = IF EpochNumber(epochs[KeyOf[f]]) > fepoch[f] + 1 THEN lost \cup {KeyOf[f]} ELSE lost
      /\ UNCHANGED <<origin, hinted, entries, refreshes, cooldown, leader, workerVars, fepoch, fversion, losses>>
  BY DEF InsertEpoch
<1>2. PICK k \in Keys, n1 \in Nat : k = KeyOf[f] /\ n1 = fepoch[f] /\ fepoch[f] + 1 \in Nat
  <2>1. KeyOf[f] \in Keys /\ fepoch[f] \in Nat
    BY RefresherTypes
  <2>2. fepoch[f] + 1 \in Nat
    BY <2>1, SMTT(30)
  <2> QED
    BY <2>1, <2>2
<1>3. epochs \in [Keys -> SUBSET Nat] /\ \A x \in Keys : AtMostOne(epochs[x])
  BY DEF Inv, TypeOK
<1>4. /\ epochs' \in [Keys -> SUBSET Nat] /\ epochs'[k] = {fepoch[f] + 1}
      /\ \A x \in Keys \ {k} : epochs'[x] = epochs[x]
  BY <1>1, <1>2, <1>3
<1>5. \A x \in Keys : AtMostOne(epochs'[x])
  <2>1. AtMostOne({fepoch[f] + 1})
    BY DEF AtMostOne
  <2> QED
    BY <1>3, <1>4, <2>1
<1>6. /\ fpc' \in [Refreshers -> {"idle", "count", "epoch", "insert", "drop", "done"}]
      /\ fpc'[f] = "drop" /\ \A g \in Refreshers \ {f} : fpc'[g] = fpc[g]
  BY <1>1, RefresherTypes
<1>7. lost' \subseteq Keys /\ lost \subseteq lost'
  BY <1>1, <1>2 DEF Inv, TypeOK
<1>8. TypeOK'
  BY <1>1, <1>4, <1>5, <1>6, <1>7 DEF Inv, TypeOK, workerVars, Subject
<1>9. Published'
  BY <1>1 DEF Inv, Published, workerVars
<1>10. Epoch(k) \in Nat /\ Epoch(k)' = n1 + 1 /\ \A x \in Keys \ {k} : Epoch(x)' = Epoch(x) /\ Epoch(x) \in Nat
  BY <1>2, <1>4, Epochs, Numbers DEF Epoch, Inv
<1>11. k \notin lost' => Epoch(k) <= n1 + 1
  <2>1. k \notin lost' => ~(Epoch(k) > n1 + 1)
    BY <1>1, <1>2 DEF Epoch
  <2> QED
    BY <1>10, <2>1, SMTT(30)
<1>12. \A x \in Keys \ lost' : Epoch(x) <= Epoch(x)'
  <2>1. k \notin lost' => Epoch(k) <= Epoch(k)'
    BY <1>10, <1>11
  <2>2. \A x \in Keys \ {k} : Epoch(x) <= Epoch(x)'
    BY <1>10, SMTT(30)
  <2> QED
    BY <2>1, <2>2
<1>13. ASSUME NEW x \in Keys \ lost', NEW v \in Versions, NEW n \in Nat, Covered(x, v, n)
       PROVE  Covered(x, v, n)'
  <2>1. CASE x # k
    <3>1. Epoch(x)' = Epoch(x)
      BY <1>10, <2>1
    <3>2. \A g \in Refreshers : KeyOf[g] = x => g # f
      BY <1>2, <2>1
    <3>3. \A g \in Refreshers : KeyOf[g] = x => fpc'[g] = fpc[g]
      BY <1>6, <3>2
    <3> QED
      BY <1>1, <1>13, <3>1, <3>3 DEF Covered
  <2>2. CASE x = k
    <3>1. n <= Epoch(k) /\ (v < hinted[k] => n < Epoch(k))
      BY <1>13, <2>2 DEF Covered
    <3>2. n <= Epoch(k)' /\ (v < hinted[k] => n < Epoch(k)')
      BY <1>10, <1>11, <2>2, <3>1, SMTT(30)
    <3>3. ASSUME NEW g \in Refreshers, KeyOf[g] = k, v < fversion[g]
          PROVE  /\ fpc'[g] = "insert" => n <= fepoch[g]
                 /\ fpc'[g] = "drop" => n < Epoch(k)'
      <4>1. /\ fpc[g] = "insert" => n <= fepoch[g]
            /\ fpc[g] = "drop" => n < Epoch(k)
        BY <1>13, <2>2, <3>3 DEF Covered
      <4>2. CASE g = f
        <5>1. n <= n1 /\ fpc'[g] = "drop" /\ "drop" # "insert"
          <6>1. "drop" # "insert"
            BY SMTT(30)
          <6> QED
            BY <1>1, <1>2, <1>6, <4>1, <4>2, <6>1
        <5>2. n < Epoch(k)'
          BY <1>10, <5>1, SMTT(30)
        <5> QED
          BY <5>1, <5>2
      <4>3. CASE g # f
        <5>1. fpc'[g] = fpc[g]
          BY <1>6, <4>3
        <5>2. fpc[g] = "drop" => n < Epoch(k)'
          BY <1>10, <1>11, <2>2, <4>1, SMTT(30)
        <5> QED
          BY <4>1, <5>1, <5>2
      <4> QED
        BY <4>2, <4>3
    <3> QED
      BY <1>1, <2>2, <3>2, <3>3 DEF Covered
  <2> QED
    BY <2>1, <2>2
<1>14. ASSUME NEW x \in Keys, NEW v \in Versions, NEW n \in Nat, Counted(x, v, n)
       PROVE  Counted(x, v, n)'
  <2>1. "insert" \in {"epoch", "insert", "drop"}
    BY SMTT(30)
  <2>2. \A g \in Refreshers : fpc'[g] \in {"epoch", "insert", "drop"} => fpc[g] \in {"epoch", "insert", "drop"}
    BY <1>1, <1>6, <2>1
  <2> QED
    BY <1>1, <1>14, <2>2 DEF Counted
<1>15. refreshes <= refreshes'
  BY <1>1, Numbers, SMTT(30) DEF Inv
<1>16. WorldForward
  BY <1>7, <1>12, <1>13, <1>14, <1>15 DEF WorldForward
<1> QED
  BY <1>1, <1>8, <1>9, <1>16, EntriesLeft, WorldMoves

\* The refresh is over, and what it was about is now hinted: anything older was
\* taken under an epoch that is behind.
LEMMA DropEntryKeeps ==
  ASSUME Inv, NEW f \in Refreshers, DropEntry(f)
  PROVE  Inv'
<1>1. PICK k \in Keys : k = KeyOf[f]
  BY RefresherTypes
<1>2. /\ fpc[f] = "drop" /\ fpc' = [fpc EXCEPT ![f] = "done"]
      /\ entries' = [entries EXCEPT ![k] = {}] /\ cooldown' = cooldown \ {k}
      /\ hinted' = [hinted EXCEPT ![k] = IF hinted[k] < fversion[f] THEN fversion[f] ELSE hinted[k]]
      /\ UNCHANGED <<origin, epochs, refreshes, leader, workerVars, fepoch, fversion, lossVars>>
  BY <1>1 DEF DropEntry
<1>3. hinted \in [Keys -> Versions] /\ fversion[f] \in Versions /\ Versions \subseteq Nat /\ cooldown' \subseteq Keys
  BY <1>2, RefresherTypes, Numbers DEF Inv, TypeOK
<1>4. /\ hinted' \in [Keys -> Versions] /\ (hinted'[k] = hinted[k] \/ hinted'[k] = fversion[f])
      /\ hinted'[k] = IF hinted[k] < fversion[f] THEN fversion[f] ELSE hinted[k]
      /\ \A x \in Keys \ {k} : hinted'[x] = hinted[x]
  BY <1>2, <1>3
<1>5. /\ fpc' \in [Refreshers -> {"idle", "count", "epoch", "insert", "drop", "done"}]
      /\ fpc'[f] = "done" /\ \A g \in Refreshers \ {f} : fpc'[g] = fpc[g]
  BY <1>2, RefresherTypes
<1>6. TypeOK'
  BY <1>2, <1>3, <1>4, <1>5, EntriesLeft DEF Inv, TypeOK, workerVars, lossVars, Subject
<1>7. \A x \in Keys : hinted[x] <= hinted'[x] /\ hinted[x] \in Nat /\ hinted'[x] \in Nat
  <2>1. hinted[k] \in Nat /\ fversion[f] \in Nat /\ \A x \in Keys : hinted[x] \in Nat
    BY <1>3
  <2>2. hinted[k] <= hinted'[k] /\ hinted'[k] \in Nat
    BY <1>4, <2>1, SMTT(30)
  <2>3. \A x \in Keys : hinted[x] <= hinted[x]
    BY <2>1, SMTT(30)
  <2> QED
    BY <1>4, <2>1, <2>2, <2>3
<1>8. Published'
  <2>1. \A x \in Keys : hinted'[x] <= origin[x]
    BY <1>1, <1>4 DEF Inv, Published
  <2>2. ASSUME NEW r \in Requests PROVE floor[r] <= hinted'[KeyOf[r]]
    <3>1. KeyOf[r] \in Keys /\ floor[r] \in Nat
      BY <1>3, Subjects DEF Inv, TypeOK
    <3>2. floor[r] <= hinted[KeyOf[r]] /\ hinted[KeyOf[r]] <= hinted'[KeyOf[r]]
          /\ hinted[KeyOf[r]] \in Nat /\ hinted'[KeyOf[r]] \in Nat
      BY <1>7, <3>1 DEF Inv, Published
    <3> QED
      BY <3>1, <3>2, SMTT(30)
  <2> QED
    BY <1>2, <2>1, <2>2 DEF Inv, Published, workerVars
<1>9. "done" # "insert" /\ "done" \notin {"epoch", "insert", "drop"} /\ "drop" \in {"epoch", "insert", "drop"}
      /\ "done" # "drop"
  BY SMTT(30)
<1>10. \A x \in Keys : Epoch(x)' = Epoch(x) /\ Epoch(x) \in Nat
  BY <1>2, Numbers DEF Epoch, Inv
<1>11. ASSUME NEW x \in Keys \ lost', NEW v \in Versions, NEW n \in Nat, Covered(x, v, n)
       PROVE  Covered(x, v, n)'
  <2>1. v < hinted'[x] => n < Epoch(x)
    <3>1. CASE x # k
      BY <1>4, <1>11, <3>1 DEF Covered
    <3>2. CASE x = k /\ hinted'[k] = fversion[f]
      BY <1>1, <1>2, <1>11, <3>2 DEF Covered
    <3>3. CASE x = k /\ hinted'[k] = hinted[k]
      BY <1>11, <3>3 DEF Covered
    <3> QED
      BY <1>4, <3>1, <3>2, <3>3
  <2>2. \A g \in Refreshers : /\ fpc'[g] = "insert" => fpc[g] = "insert"
                              /\ fpc'[g] = "drop" => fpc[g] = "drop"
    BY <1>5, <1>9
  <2> QED
    BY <1>2, <1>10, <1>11, <2>1, <2>2 DEF Covered
<1>12. ASSUME NEW x \in Keys, NEW v \in Versions, NEW n \in Nat, Counted(x, v, n)
       PROVE  Counted(x, v, n)'
  <2>1. v < hinted'[x] => n < refreshes
    <3>1. CASE x # k
      BY <1>4, <1>12, <3>1 DEF Counted
    <3>2. CASE x = k /\ hinted'[k] = fversion[f]
      BY <1>1, <1>2, <1>9, <1>12, <3>2 DEF Counted
    <3>3. CASE x = k /\ hinted'[k] = hinted[k]
      BY <1>12, <3>3 DEF Counted
    <3> QED
      BY <1>4, <3>1, <3>2, <3>3
  <2>2. \A g \in Refreshers : fpc'[g] \in {"epoch", "insert", "drop"} => fpc[g] \in {"epoch", "insert", "drop"}
    BY <1>5, <1>9
  <2> QED
    BY <1>2, <1>12, <2>1, <2>2 DEF Counted
<1>13. refreshes <= refreshes' /\ (\A x \in Keys \ lost' : Epoch(x) <= Epoch(x)')
  BY <1>2, <1>10, Numbers, SMTT(30) DEF Inv
<1>14. lost' = lost
  BY <1>2 DEF lossVars
<1>15. WorldForward
  BY <1>11, <1>12, <1>13, <1>14 DEF WorldForward
<1> QED
  BY <1>2, <1>6, <1>8, <1>15, EntriesLeft, WorldMoves
-----------------------------------------------------------------------------
(* The invariant. *)

\* The documents held at the start are of the version and epoch zero.
LEMMA InitInv ==
  ASSUME Init
  PROVE  Inv
<1>1. PICK s \in Scenarios : InitWith(s)
  BY DEF Init
<1>2. /\ 0 \in Nat /\ 0 \in Versions /\ 0 <= 0 /\ ~(0 < 0) /\ s.losses \in Nat
  <2>1. MaxVersion \in Nat /\ s \in [hints : SUBSET Refreshers, losses : Nat]
    BY ProviderCacheAssumption DEF ProviderCacheAssumption
  <2> QED
    BY <2>1, SMTT(30) DEF Versions
<1>3. /\ "idle" \in Phases /\ "idle" \notin Leading /\ "idle" # "waiting" /\ "idle" \notin Fetched
      /\ "idle" \notin {"fence2", "io"} /\ "idle" # "woken2" /\ "idle" \notin {"allowed", "spawn", "done"}
      /\ "idle" \notin Revalidating
      /\ "idle" \notin {"epoch", "insert", "drop"} /\ "done" \notin {"epoch", "insert", "drop"}
      /\ "idle" # "insert" /\ "idle" # "drop" /\ "done" # "insert" /\ "done" # "drop"
      /\ NoFence \in Fences /\ AtMostOne(NoFence.epoch)
  BY SMTT(30) DEF Phases, Leading, Fetched, Revalidating, NoFence, Fences, AtMostOne
<1>4. /\ origin = [k \in Keys |-> 0] /\ hinted = [k \in Keys |-> 0] /\ epochs = [k \in Keys |-> {}]
      /\ refreshes = 0 /\ cooldown = {} /\ leader = [k \in Keys |-> NoWorker]
      /\ wpc = [w \in Workers |-> "idle"] /\ fence = [w \in Workers |-> NoFence]
      /\ result = [w \in Workers |-> {}] /\ sent = [w \in Workers |-> FALSE]
      /\ floor = [r \in Requests |-> 0]
      /\ fpc = [f \in Refreshers |-> IF f \in s.hints THEN "idle" ELSE "done"]
      /\ fepoch = [f \in Refreshers |-> 0] /\ fversion = [f \in Refreshers |-> 0]
      /\ losses = s.losses /\ lost = {}
  BY <1>1 DEF InitWith
<1>5. PICK held \in SUBSET (Keys \X {"fresh", "stale"}) :
          /\ \A k \in Keys : AtMostOne({h \in held : h[1] = k})
          /\ entries = [k \in Keys |->
                {[version |-> 0, epoch |-> 0, age |-> h[2]] : h \in {g \in held : g[1] = k}}]
  BY <1>1 DEF InitWith
<1>6. \A k \in Keys : \A e \in entries[k] :
         \E h \in held : h[1] = k /\ e = [version |-> 0, epoch |-> 0, age |-> h[2]]
  BY <1>5
<1>7. \A h \in held : h[2] \in {"fresh", "stale", "expired"}
  BY SMTT(30)
<1>8. ASSUME NEW a \in {"fresh", "stale", "expired"}
      PROVE  /\ [version |-> 0, epoch |-> 0, age |-> a] \in Entries
             /\ [version |-> 0, epoch |-> 0, age |-> a].version = 0
             /\ [version |-> 0, epoch |-> 0, age |-> a].epoch = 0
  BY <1>2, SMTT(30) DEF Entries
<1>9. \A k \in Keys : \A e \in entries[k] : e \in Entries /\ e.version = 0 /\ e.epoch = 0
  BY <1>6, <1>7, <1>8, ZenonT(30)
<1>10. \A k \in Keys : AtMostOne(entries[k])
  <2> SUFFICES ASSUME NEW k \in Keys, NEW d \in entries[k], NEW e \in entries[k] PROVE d = e
    BY DEF AtMostOne
  <2>1. PICK g \in held : g[1] = k /\ d = [version |-> 0, epoch |-> 0, age |-> g[2]]
    BY <1>6
  <2>2. PICK h \in held : h[1] = k /\ e = [version |-> 0, epoch |-> 0, age |-> h[2]]
    BY <1>6
  <2>3. g = h
    BY <1>5, <2>1, <2>2 DEF AtMostOne
  <2> QED
    BY <2>1, <2>2, <2>3
<1>11. entries \in [Keys -> SUBSET Entries]
  <2>1. entries = [k \in Keys |-> entries[k]]
    BY <1>5
  <2> QED
    BY <1>9, <2>1
<1>12. /\ origin \in [Keys -> Versions] /\ hinted \in [Keys -> Versions] /\ epochs \in [Keys -> SUBSET Nat]
       /\ leader \in [Keys -> Workers \cup {NoWorker}] /\ wpc \in [Workers -> Phases]
       /\ fence \in [Workers -> Fences] /\ result \in [Workers -> SUBSET Versions]
       /\ sent \in [Workers -> BOOLEAN] /\ floor \in [Requests -> Versions]
       /\ fepoch \in [Refreshers -> Nat] /\ fversion \in [Refreshers -> Versions]
       /\ fpc \in [Refreshers -> {"idle", "count", "epoch", "insert", "drop", "done"}]
  BY <1>2, <1>3, <1>4
<1>13. TypeOK
  <2>1. \A k \in Keys : AtMostOne(epochs[k]) /\ leader[k] = NoWorker
    BY <1>4 DEF AtMostOne
  <2>2. \A w \in Workers : AtMostOne(fence[w].epoch) /\ AtMostOne(result[w])
    BY <1>3, <1>4 DEF AtMostOne
  <2> QED
    BY <1>2, <1>4, <1>10, <1>11, <1>12, <2>1, <2>2 DEF TypeOK
<1>14. Led
  BY <1>3, <1>4 DEF Led, FollowersLed, Workers
<1>15. Published
  BY <1>2, <1>4, Subjects, ProviderCacheAssumption DEF Published, ProviderCacheAssumption
<1>16. EntriesCovered
  <2>1. \A k \in Keys : Epoch(k) = 0
    BY <1>4 DEF Epoch, EpochNumber
  <2>2. \A k \in Keys : Covered(k, 0, 0)
    BY <1>2, <1>3, <1>4, <2>1 DEF Covered
  <2> QED
    BY <1>9, <2>2 DEF EntriesCovered
<1>17. \A w \in Workers : WorkerSound(w)
  BY <1>3, <1>4 DEF WorkerSound, FenceBehind, AnswerFenced, AnswerFresh, EntryStale, Workers
<1> QED
  BY <1>13, <1>14, <1>15, <1>16, <1>17 DEF Inv

\* Every step keeps the invariant.
LEMMA NextInv ==
  ASSUME Inv, [Next]_vars
  PROVE  Inv'
<1>1. ASSUME NEW r \in Requests, Start(r) \/ RequestStep(r) \/ Cancel(r) PROVE Inv'
  BY <1>1, StartKeeps, GetKeeps, AllowedKeeps, SpawnBusyKeeps, SpawnFreeKeeps, FollowKeeps,
     BeginLeadKeeps, WokenKeeps, WokenFenceKeeps, CancelFollowerKeeps, CancelLeaderKeeps DEF RequestStep
<1>2. ASSUME NEW w \in Workers, LeaderStep(w) PROVE Inv'
  BY <1>2, RecheckWantedKeeps, RecheckDropKeeps, FenceEpochKeeps, FenceCountKeeps, OriginAnswersKeeps,
     OriginFailsKeeps, PutCheckKeeps, StoreKeeps, DiscardKeeps, PublishOutcomeKeeps DEF LeaderStep
<1>3. ASSUME NEW f \in Refreshers, HintArrives(f) \/ RefreshStep(f) PROVE Inv'
  BY <1>3, HintArrivesKeeps, RaiseCountKeeps, ReadEpochKeeps, InsertEpochKeeps, DropEntryKeeps DEF RefreshStep
<1>4. ASSUME NEW k \in Keys,
             MarkFailure(k) \/ Publish(k) \/ Age(k) \/ Evict(k) \/ CooldownOver(k) \/ LoseFence(k)
      PROVE  Inv'
  BY <1>4, MarkFailureKeeps, PublishKeeps, AgeKeeps, EvictKeeps, LoseFenceKeeps
<1>5. CASE UNCHANGED vars
  <2>1. /\ UNCHANGED <<hinted, epochs, refreshes, fpc, fepoch, fversion, lost>>
        /\ UNCHANGED <<leader, workerVars>> /\ entries' = entries
    BY <1>5 DEF vars, cacheVars, refresherVars, lossVars
  <2>2. WorldForward
    BY <2>1, FencesKept
  <2>3. TypeOK' /\ Published'
    BY <1>5 DEF Inv, TypeOK, Published, vars, cacheVars, workerVars, refresherVars, lossVars, Subject
  <2> QED
    BY <2>1, <2>2, <2>3, EntriesLeft, WorldMoves
<1> QED
  BY <1>1, <1>2, <1>3, <1>4, <1>5 DEF Next

\* The inductive invariant of the cache holds of every behaviour.
THEOREM Invariance == Spec => []Inv
<1>1. Init => Inv
  BY InitInv
<1>2. Inv /\ [Next]_vars => Inv'
  BY NextInv
<1> QED
  BY <1>1, <1>2, PTL DEF Spec

\* No request is answered with a document older than the last refresh that finished
\* before it came in, while the fence of its key is kept (ProviderFetchCache::get,
\* is_superseded, invalidate_for_refresh): for any number of keys, requests,
\* refreshes and publications.
THEOREM AnswersAreFresh == Spec => []FreshAfterHint
<1>1. Inv => FreshAfterHint
  <2> SUFFICES ASSUME Inv, NEW r \in Requests, wpc[r] = "done", KeyOf[r] \notin lost
               PROVE  \A v \in result[r] : v >= floor[r]
    BY DEF FreshAfterHint
  <2>1. r \in Workers /\ "done" \in {"allowed", "spawn", "done"}
    BY SMTT(30) DEF Workers
  <2> QED
    BY <2>1 DEF Inv, WorkerSound, AnswerFresh
<1> QED
  BY <1>1, Invariance, PTL

\* A background revalidation between its look under flight ownership and its store
\* never faces a fresh document (spawn_stale_revalidation).
THEOREM RevalidationsFaceStale == Spec => []RevalidatesStale
<1>1. Inv => RevalidatesStale
  <2> SUFFICES ASSUME Inv, NEW k \in Keys, wpc[k] \in {"io", "put", "store"}
               PROVE  \A e \in entries[k] : e.age # "fresh"
    BY DEF RevalidatesStale
  <2>1. k \in Workers /\ wpc[k] \in Revalidating
    BY SMTT(30) DEF Workers, Revalidating
  <2> QED
    BY <2>1 DEF Inv, WorkerSound, EntryStale
<1> QED
  BY <1>1, Invariance, PTL

\* One worker at a time fetches a key, and whoever waits for a flight has a leader
\* (SingleFlight::begin and the guard's Drop).
THEOREM FlightsStaySound == Spec => []FlightsSound
<1>1. Inv => FlightsSound
  <2> SUFFICES ASSUME Inv PROVE OneFetch
    BY DEF FlightsSound, Inv, Led
  <2>1. \A w \in Workers : Fetching(w) => wpc[w] \in Leading
    BY SMTT(30) DEF Fetching, Leading
  <2>2. \A w \in Workers : Fetching(w) => leader[Subject(w)] = w
    BY <2>1 DEF Inv, Led
  <2> QED
    BY <2>2 DEF OneFetch
<1> QED
  BY <1>1, Invariance, PTL
=============================================================================
