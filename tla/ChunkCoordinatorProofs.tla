------------------------ MODULE ChunkCoordinatorProofs ------------------------
(***************************************************************************)
(* Proofs about ChunkCoordinator, for any readers, archives and chunks and *)
(* any limits: no live reader is stranded, the slots are counted exactly,  *)
(* and no chunk crosses generations.                                       *)
(***************************************************************************)
EXTENDS ChunkCoordinator, TLAPS

USE Zenon

RangeType == [from : Int, to : Int]

Results == Archives \cup {Nothing, Failed}

GroupType ==
    [id : Nat, archive : Archives, range : RangeType, phase : Phases, data : Results]

\* The tasks are told apart by their ids.
GroupsOK ==
    /\ IsFiniteSet(groups) /\ groups \subseteq GroupType
    /\ \A g, h \in groups : g.id = h.id => g = h

\* A fetch returns bytes of the generation it was started for, or fails.
DataPinned ==
    \A g \in groups :
        /\ g.phase = "body" => g.data = g.archive
        /\ g.phase \in {"completing", "orphaned"} => g.data \in {Failed, g.archive}

\* The scheduler runs while it says so, and has ranges only while it hands
\* them out.
SchedulerOK ==
    /\ todo \in [Archives -> Seq(RangeType)]
    /\ \A a \in Archives :
         /\ sched[a] \in {"dispatch", "shed"} <=> todo[a] # <<>>
         /\ running[a] = TRUE <=> sched[a] # "off"

\* A state that was removed had nothing left.
StateHeld ==
    \A a \in Archives :
        exists[a] = FALSE =>
            /\ pending[a] = {} /\ waiters[a] = {} /\ inflight[a] = {}
            /\ running[a] = FALSE /\ count[a] = 0

\* A range that has yet to complete covers the chunk.
Underway(a, k) ==
    \/ k \in Covered(todo[a])
    \/ \E g \in Outstanding(a) : k \in Indices(g.range)

InflightCovered == \A a \in Archives : \A k \in inflight[a] : Underway(a, k)

\* What a reader holds in each phase.
ReadersOK ==
    \A c \in Callers :
        /\ cpc[c] \in {"known", "missed", "waiting"} => archive[c] \in Archives
        /\ cpc[c] = "missed" => \A k \in Chunks : box[c][k] \in {Nothing, archive[c]}
        /\ cpc[c] \notin {"missed", "waiting"} => \A k \in Chunks : box[c][k] = Nothing

\* A registered waiter that is still there waits for this archive's chunk.
WaitersTrue ==
    \A a \in Archives : \A c \in Callers, k \in Chunks :
        <<c, k>> \in waiters[a] =>
            /\ cpc[c] \in {"waiting", "done"}
            /\ Live(c) => archive[c] = a /\ k \in want[c] /\ box[c][k] = Nothing

Inv ==
    /\ TypeOK /\ GroupsOK /\ DataPinned /\ SchedulerOK /\ StateHeld /\ SlotsExact
    /\ InflightCovered /\ ReadersOK /\ WaitersTrue /\ WaiterCovered /\ GenerationPinned

-----------------------------------------------------------------------------
(* What the lemmas below use of finite sets and sequences.  The library    *)
(* that proves it is brought in after them, at the end of the module.      *)

CountIsNat == \A S : IsFiniteSet(S) => Cardinality(S) \in Nat

CountEmpty ==
    /\ IsFiniteSet({}) /\ Cardinality({}) = 0
    /\ \A S : IsFiniteSet(S) => (Cardinality(S) = 0 <=> S = {})

CountOne == \A S : IsFiniteSet(S) => (Cardinality(S) = 1 <=> \E x : S = {x})

PartFinite == \A S : IsFiniteSet(S) => \A T \in SUBSET S : IsFiniteSet(T)

CountAdded ==
    \A S, x : IsFiniteSet(S) =>
        /\ IsFiniteSet(S \cup {x})
        /\ Cardinality(S \cup {x}) = IF x \in S THEN Cardinality(S) ELSE Cardinality(S) + 1

CountRemoved ==
    \A S, x : IsFiniteSet(S) =>
        /\ IsFiniteSet(S \ {x})
        /\ Cardinality(S \ {x}) = IF x \in S THEN Cardinality(S) - 1 ELSE Cardinality(S)

SetFacts == CountIsNat /\ CountEmpty /\ CountOne /\ PartFinite /\ CountAdded /\ CountRemoved

\* Sequences of ranges.
SeqFacts ==
    /\ <<>> \in Seq(RangeType) /\ Len(<<>>) = 0
    /\ \A s \in Seq(RangeType) :
         /\ Len(s) \in Nat /\ DOMAIN s = 1..Len(s)
         /\ \A i \in 1..Len(s) : s[i] \in RangeType
         /\ s # <<>> => Len(s) # 0

TailFacts ==
    \A s \in Seq(RangeType) : s # <<>> =>
        /\ Head(s) \in RangeType /\ Head(s) = s[1]
        /\ Tail(s) \in Seq(RangeType) /\ Len(Tail(s)) = Len(s) - 1
        /\ \A i \in 1..Len(Tail(s)) : Tail(s)[i] = s[i + 1]
        /\ Tail(s) # <<>> <=> Len(s) > 1

PrefixFacts ==
    \A s \in Seq(RangeType), n \in Nat : n <= Len(s) =>
        /\ SubSeq(s, 1, n) \in Seq(RangeType) /\ Len(SubSeq(s, 1, n)) = n
        /\ \A i \in 1..n : SubSeq(s, 1, n)[i] = s[i]

\* There is always an unused task id.
IdsLeft == GroupsOK => NewId \in Nat /\ \A g \in groups : g.id # NewId

Facts == SetFacts /\ SeqFacts /\ TailFacts /\ PrefixFacts

-----------------------------------------------------------------------------
(* The detached tasks.                                                     *)

\* A task that moves on stays outstanding until it has completed.
LEMMA MoveStep ==
    ASSUME Facts, GroupsOK, NEW g \in groups, NEW phase \in Phases, NEW data \in Results,
           g.phase # "finished", Move(g, phase, data)
    PROVE  /\ GroupsOK'
           /\ \A a \in Archives :
                /\ IsFiniteSet(Outstanding(a))
                /\ phase # "finished" \/ a # g.archive =>
                     Cardinality(Outstanding(a)') = Cardinality(Outstanding(a))
                /\ phase = "finished" /\ a = g.archive =>
                     Cardinality(Outstanding(a)') = Cardinality(Outstanding(a)) - 1
<1> DEFINE h == [g EXCEPT !.phase = phase, !.data = data]
<1>1. /\ h \in GroupType /\ h.id = g.id /\ h.archive = g.archive /\ h.phase = phase
      /\ h.range = g.range /\ h.data = data
    BY Zenon DEF GroupsOK, GroupType
<1>2. groups' = (groups \ {g}) \cup {h}
    BY DEF Move
<1> HIDE DEF h
<1>3. \A x \in groups \ {g} : x # h /\ x.id # g.id
    BY <1>1 DEF GroupsOK
<1>4. GroupsOK'
    <2>1. IsFiniteSet(groups')
        BY <1>2, Zenon DEF GroupsOK, Facts, SetFacts, CountRemoved, CountAdded
    <2>2. groups' \subseteq GroupType
        BY <1>1, <1>2 DEF GroupsOK
    <2>3. \A x, y \in groups' : x.id = y.id => x = y
        BY <1>1, <1>2, <1>3 DEF GroupsOK
    <2> QED
        BY <2>1, <2>2, <2>3 DEF GroupsOK
<1>5. ASSUME NEW a \in Archives
      PROVE  /\ IsFiniteSet(Outstanding(a))
             /\ phase # "finished" \/ a # g.archive =>
                  Cardinality(Outstanding(a)') = Cardinality(Outstanding(a))
             /\ phase = "finished" /\ a = g.archive =>
                  Cardinality(Outstanding(a)') = Cardinality(Outstanding(a)) - 1
    <2>1. IsFiniteSet(Outstanding(a))
        <3>1. Outstanding(a) \in SUBSET groups
            BY DEF Outstanding
        <3> QED
            BY <3>1 DEF GroupsOK, Facts, SetFacts, PartFinite
    <2>2. Cardinality(Outstanding(a)) \in Nat
        BY <2>1 DEF Facts, SetFacts, CountIsNat
    <2>3. CASE a # g.archive
        <3>1. Outstanding(a)' = Outstanding(a)
            BY <2>3, <1>1, <1>2 DEF Outstanding
        <3> QED
            BY <2>1, <2>3, <3>1
    <2>4. CASE a = g.archive /\ phase = "finished"
        <3>1. Outstanding(a)' = Outstanding(a) \ {g} /\ g \in Outstanding(a)
            BY <2>4, <1>1, <1>2 DEF Outstanding
        <3> QED
            BY <2>1, <2>4, <3>1, ZenonT(30) DEF Facts, SetFacts, CountRemoved
    <2>5. CASE a = g.archive /\ phase # "finished"
        <3>1. Outstanding(a)' = (Outstanding(a) \ {g}) \cup {h} /\ g \in Outstanding(a)
            BY <2>5, <1>1, <1>2 DEF Outstanding
        <3>2. h \notin Outstanding(a) \ {g}
            BY <1>3 DEF Outstanding
        <3>3. /\ IsFiniteSet(Outstanding(a) \ {g})
              /\ Cardinality(Outstanding(a) \ {g}) = Cardinality(Outstanding(a)) - 1
            BY <2>1, <3>1 DEF Facts, SetFacts, CountRemoved
        <3>4. Cardinality(Outstanding(a)') = (Cardinality(Outstanding(a)) - 1) + 1
            BY <3>1, <3>2, <3>3, Zenon DEF Facts, SetFacts, CountAdded
        <3> QED
            BY <2>1, <2>2, <2>5, <3>4, SMTT(30)
    <2> QED
        BY <2>3, <2>4, <2>5
<1> QED
    BY <1>4, <1>5

-----------------------------------------------------------------------------
(* Readers.                                                                *)

\* The part of the invariant that is not about readers.
TasksOK ==
    /\ GroupsOK /\ DataPinned /\ SchedulerOK /\ StateHeld /\ SlotsExact
    /\ InflightCovered

\* And the part that is.
AnswersOK == ReadersOK /\ WaitersTrue /\ WaiterCovered /\ GenerationPinned

\* Steps that leave the tasks alone.
LEMMA TasksKept ==
    ASSUME TasksOK, UNCHANGED <<stateVars, sched, todo, groups>>
    PROVE  TasksOK'
  BY DEF TasksOK, GroupsOK, DataPinned, SchedulerOK, StateHeld, SlotsExact, InflightCovered,
         Underway, Outstanding, stateVars

\* A reader that leaves takes its claims with it.
LEMMA LeaveStep ==
    ASSUME Inv, NEW c \in Callers, Leave(c),
           UNCHANGED <<stored, cache, stateVars, sched, todo, groups, bounds>>
    PROVE  Inv'
<1>1. /\ cpc'[c] = "done" /\ archive'[c] = NoArchive
      /\ \A k \in Chunks : box'[c][k] = Nothing
      /\ \A d \in Callers \ {c} :
           cpc'[d] = cpc[d] /\ archive'[d] = archive[d] /\ box'[d] = box[d]
    BY DEF Inv, TypeOK, Leave
<1>2. TypeOK'
    BY DEF Inv, TypeOK, Leave, stateVars, bounds
<1>3. TasksOK'
    BY TasksKept DEF Inv, TasksOK
<1>4. ReadersOK'
    BY <1>1, SMTT(30) DEF Inv, ReadersOK
<1>5. WaitersTrue'
    BY <1>1, SMTT(30) DEF Inv, WaitersTrue, Live, stateVars, bounds
<1>6. WaiterCovered'
    BY <1>1, SMTT(30) DEF Inv, WaiterCovered, Live, Outstanding, stateVars, bounds
<1>7. GenerationPinned'
    BY <1>1, ResultAssumption, SMTT(30) DEF Inv, GenerationPinned
<1> QED
    BY <1>2, <1>3, <1>4, <1>5, <1>6, <1>7 DEF Inv, TasksOK

\* A reader that is not waiting yet moves on.
LEMMA AdvanceStep ==
    ASSUME Inv, NEW c \in Callers, Observe(c) \/ ObserveAdmitted(c) \/ Observed(c)
    PROVE  Inv'
<1>0. CASE Leave(c)
    BY <1>0, LeaveStep DEF Observe, ObserveAdmitted, Observed
<1>1. CASE ~Leave(c)
    <2>1. /\ UNCHANGED <<stored, cache, stateVars, sched, todo, groups, box, bounds>>
          /\ cpc[c] \in {"start", "queued", "observing"}
          /\ \/ /\ cpc' = [cpc EXCEPT ![c] = "queued"] \/ cpc' = [cpc EXCEPT ![c] = "observing"]
                /\ UNCHANGED archive
             \/ /\ cpc' = [cpc EXCEPT ![c] = "known"]
                /\ archive' = [archive EXCEPT ![c] = stored]
        BY <1>1 DEF Observe, ObserveAdmitted, Observed
    <2>2. /\ cpc'[c] \in {"queued", "observing", "known"}
          /\ cpc'[c] = "known" => archive'[c] \in Archives
          /\ \A d \in Callers \ {c} : cpc'[d] = cpc[d] /\ archive'[d] = archive[d]
        BY <2>1 DEF Inv, TypeOK
    <2>3. TypeOK'
        BY <2>1, ZenonT(30) DEF Inv, TypeOK, stateVars, bounds
    <2>4. TasksOK'
        BY <2>1, TasksKept DEF Inv, TasksOK
    <2>5. ReadersOK'
        BY <2>1, <2>2 DEF Inv, ReadersOK
    <2>6. WaitersTrue'
        BY <2>1, <2>2, SMTT(30) DEF Inv, WaitersTrue, Live, stateVars, bounds
    <2>7. WaiterCovered'
        BY <2>1, <2>2, SMTT(30) DEF Inv, WaiterCovered, Live, Outstanding, stateVars, bounds
    <2>8. GenerationPinned'
        BY <2>1, <2>2, ResultAssumption DEF Inv, GenerationPinned, ReadersOK
    <2> QED
        BY <2>3, <2>4, <2>5, <2>6, <2>7, <2>8 DEF Inv, TasksOK
<1> QED
    BY <1>0, <1>1

\* A lookup keeps cached bytes of the reader's own generation.
LEMMA LookupStep ==
    ASSUME Inv, NEW c \in Callers, Lookup(c)
    PROVE  Inv'
<1>0. CASE Leave(c)
    BY <1>0, LeaveStep DEF Lookup
<1>1. CASE ~Leave(c)
    <2> DEFINE held == [k \in Chunks |-> IF k \in want[c] THEN cache[archive[c]][k] ELSE Nothing]
    <2>1. /\ UNCHANGED <<stored, cache, stateVars, sched, todo, groups, archive, bounds>>
          /\ cpc[c] = "known" /\ cpc' = [cpc EXCEPT ![c] = "missed"]
          /\ box' = [box EXCEPT ![c] = held]
        BY <1>1 DEF Lookup
    <2>2. archive[c] \in Archives
        BY <2>1 DEF Inv, ReadersOK
    <2>3. held \in [Chunks -> Archives \cup {Nothing, Failed, Dropped}]
        BY <2>2, SMTT(30) DEF Inv, TypeOK
    <2>4. \A k \in Chunks : held[k] \in {Nothing, archive[c]}
        BY <2>2 DEF Inv, GenerationPinned
    <2>5. /\ cpc'[c] = "missed" /\ box'[c] = held
          /\ \A d \in Callers \ {c} : cpc'[d] = cpc[d] /\ box'[d] = box[d]
        BY <2>1 DEF Inv, TypeOK
    <2> HIDE DEF held
    <2>6. TypeOK'
        BY <2>1, <2>3 DEF Inv, TypeOK, stateVars, bounds
    <2>7. TasksOK'
        BY <2>1, TasksKept DEF Inv, TasksOK
    <2>8. ReadersOK'
        BY <2>1, <2>2, <2>4, <2>5, SMTT(30) DEF Inv, ReadersOK
    <2>9. WaitersTrue'
        BY <2>1, <2>5, SMTT(30) DEF Inv, WaitersTrue, Live, stateVars, bounds
    <2>10. WaiterCovered'
        BY <2>1, <2>5, SMTT(30) DEF Inv, WaiterCovered, Live, Outstanding, stateVars, bounds
    <2>11. GenerationPinned'
        BY <2>1, <2>4, <2>5, ResultAssumption, SMTT(30) DEF Inv, GenerationPinned
    <2> QED
        BY <2>6, <2>7, <2>8, <2>9, <2>10, <2>11 DEF Inv, TasksOK
<1> QED
    BY <1>0, <1>1

\* A reader registers for what it misses: each chunk is queued now, queued
\* already, or in flight and therefore underway.
LEMMA EnqueueStep ==
    ASSUME Inv, NEW c \in Callers, Enqueue(c)
    PROVE  Inv'
<1> DEFINE a == archive[c]
<1>1. /\ cpc[c] = "missed" /\ cpc' = [cpc EXCEPT ![c] = "waiting"]
      /\ exists' = [exists EXCEPT ![a] = TRUE]
      /\ waiters' = [waiters EXCEPT ![a] = @ \cup ({c} \X Missing(c))]
      /\ pending' = [pending EXCEPT ![a] = @ \cup (Missing(c) \ inflight[a])]
      /\ UNCHANGED <<stored, cache, inflight, count, notified, todo, groups, archive, box, bounds>>
    BY DEF Enqueue
<1>2. \/ /\ running[a] = FALSE
         /\ running' = [running EXCEPT ![a] = TRUE] /\ sched' = [sched EXCEPT ![a] = "pass"]
      \/ UNCHANGED <<running, sched>>
    BY SMTT(30) DEF Enqueue, Inv, TypeOK, ReadersOK
<1>3. a \in Archives
    BY <1>1 DEF Inv, ReadersOK
<1>4. Missing(c) \subseteq Chunks
    BY DEF Inv, TypeOK, Missing
<1> HIDE DEF a
<1>5. /\ cpc'[c] = "waiting" /\ \A d \in Callers \ {c} : cpc'[d] = cpc[d]
      /\ waiters'[a] = waiters[a] \cup ({c} \X Missing(c))
      /\ pending'[a] = pending[a] \cup (Missing(c) \ inflight[a])
      /\ exists'[a] = TRUE
      /\ \A b \in Archives \ {a} :
           waiters'[b] = waiters[b] /\ pending'[b] = pending[b] /\ exists'[b] = exists[b]
    BY <1>1, <1>3 DEF Inv, TypeOK
<1>6. TypeOK'
    <2>1. waiters' \in [Archives -> SUBSET (Callers \X Chunks)]
        BY <1>1, <1>3, <1>4, SMTT(30) DEF Inv, TypeOK
    <2>2. pending' \in [Archives -> SUBSET Chunks]
        BY <1>1, <1>3, <1>4 DEF Inv, TypeOK
    <2>3. /\ cpc' \in [Callers -> {"start", "queued", "observing", "known", "missed", "waiting",
                                   "done"}]
          /\ exists' \in [Archives -> BOOLEAN]
        BY <1>1, <1>3 DEF Inv, TypeOK
    <2>4. /\ running' \in [Archives -> BOOLEAN]
          /\ sched' \in [Archives -> {"off", "pass", "throttled", "dispatch", "shed"}]
        BY <1>2, <1>3, Zenon DEF Inv, TypeOK
    <2> QED
        BY <1>1, <2>1, <2>2, <2>3, <2>4 DEF Inv, TypeOK, bounds
<1>7. SchedulerOK'
    <2>1. CASE UNCHANGED <<running, sched>>
        BY <1>1, <2>1 DEF Inv, SchedulerOK
    <2>2. CASE /\ running[a] = FALSE
               /\ running' = [running EXCEPT ![a] = TRUE] /\ sched' = [sched EXCEPT ![a] = "pass"]
        <3>1. /\ running'[a] = TRUE /\ sched'[a] = "pass" /\ sched[a] = "off"
              /\ \A b \in Archives \ {a} : running'[b] = running[b] /\ sched'[b] = sched[b]
            BY <1>3, <2>2 DEF Inv, TypeOK, SchedulerOK
        <3> QED
            BY <1>1, <1>3, <3>1 DEF Inv, SchedulerOK
    <2> QED
        BY <1>2, <2>1, <2>2, Zenon
<1>8. GroupsOK' /\ DataPinned' /\ SlotsExact' /\ InflightCovered'
    BY <1>1 DEF Inv, GroupsOK, DataPinned, SlotsExact, InflightCovered, Underway, Outstanding
<1>9. StateHeld'
    <2>1. \A b \in Archives \ {a} : running'[b] = running[b]
        BY <1>2, <1>3 DEF Inv, TypeOK
    <2> QED
        BY <1>1, <1>5, <2>1, SMTT(30) DEF Inv, StateHeld
<1>10. ReadersOK'
    BY <1>1, <1>5, SMTT(30) DEF Inv, ReadersOK
<1>11. WaitersTrue'
    <2> SUFFICES ASSUME NEW b \in Archives, NEW d \in Callers, NEW k \in Chunks,
                        <<d, k>> \in waiters'[b]
                 PROVE  /\ cpc'[d] \in {"waiting", "done"}
                        /\ cpc'[d] = "waiting" => archive'[d] = b /\ k \in want'[d]
                                                /\ box'[d][k] = Nothing
        BY DEF WaitersTrue, Live
    <2>1. UNCHANGED <<archive, want, box>>
        BY <1>1 DEF bounds
    <2>2. CASE <<d, k>> \in waiters[b]
        <3>1. d # c
            BY <1>1, <2>2 DEF Inv, WaitersTrue
        <3> QED
            BY <1>5, <2>1, <2>2, <3>1, SMTT(30) DEF Inv, WaitersTrue, Live
    <2>3. CASE <<d, k>> \notin waiters[b]
        <3>1. b = a /\ d = c /\ k \in Missing(c)
            BY <1>5, <2>3, SMTT(30)
        <3> QED
            BY <1>5, <2>1, <3>1 DEF Missing, a
    <2> QED
        BY <2>2, <2>3
<1>12. WaiterCovered'
    <2> SUFFICES ASSUME NEW d \in Callers, Live(d)', NEW k \in want'[d],
                        box'[d][k] \in {Nothing, Dropped}
                 PROVE  /\ <<d, k>> \in waiters'[archive'[d]]
                        /\ k \in pending'[archive'[d]] \/ Underway(archive[d], k)'
        BY DEF WaiterCovered, Underway
    <2>1. UNCHANGED <<archive, want, box>> /\ (Underway(archive[d], k)' <=> Underway(archive[d], k))
        BY <1>1 DEF bounds, Underway, Outstanding
    <2>2. CASE d = c
        <3>1. k \in Chunks
            BY <2>1 DEF Inv, TypeOK
        <3>2. box[c][k] = Nothing
            BY <1>1, <1>3, <2>1, <2>2, <3>1, ResultAssumption DEF Inv, ReadersOK, a, Dropped, Nothing
        <3>3. k \in Missing(c)
            BY <2>1, <2>2, <3>2 DEF Missing
        <3>4. archive'[d] = a
            BY <2>1, <2>2 DEF a
        <3>5. k \in inflight[a] => Underway(a, k)
            BY <1>3 DEF Inv, InflightCovered
        <3> QED
            BY <1>5, <2>1, <2>2, <3>3, <3>4, <3>5
    <2>3. CASE d # c
        <3>1. Live(d)
            BY <1>5, <2>3 DEF Live
        <3>2. archive[d] \in Archives
            BY <3>1 DEF Inv, ReadersOK, Live
        <3>3. <<d, k>> \in waiters[archive[d]] /\ (k \in pending[archive[d]] \/ Underway(archive[d], k))
            BY <2>1, <3>1 DEF Inv, WaiterCovered, Underway
        <3> QED
            BY <1>5, <2>1, <3>2, <3>3
    <2> QED
        BY <2>2, <2>3
<1>13. GenerationPinned'
    BY <1>1 DEF Inv, GenerationPinned
<1> QED
    BY <1>6, <1>7, <1>8, <1>9, <1>10, <1>11, <1>12, <1>13 DEF Inv
-----------------------------------------------------------------------------
(* The detached fetch tasks, and whatever completes a range: a task, the   *)
(* guard of a dead task, or the scheduler that sheds it.                   *)

\* A step takes one range of an archive off the slots' books, and no other.
SlotFreed(a) ==
    \A b \in Archives :
        /\ Cardinality(Outstanding(b)') \in Nat /\ Len(todo'[b]) \in Nat
        /\ Cardinality(Outstanding(b)') + Len(todo'[b]) =
             IF b = a THEN count[b] - 1 ELSE count[b]

\* Only the chunks of that range stop being underway, and if it was the last
\* one and no scheduler runs then there were no others.
RangeOver(a, range) ==
    /\ \A b \in Archives, k \in Chunks :
         Underway(b, k) => Underway(b, k)' \/ (b = a /\ k \in Indices(range))
    /\ running[a] = FALSE /\ count[a] = 1 =>
         \A k \in Chunks : Underway(a, k) => k \in Indices(range)

\* A range of an archive completes, whoever completes it.
LEMMA CompletionStep ==
    ASSUME Inv, NEW a \in Archives, NEW range \in RangeType, NEW result \in {Failed, a},
           CompleteGroup(a, range, result), UNCHANGED <<stored, cache, bounds>>,
           GroupsOK', DataPinned', SchedulerOK',
           sched' \in [Archives -> {"off", "pass", "throttled", "dispatch", "shed"}],
           SlotFreed(a), RangeOver(a, range)
    PROVE  Inv'
<1> DEFINE answered == {w \in waiters[a] : w[2] \in Indices(range)}
           drained == Drainable(running[a], pending[a], count[a] - 1)
           lost == IF drained THEN waiters[a] ELSE {}
<1>0. /\ answered \subseteq waiters[a]
      /\ \A d \in Callers, k \in Chunks :
           <<d, k>> \in answered <=> <<d, k>> \in waiters[a] /\ k \in Indices(range)
    OBVIOUS
<1>1. count[a] \in Nat /\ count[a] > 0 /\ exists[a] = TRUE
    <2>1. count[a] \in Nat
        BY ChunkCoordinatorAssumption, SMTT(30) DEF Inv, TypeOK
    <2>2. count[a] - 1 >= 0
        <3> DEFINE m == Cardinality(Outstanding(a)')
                   n == Len(todo'[a])
        <3>1. m \in Nat /\ n \in Nat /\ m + n = count[a] - 1
            BY DEF SlotFreed
        <3> HIDE DEF m, n
        <3> QED
            BY <2>1, <3>1, SMTT(30)
    <2> QED
        BY <2>1, <2>2, SMTT(30) DEF Inv, TypeOK, StateHeld
<1>2. /\ count' = [count EXCEPT ![a] = count[a] - 1]
      /\ Deliver(answered, result, lost)
      /\ UNCHANGED <<pending, running, cpc, archive>>
    BY <1>1, SMTT(30) DEF CompleteGroup
<1> HIDE DEF answered
<1>3. \A d \in Callers, k \in Chunks :
        box'[d][k] = IF ~Live(d) THEN box[d][k]
                     ELSE IF <<d, k>> \in answered THEN result
                     ELSE IF <<d, k>> \in lost THEN Dropped ELSE box[d][k]
    BY <1>2 DEF Deliver
<1>4. drained => running[a] = FALSE /\ pending[a] = {} /\ count[a] = 1
    BY <1>1, SMTT(30) DEF Drainable, Inv, TypeOK
<1>5. \A d \in Callers, k \in Chunks : Live(d) /\ <<d, k>> \in lost => <<d, k>> \in answered
    <2> SUFFICES ASSUME NEW d \in Callers, NEW k \in Chunks, Live(d), drained,
                        <<d, k>> \in waiters[a]
                 PROVE  k \in Indices(range)
        BY <1>0
    <2>1. archive[d] = a /\ k \in want[d] /\ box[d][k] = Nothing
        BY SMTT(30) DEF Inv, WaitersTrue
    <2>2. k \in pending[a] \/ Underway(a, k)
        BY <2>1 DEF Inv, WaiterCovered, Underway
    <2> QED
        BY <1>4, <2>2 DEF RangeOver
<1>6. \/ /\ exists' = [exists EXCEPT ![a] = FALSE]
         /\ inflight' = [inflight EXCEPT ![a] = {}]
         /\ waiters' = [waiters EXCEPT ![a] = {}]
         /\ notified' = [notified EXCEPT ![a] = FALSE]
         /\ drained
      \/ /\ inflight' = [inflight EXCEPT ![a] = @ \ Indices(range)]
         /\ waiters' = [waiters EXCEPT ![a] = @ \ answered]
         /\ notified' = [notified EXCEPT ![a] = @ \/ NeedsCapacity(a)]
         /\ UNCHANGED exists
    BY <1>1, SMTT(30) DEF CompleteGroup, RemoveState, answered, drained
<1> HIDE DEF drained, lost
<1>7. /\ waiters' \in [Archives -> SUBSET (Callers \X Chunks)]
      /\ inflight' \in [Archives -> SUBSET Chunks]
      /\ exists' \in [Archives -> BOOLEAN]
    <2>1. waiters' \in [Archives -> SUBSET (Callers \X Chunks)]
        <3>1. {} \in SUBSET (Callers \X Chunks)
              /\ waiters[a] \ answered \in SUBSET (Callers \X Chunks)
            BY DEF Inv, TypeOK
        <3> QED
            BY <1>6, <3>1, ZenonT(30) DEF Inv, TypeOK
    <2>2. inflight' \in [Archives -> SUBSET Chunks]
        <3>1. {} \in SUBSET Chunks /\ inflight[a] \ Indices(range) \in SUBSET Chunks
            BY DEF Inv, TypeOK
        <3> QED
            BY <1>6, <3>1, ZenonT(30) DEF Inv, TypeOK
    <2>3. exists' \in [Archives -> BOOLEAN]
        BY <1>6, Zenon DEF Inv, TypeOK
    <2> QED
        BY <2>1, <2>2, <2>3
<1>8. \A b \in Archives : b # a =>
        /\ waiters'[b] = waiters[b] /\ inflight'[b] = inflight[b]
        /\ exists'[b] = exists[b] /\ count'[b] = count[b]
    BY <1>2, <1>6 DEF Inv, TypeOK
<1>9. /\ waiters'[a] \subseteq waiters[a] \ answered
      /\ inflight'[a] \subseteq inflight[a] \ Indices(range)
      /\ exists'[a] = FALSE =>
           waiters'[a] = {} /\ inflight'[a] = {} /\ drained
    BY <1>1, <1>6 DEF Inv, TypeOK
<1>10. \A d \in Callers, k \in Chunks :
         Live(d) /\ <<d, k>> \in waiters[a] => <<d, k>> \in answered \cup waiters'[a]
    <2>1. CASE drained
        BY <2>1, <1>5 DEF lost
    <2>2. CASE ~drained
        BY <2>2, <1>6, SMTT(30) DEF Inv, TypeOK
    <2> QED
        BY <2>1, <2>2
<1>11. \A d \in Callers, k \in Chunks :
         /\ Live(d) /\ <<d, k>> \in answered => box'[d][k] = result
         /\ ~Live(d) \/ <<d, k>> \notin answered => box'[d][k] = box[d][k]
    BY <1>3, <1>5, Zenon
<1>12. TypeOK'
    <2>1. notified' \in [Archives -> BOOLEAN]
        BY <1>6, Zenon DEF Inv, TypeOK
    <2>2. count' \in [Archives -> 0..MaxConcurrent]
        <3>1. count[a] - 1 \in 0..MaxConcurrent
            BY <1>1, ChunkCoordinatorAssumption, SMTT(30) DEF Inv, TypeOK
        <3> QED
            BY <1>2, <3>1 DEF Inv, TypeOK
    <2>3. box' \in [Callers -> [Chunks -> Archives \cup {Nothing, Failed, Dropped}]]
        <3>1. \A d \in Callers, k \in Chunks : box'[d][k] \in Archives \cup {Nothing, Failed, Dropped}
            <4>1. \A d \in Callers, k \in Chunks :
                    box[d][k] \in Archives \cup {Nothing, Failed, Dropped}
                BY SMTT(30) DEF Inv, TypeOK
            <4>2. result \in Archives \cup {Nothing, Failed, Dropped}
                OBVIOUS
            <4> QED
                BY <1>11, <4>1, <4>2, Zenon
        <3>2. box' = [d \in Callers |-> [k \in Chunks |-> box'[d][k]]]
            BY <1>2 DEF Deliver
        <3> QED
            BY <3>1, <3>2
    <2>4. \A g \in groups' : g.archive \in Archives /\ g.phase \in Phases
        BY DEF GroupsOK, GroupType
    <2> QED
        BY <1>2, <1>7, <2>1, <2>2, <2>3, <2>4 DEF Inv, TypeOK, bounds
<1>13. SlotsExact'
    <2> SUFFICES ASSUME NEW b \in Archives
                 PROVE  count'[b] = Cardinality(Outstanding(b)') + Len(todo'[b])
        BY DEF SlotsExact
    <2>1. count'[b] = IF b = a THEN count[b] - 1 ELSE count[b]
        BY <1>2 DEF Inv, TypeOK
    <2> QED
        BY <2>1 DEF SlotFreed
<1>14. StateHeld'
    BY <1>1, <1>2, <1>4, <1>8, <1>9, SMTT(30) DEF Inv, TypeOK, StateHeld
<1>15. InflightCovered'
    <2> SUFFICES ASSUME NEW b \in Archives, NEW k \in inflight'[b]
                 PROVE  Underway(b, k)'
        BY DEF InflightCovered
    <2>1. k \in inflight[b] /\ (b = a => k \notin Indices(range))
        BY <1>8, <1>9
    <2>2. k \in Chunks /\ Underway(b, k)
        BY <2>1 DEF Inv, TypeOK, InflightCovered
    <2> QED
        BY <2>1, <2>2 DEF RangeOver
<1>16. ReadersOK'
    <2> SUFFICES ASSUME NEW d \in Callers
                 PROVE  /\ cpc'[d] \in {"known", "missed", "waiting"} => archive'[d] \in Archives
                        /\ cpc'[d] = "missed" =>
                             \A k \in Chunks : box'[d][k] \in {Nothing, archive'[d]}
                        /\ cpc'[d] \notin {"missed", "waiting"} =>
                             \A k \in Chunks : box'[d][k] = Nothing
        BY DEF ReadersOK
    <2>1. ~Live(d) => \A k \in Chunks : box'[d][k] = box[d][k]
        BY <1>11, Zenon
    <2> QED
        BY <1>2, <2>1 DEF Inv, ReadersOK, Live
<1>17. WaitersTrue'
    <2> SUFFICES ASSUME NEW b \in Archives, NEW d \in Callers, NEW k \in Chunks,
                        <<d, k>> \in waiters'[b]
                 PROVE  /\ cpc'[d] \in {"waiting", "done"}
                        /\ cpc'[d] = "waiting" => archive'[d] = b /\ k \in want'[d]
                                                /\ box'[d][k] = Nothing
        BY DEF WaitersTrue, Live
    <2>1. <<d, k>> \in waiters[b] /\ (b = a => <<d, k>> \notin answered)
        BY <1>8, <1>9
    <2>2. /\ cpc[d] \in {"waiting", "done"}
          /\ Live(d) => archive[d] = b /\ k \in want[d] /\ box[d][k] = Nothing
        BY <2>1, SMTT(30) DEF Inv, WaitersTrue
    <2>3. Live(d) => <<d, k>> \notin answered
        <3>1. <<d, k>> \in answered => <<d, k>> \in waiters[a]
            BY <1>0
        <3>2. Live(d) /\ <<d, k>> \in waiters[a] => archive[d] = a
            BY DEF Inv, WaitersTrue
        <3> QED
            BY <2>1, <2>2, <3>1, <3>2
    <2> QED
        BY <1>2, <1>11, <2>2, <2>3 DEF Live, bounds
<1>18. WaiterCovered'
    <2> SUFFICES ASSUME NEW d \in Callers, Live(d)', NEW k \in want'[d],
                        box'[d][k] \in {Nothing, Dropped}
                 PROVE  /\ <<d, k>> \in waiters'[archive'[d]]
                        /\ k \in pending'[archive'[d]] \/ Underway(archive[d], k)'
        BY DEF WaiterCovered, Underway
    <2>1. Live(d) /\ UNCHANGED <<archive, want, pending>>
        BY <1>2 DEF Live, bounds
    <2>2. k \in Chunks /\ archive[d] \in Archives
        BY <2>1 DEF Inv, TypeOK, ReadersOK, Live
    <2>3. <<d, k>> \notin answered /\ box[d][k] \in {Nothing, Dropped}
        <3>1. result \notin {Nothing, Dropped}
            BY ResultAssumption DEF Nothing, Failed, Dropped
        <3> QED
            BY <1>11, <2>1, <2>2, <3>1
    <2>4. <<d, k>> \in waiters[archive[d]] /\ (k \in pending[archive[d]] \/ Underway(archive[d], k))
        BY <2>1, <2>3 DEF Inv, WaiterCovered, Underway
    <2>5. archive[d] = a => k \notin Indices(range)
        BY <1>0, <2>2, <2>3, <2>4
    <2>6. <<d, k>> \in waiters'[archive[d]]
        BY <1>8, <1>10, <2>1, <2>2, <2>3, <2>4
    <2>7. Underway(archive[d], k) => Underway(archive[d], k)'
        <3> DEFINE b == archive[d]
        <3>1. b \in Archives /\ b' = b
            BY <2>1, <2>2
        <3> QED
            BY <2>2, <2>5, <2>1 DEF RangeOver, Underway, Outstanding
    <2> QED
        BY <2>1, <2>4, <2>6, <2>7
<1>19. GenerationPinned'
    <2> SUFFICES ASSUME NEW d \in Callers, NEW k \in Chunks, box'[d][k] \in Archives
                 PROVE  box'[d][k] = archive'[d]
        BY DEF Inv, GenerationPinned
    <2>1. CASE Live(d) /\ <<d, k>> \in answered
        <3>1. archive[d] = a
            BY <1>0, <2>1 DEF Inv, WaitersTrue
        <3> QED
            BY <1>2, <1>11, <2>1, <3>1, ResultAssumption
    <2>2. CASE ~(Live(d) /\ <<d, k>> \in answered)
        BY <1>2, <1>11, <2>2 DEF Inv, GenerationPinned
    <2> QED
        BY <2>1, <2>2
<1> QED
    BY <1>12, <1>13, <1>14, <1>15, <1>16, <1>17, <1>18, <1>19 DEF Inv

-----------------------------------------------------------------------------
(* The detached tasks again.                                               *)

\* Nothing that was underway stops being so.
NothingOver == \A b \in Archives, k \in Chunks : Underway(b, k) => Underway(b, k)'

\* Steps that change nothing a reader sees keep what readers rely on.
LEMMA AnswersKept ==
    ASSUME Inv, UNCHANGED <<cpc, archive, box, want, waiters, pending, inflight>>, NothingOver,
           \A a \in Archives, k \in Chunks : cache'[a][k] \in {Nothing, a}
    PROVE  AnswersOK' /\ InflightCovered'
<1>1. ReadersOK'
    BY DEF Inv, ReadersOK
<1>2. WaitersTrue'
    BY SMTT(30) DEF Inv, WaitersTrue, Live
<1>3. WaiterCovered'
    <2> SUFFICES ASSUME NEW d \in Callers, Live(d), NEW k \in want[d],
                        box[d][k] \in {Nothing, Dropped}
                 PROVE  /\ <<d, k>> \in waiters[archive[d]]
                        /\ k \in pending[archive[d]] \/ Underway(archive[d], k)'
        BY DEF WaiterCovered, Underway, Live
    <2>1. <<d, k>> \in waiters[archive[d]] /\ (k \in pending[archive[d]] \/ Underway(archive[d], k))
        BY DEF Inv, WaiterCovered, Underway
    <2>2. k \in Chunks /\ archive[d] \in Archives
        BY DEF Inv, TypeOK, ReadersOK, Live
    <2>3. Underway(archive[d], k) => Underway(archive[d], k)'
        BY <2>2 DEF NothingOver, Underway, Outstanding
    <2> QED
        BY <2>1, <2>3
<1>4. GenerationPinned'
    BY DEF Inv, GenerationPinned
<1>5. InflightCovered'
    BY DEF Inv, TypeOK, InflightCovered, NothingOver
<1> QED
    BY <1>1, <1>2, <1>3, <1>4, <1>5 DEF AnswersOK

\* A fetch advances, fails or dies: its range stays underway.
LEMMA FetchMoves ==
    ASSUME Facts, Inv, NEW g \in groups, NEW phase \in Phases \ {"finished"}, NEW data \in Results,
           g.phase # "finished", Move(g, phase, data), GroupUnchanged, want' = want,
           phase = "body" => data = g.archive,
           phase \in {"completing", "orphaned"} => data \in {Failed, g.archive},
           deaths' \in Nat, replacements' \in Nat,
           cache' \in [Archives -> [Chunks -> Archives \cup {Nothing}]],
           \A a \in Archives, k \in Chunks : cache'[a][k] \in {Nothing, a}
    PROVE  Inv'
<1> DEFINE h == [g EXCEPT !.phase = phase, !.data = data]
<1>1. /\ h.archive = g.archive /\ h.phase = phase /\ h.range = g.range /\ h.data = data
      /\ groups' = (groups \ {g}) \cup {h}
    BY DEF Inv, GroupsOK, GroupType, Move
<1> HIDE DEF h
<1>2. GroupsOK'
    BY MoveStep DEF Inv
<1>3. DataPinned'
    BY <1>1 DEF Inv, DataPinned
<1>4. \A a \in Archives : Cardinality(Outstanding(a)') = Cardinality(Outstanding(a))
    BY MoveStep DEF Inv
<1>5. SlotsExact' /\ SchedulerOK' /\ StateHeld'
    BY <1>4 DEF Inv, SlotsExact, SchedulerOK, StateHeld, GroupUnchanged, stateVars
<1>6. NothingOver
    <2> SUFFICES ASSUME NEW b \in Archives, NEW k \in Chunks, NEW x \in Outstanding(b),
                        k \in Indices(x.range)
                 PROVE  \E y \in Outstanding(b)' : k \in Indices(y.range)
        BY DEF NothingOver, Underway, GroupUnchanged
    <2>1. CASE x = g
        BY <1>1, <2>1 DEF Outstanding
    <2>2. CASE x # g
        BY <1>1, <2>2 DEF Outstanding
    <2> QED
        BY <2>1, <2>2
<1>7. TypeOK'
    <2>1. \A x \in groups' : x.archive \in Archives /\ x.phase \in Phases
        BY <1>2 DEF GroupsOK, GroupType
    <2> QED
        BY <2>1 DEF Inv, TypeOK, GroupUnchanged, stateVars, callerVars
<1>8. AnswersOK' /\ InflightCovered'
    BY <1>6, AnswersKept DEF GroupUnchanged, stateVars, callerVars
<1> QED
    BY <1>2, <1>3, <1>5, <1>7, <1>8 DEF Inv, AnswersOK

\* The steps of a fetch before its completion.
LEMMA FetchStep ==
    ASSUME Facts, Inv, NEW g \in groups,
           Admitted(g) \/ Responds(g) \/ BodyArrives(g) \/ FetchFails(g) \/ TaskDies(g)
    PROVE  Inv'
<1>1. g.archive \in Archives /\ g.data \in Results /\ g \in GroupType
    BY DEF Inv, GroupsOK, GroupType
<1>2. /\ "active" \in Phases \ {"finished"} /\ "body" \in Phases \ {"finished"}
      /\ "completing" \in Phases \ {"finished"} /\ "orphaned" \in Phases \ {"finished"}
    BY DEF Phases
<1>3. Nothing \in Results /\ Failed \in Results /\ \A a \in Archives : a \in Results
    BY DEF Results
<1>4. /\ stored \in Archives /\ deaths \in Nat /\ replacements \in Nat
      /\ cache \in [Archives -> [Chunks -> Archives \cup {Nothing}]]
      /\ \A a \in Archives, k \in Chunks : cache[a][k] \in {Nothing, a}
    BY DEF Inv, TypeOK, GenerationPinned
<1>5. CASE Admitted(g)
    BY <1>2, <1>3, <1>4, <1>5, FetchMoves DEF Admitted, bounds
<1>6. CASE Responds(g)
    <2>1. CASE stored = g.archive
        BY <1>2, <1>3, <1>4, <1>6, <2>1, FetchMoves DEF Responds, bounds
    <2>2. CASE stored # g.archive
        BY <1>2, <1>3, <1>4, <1>6, <2>2, FetchMoves DEF Responds, bounds
    <2> QED
        BY <2>1, <2>2
<1>7. CASE FetchFails(g)
    BY <1>2, <1>3, <1>4, <1>7, FetchMoves DEF FetchFails, bounds
<1>8. CASE TaskDies(g)
    <2>1. deaths' \in Nat
        BY <1>4, <1>8, SMTT(30) DEF TaskDies
    <2> QED
        BY <1>2, <1>3, <1>4, <1>8, <2>1, FetchMoves DEF TaskDies, bounds
<1>9. CASE BodyArrives(g)
    <2>1. g.data = g.archive
        BY <1>9 DEF BodyArrives, Inv, DataPinned
    <2> DEFINE kept == [k \in Chunks |-> IF k \in Indices(g.range) THEN g.data
                                         ELSE cache[g.archive][k]]
    <2>2. cache' = [cache EXCEPT ![g.archive] = kept]
        BY <1>9 DEF BodyArrives
    <2>3. kept \in [Chunks -> Archives \cup {Nothing}]
          /\ \A k \in Chunks : kept[k] \in {Nothing, g.archive}
        BY <1>1, <1>4, <2>1
    <2> HIDE DEF kept
    <2>4. /\ cache' \in [Archives -> [Chunks -> Archives \cup {Nothing}]]
          /\ \A a \in Archives, k \in Chunks : cache'[a][k] \in {Nothing, a}
        BY <1>1, <1>4, <2>2, <2>3
    <2> QED
        BY <1>1, <1>2, <1>3, <1>4, <1>9, <2>1, <2>4, FetchMoves DEF BodyArrives, bounds
<1> QED
    BY <1>5, <1>6, <1>7, <1>8, <1>9

\* A task that has completed gives its permit back.
LEMMA ReleaseStep ==
    ASSUME Facts, Inv, NEW g \in groups, ReleasePermit(g)
    PROVE  Inv'
<1>1. /\ g.phase = "finished" /\ groups' = groups \ {g}
      /\ UNCHANGED <<stored, stateVars, sched, todo, callerVars, cache, bounds>>
    BY DEF ReleasePermit, GroupUnchanged
<1>2. GroupsOK'
    BY <1>1 DEF Inv, GroupsOK, Facts, SetFacts, CountRemoved
<1>3. \A a \in Archives : Outstanding(a)' = Outstanding(a)
    BY <1>1 DEF Outstanding
<1>4. SlotsExact' /\ SchedulerOK' /\ StateHeld' /\ DataPinned'
    BY <1>1, <1>3 DEF Inv, SlotsExact, SchedulerOK, StateHeld, DataPinned, stateVars
<1>5. NothingOver
    BY <1>1, <1>3 DEF NothingOver, Underway
<1>6. TypeOK'
    BY <1>1 DEF Inv, TypeOK, stateVars, callerVars, bounds
<1>7. AnswersOK' /\ InflightCovered'
    BY <1>1, <1>5, AnswersKept, Zenon DEF Inv, GenerationPinned, stateVars, callerVars, bounds
<1> QED
    BY <1>2, <1>4, <1>6, <1>7 DEF Inv, AnswersOK

\* A task completes its range, or its guard does after it died.
LEMMA CompleteStep ==
    ASSUME Facts, Inv, NEW g \in groups, Complete(g)
    PROVE  Inv'
<1> DEFINE a == g.archive
<1>1. /\ a \in Archives /\ g.range \in RangeType /\ g.data \in {Failed, a}
      /\ g.phase \in {"completing", "orphaned"}
    BY Zenon DEF Complete, Inv, GroupsOK, GroupType, DataPinned
<1>2. /\ CompleteGroup(a, g.range, g.data)
      /\ UNCHANGED <<stored, cache, sched, todo, bounds>>
    BY DEF Complete
<1>3. g \in Outstanding(a) /\ \A b \in Archives : IsFiniteSet(Outstanding(b))
    <2>1. \A b \in Archives : Outstanding(b) \in SUBSET groups
        BY DEF Outstanding
    <2> QED
        BY <1>1, <2>1 DEF Inv, GroupsOK, Outstanding, Facts, SetFacts, PartFinite
<1>4. /\ GroupsOK' /\ DataPinned'
      /\ \A b \in Archives :
           Cardinality(Outstanding(b)') =
             IF b = a THEN Cardinality(Outstanding(b)) - 1 ELSE Cardinality(Outstanding(b))
      /\ \A x \in groups \ {g} : x \in groups'
    <2>1. CASE g.phase = "completing"
        <3>1. Move(g, "finished", Nothing)
            BY <2>1 DEF Complete
        <3>2. "finished" \in Phases /\ Nothing \in Results
            BY DEF Phases, Results
        <3>3. [g EXCEPT !.phase = "finished", !.data = Nothing].phase = "finished"
            BY DEF Inv, GroupsOK, GroupType
        <3>4. DataPinned'
            BY <3>1, <3>3, Zenon DEF Inv, DataPinned, Move
        <3>5. \A x \in groups \ {g} : x \in groups'
            BY <3>1 DEF Move
        <3> QED
            BY <1>1, <2>1, <3>1, <3>2, <3>4, <3>5, MoveStep DEF Inv
    <2>2. CASE g.phase = "orphaned"
        <3>1. groups' = groups \ {g}
            BY <2>2 DEF Complete
        <3>2. GroupsOK' /\ DataPinned'
            BY <3>1 DEF Inv, GroupsOK, DataPinned, Facts, SetFacts, CountRemoved
        <3>3. ASSUME NEW b \in Archives
              PROVE  Outstanding(b)' = IF b = a THEN Outstanding(b) \ {g} ELSE Outstanding(b)
            BY <3>1 DEF Outstanding
        <3> QED
            BY <1>1, <1>3, <3>1, <3>2, <3>3 DEF Facts, SetFacts, CountRemoved
    <2> QED
        BY <1>1, <2>1, <2>2
<1> HIDE DEF a
<1>5. SlotFreed(a)
    <2> SUFFICES ASSUME NEW b \in Archives
                 PROVE  /\ Cardinality(Outstanding(b)') \in Nat /\ Len(todo'[b]) \in Nat
                        /\ Cardinality(Outstanding(b)') + Len(todo'[b]) =
                             IF b = a THEN count[b] - 1 ELSE count[b]
        BY DEF SlotFreed
    <2>1. Len(todo[b]) \in Nat
        BY DEF Inv, SchedulerOK, Facts, SeqFacts
    <2>2. Cardinality(Outstanding(b)) \in Nat /\ (b = a => Cardinality(Outstanding(b)) # 0)
        BY <1>3 DEF Facts, SetFacts, CountIsNat, CountEmpty
    <2>3. count[b] = Cardinality(Outstanding(b)) + Len(todo[b])
        BY DEF Inv, SlotsExact
    <2>4. todo'[b] = todo[b]
        BY <1>2
    <2> QED
        BY <1>4, <2>1, <2>2, <2>3, <2>4, SMTT(30)
<1>6. RangeOver(a, g.range)
    <2>1. ASSUME NEW b \in Archives, NEW k \in Chunks, Underway(b, k)
          PROVE  Underway(b, k)' \/ (b = a /\ k \in Indices(g.range))
        <3>1. CASE k \in Covered(todo[b])
            BY <1>2, <3>1 DEF Underway
        <3>2. CASE k \notin Covered(todo[b])
            <4>1. PICK x \in Outstanding(b) : k \in Indices(x.range)
                BY <2>1, <3>2 DEF Underway
            <4>2. CASE x = g
                BY <4>1, <4>2 DEF Outstanding, a
            <4>3. CASE x # g
                BY <1>4, <4>1, <4>3 DEF Outstanding, Underway
            <4> QED
                BY <4>2, <4>3
        <3> QED
            BY <3>1, <3>2
    <2>2. ASSUME running[a] = FALSE, count[a] = 1, NEW k \in Chunks, Underway(a, k)
          PROVE  k \in Indices(g.range)
        <3>1. todo[a] = <<>>
            BY <1>1, <2>2 DEF Inv, SchedulerOK
        <3>2. Covered(todo[a]) = {} /\ Len(todo[a]) = 0
            BY <3>1, SMTT(30) DEF Covered
        <3>3. Cardinality(Outstanding(a)) = 1
            <4>1. Cardinality(Outstanding(a)) \in Nat
                BY <1>1, <1>3 DEF Facts, SetFacts, CountIsNat
            <4>2. count[a] = Cardinality(Outstanding(a)) + Len(todo[a])
                BY <1>1 DEF Inv, SlotsExact
            <4> QED
                BY <2>2, <3>2, <4>1, <4>2, SMTT(30)
        <3>4. Outstanding(a) = {g}
            BY <1>1, <1>3, <3>3, SMTT(30) DEF Facts, SetFacts, CountOne
        <3> QED
            BY <2>2, <3>2, <3>4 DEF Underway
    <2> QED
        BY <2>1, <2>2, Zenon DEF RangeOver
<1>7. SchedulerOK' /\ sched' \in [Archives -> {"off", "pass", "throttled", "dispatch", "shed"}]
    <2>1. UNCHANGED running
        BY <1>2, ZenonT(30) DEF CompleteGroup, stateVars
    <2> QED
        BY <1>2, <2>1 DEF Inv, TypeOK, SchedulerOK
<1> QED
    BY <1>1, <1>2, <1>4, <1>5, <1>6, <1>7, CompletionStep

-----------------------------------------------------------------------------
(* The scheduler.                                                          *)

\* The scheduler takes the first selected range: the others stay selected.
LEMMA NextRangeStep ==
    ASSUME Facts, Inv, NEW a \in Archives, sched[a] \in {"dispatch", "shed"}, NextRange(a),
           UNCHANGED running
    PROVE  /\ Head(todo[a]) \in RangeType
           /\ sched' \in [Archives -> {"off", "pass", "throttled", "dispatch", "shed"}]
           /\ SchedulerOK'
           /\ Len(todo[a]) \in Nat /\ Len(todo'[a]) \in Nat /\ Len(todo'[a]) + 1 = Len(todo[a])
           /\ \A k \in Covered(todo[a]) : k \in Indices(Head(todo[a])) \/ k \in Covered(todo'[a])
           /\ \A b \in Archives : b # a => todo'[b] = todo[b]
<1> DEFINE s == todo[a]
           at == IF Len(s) > 1 THEN "dispatch" ELSE "pass"
<1>1. s \in Seq(RangeType) /\ s # <<>> /\ todo \in [Archives -> Seq(RangeType)]
    BY DEF Inv, SchedulerOK
<1>2. todo' = [todo EXCEPT ![a] = Tail(s)] /\ sched' = [sched EXCEPT ![a] = at]
    BY DEF NextRange
<1>3. sched \in [Archives -> {"off", "pass", "throttled", "dispatch", "shed"}]
    BY DEF Inv, TypeOK
<1>4. /\ Head(s) \in RangeType /\ Tail(s) \in Seq(RangeType) /\ Len(Tail(s)) = Len(s) - 1
      /\ \A i \in 1..Len(Tail(s)) : Tail(s)[i] = s[i + 1]
    BY <1>1 DEF Facts, TailFacts
<1>5. /\ Len(s) \in Nat /\ Len(Tail(s)) \in Nat
      /\ DOMAIN s = 1..Len(s) /\ DOMAIN Tail(s) = 1..Len(Tail(s))
    BY <1>1, <1>4 DEF Facts, SeqFacts
<1>6. Tail(s) # <<>> <=> Len(s) > 1
    BY <1>1 DEF Facts, TailFacts
<1>7. at \in {"dispatch", "pass"} /\ (at = "dispatch" <=> Len(s) > 1)
    OBVIOUS
<1>8. \A k \in Covered(s) : k \in Indices(Head(s)) \/ k \in Covered(Tail(s))
    <2> SUFFICES ASSUME NEW i \in 1..Len(s), NEW k \in Indices(s[i])
                 PROVE  k \in Indices(Head(s)) \/ k \in Covered(Tail(s))
        BY <1>5 DEF Covered
    <2>1. CASE i = 1
        BY <2>1, <1>1, SMTT(30)
    <2>2. CASE i # 1
        <3>1. i - 1 \in DOMAIN Tail(s) /\ Tail(s)[i - 1] = s[i]
            BY <1>4, <1>5, <2>2, SMTT(30)
        <3> QED
            BY <3>1 DEF Covered
    <2> QED
        BY <2>1, <2>2
<1> HIDE DEF at
<1>9. /\ todo'[a] = Tail(s) /\ sched'[a] = at
      /\ \A b \in Archives : b # a => todo'[b] = todo[b] /\ sched'[b] = sched[b]
    BY <1>1, <1>2, <1>3
<1>10. sched' \in [Archives -> {"off", "pass", "throttled", "dispatch", "shed"}]
    <2>1. at \in {"off", "pass", "throttled", "dispatch", "shed"}
        BY <1>7
    <2> QED
        BY <1>2, <1>3, <2>1
<1>11. SchedulerOK'
    <2>1. todo' \in [Archives -> Seq(RangeType)]
        BY <1>1, <1>2, <1>4
    <2> SUFFICES ASSUME NEW b \in Archives
                 PROVE  /\ sched'[b] \in {"dispatch", "shed"} <=> todo'[b] # <<>>
                        /\ running'[b] = TRUE <=> sched'[b] # "off"
        BY <2>1, Zenon DEF SchedulerOK
    <2>2. CASE b = a
        <3>1. running[a] = TRUE
            BY DEF Inv, SchedulerOK
        <3> QED
            BY <1>6, <1>7, <1>9, <2>2, <3>1, Zenon
    <2>3. CASE b # a
        BY <1>9, <2>3 DEF Inv, SchedulerOK
    <2> QED
        BY <2>2, <2>3, Zenon
<1> QED
    BY <1>4, <1>5, <1>8, <1>9, <1>10, <1>11, SMTT(30)

\* A range that finds no permit completes as overloaded.
LEMMA ShedStep ==
    ASSUME Facts, Inv, NEW a \in Archives, Shed(a)
    PROVE  Inv'
<1> DEFINE r == Head(todo[a])
<1>1. /\ sched[a] \in {"dispatch", "shed"} /\ NextRange(a) /\ CompleteGroup(a, r, Failed)
      /\ UNCHANGED <<stored, cache, groups, bounds>>
    BY DEF Shed
<1>2. UNCHANGED running
    BY <1>1, ZenonT(30) DEF CompleteGroup, stateVars
<1>3. /\ r \in RangeType /\ SchedulerOK'
      /\ sched' \in [Archives -> {"off", "pass", "throttled", "dispatch", "shed"}]
      /\ Len(todo[a]) \in Nat /\ Len(todo'[a]) \in Nat /\ Len(todo'[a]) + 1 = Len(todo[a])
      /\ \A k \in Covered(todo[a]) : k \in Indices(r) \/ k \in Covered(todo'[a])
      /\ \A b \in Archives : b # a => todo'[b] = todo[b]
    BY <1>1, <1>2, NextRangeStep, Zenon
<1> HIDE DEF r
<1>4. \A b \in Archives : Outstanding(b)' = Outstanding(b) /\ Outstanding(b) \in SUBSET groups
    BY <1>1 DEF Outstanding
<1>5. SlotFreed(a)
    <2> SUFFICES ASSUME NEW b \in Archives
                 PROVE  /\ Cardinality(Outstanding(b)') \in Nat /\ Len(todo'[b]) \in Nat
                        /\ Cardinality(Outstanding(b)') + Len(todo'[b]) =
                             IF b = a THEN count[b] - 1 ELSE count[b]
        BY DEF SlotFreed
    <2>1. Len(todo[b]) \in Nat
        BY DEF Inv, SchedulerOK, Facts, SeqFacts
    <2>2. Cardinality(Outstanding(b)) \in Nat
        BY <1>4 DEF Inv, GroupsOK, Facts, SetFacts, PartFinite, CountIsNat
    <2>3. count[b] = Cardinality(Outstanding(b)) + Len(todo[b])
        BY DEF Inv, SlotsExact
    <2> QED
        BY <1>3, <1>4, <2>1, <2>2, <2>3, SMTT(30)
<1>6. RangeOver(a, r)
    <2>1. running[a] = TRUE
        BY <1>1, ZenonT(30) DEF Inv, SchedulerOK
    <2> QED
        BY <1>3, <1>4, <2>1 DEF RangeOver, Underway
<1>7. GroupsOK' /\ DataPinned'
    BY <1>1, Zenon DEF Inv, GroupsOK, DataPinned
<1> QED
    BY <1>1, <1>3, <1>5, <1>6, <1>7, CompletionStep, Zenon
-----------------------------------------------------------------------------
(* The scheduler's steps, the object store's and the cache's.              *)

\* A range gets a permit and a task of its own, or is about to be shed.
LEMMA DispatchStep ==
    ASSUME Facts, IdsLeft, Inv, NEW a \in Archives, Dispatch(a)
    PROVE  Inv'
<1>1. sched[a] = "dispatch" /\ UNCHANGED <<stored, cache, stateVars, callerVars, bounds>>
    BY DEF Dispatch
<1>2. CASE GroupPermitFree
    <2> DEFINE g == [id |-> NewId, archive |-> a, range |-> Head(todo[a]),
                     phase |-> "queued", data |-> Nothing]
    <2>1. groups' = groups \cup {g} /\ NextRange(a)
        BY <1>2 DEF Dispatch
    <2>2. /\ Head(todo[a]) \in RangeType /\ SchedulerOK'
          /\ sched' \in [Archives -> {"off", "pass", "throttled", "dispatch", "shed"}]
          /\ Len(todo[a]) \in Nat /\ Len(todo'[a]) \in Nat /\ Len(todo'[a]) + 1 = Len(todo[a])
          /\ \A k \in Covered(todo[a]) : k \in Indices(Head(todo[a])) \/ k \in Covered(todo'[a])
          /\ \A b \in Archives : b # a => todo'[b] = todo[b]
        BY <1>1, <2>1, NextRangeStep DEF stateVars
    <2>3. /\ g \in GroupType /\ g.id = NewId /\ g.archive = a /\ g.range = Head(todo[a])
          /\ g.phase = "queued" /\ \A x \in groups : x.id # g.id
        <3>1. "queued" \in Phases /\ Nothing \in Results
            BY DEF Phases, Results
        <3> QED
            BY <2>2, <3>1, Zenon DEF Inv, GroupType, IdsLeft
    <2> HIDE DEF g
    <2>4. GroupsOK' /\ DataPinned' /\ g \notin groups
        BY <2>1, <2>3 DEF Inv, GroupsOK, DataPinned, Facts, SetFacts, CountAdded
    <2>5. ASSUME NEW b \in Archives
          PROVE  Outstanding(b)' = IF b = a THEN Outstanding(b) \cup {g} ELSE Outstanding(b)
        BY <2>1, <2>3 DEF Outstanding
    <2>6. SlotsExact'
        <3> SUFFICES ASSUME NEW b \in Archives
                     PROVE  count'[b] = Cardinality(Outstanding(b)') + Len(todo'[b])
            BY DEF SlotsExact
        <3>1. Outstanding(b) \in SUBSET groups
            BY DEF Outstanding
        <3>2. IsFiniteSet(Outstanding(b)) /\ Cardinality(Outstanding(b)) \in Nat
            BY <3>1 DEF Inv, GroupsOK, Facts, SetFacts, PartFinite, CountIsNat
        <3>3. count'[b] = Cardinality(Outstanding(b)) + Len(todo[b])
            BY <1>1 DEF Inv, SlotsExact, stateVars
        <3>4. CASE b = a
            <4>1. Cardinality(Outstanding(b)') = Cardinality(Outstanding(b)) + 1
                BY <2>4, <2>5, <3>1, <3>2, <3>4, SMTT(30) DEF Facts, SetFacts, CountAdded
            <4> QED
                BY <2>2, <3>2, <3>3, <3>4, <4>1, SMTT(30)
        <3>5. CASE b # a
            BY <2>2, <2>5, <3>3, <3>5
        <3> QED
            BY <3>4, <3>5
    <2>7. NothingOver
        BY <2>2, <2>3, <2>5 DEF NothingOver, Underway
    <2>8. TypeOK'
        <3>1. \A x \in groups' : x.archive \in Archives /\ x.phase \in Phases
            BY <2>4 DEF GroupsOK, GroupType
        <3> QED
            BY <1>1, <2>2, <3>1 DEF Inv, TypeOK, stateVars, callerVars, bounds
    <2>9. AnswersOK' /\ InflightCovered'
        BY <1>1, <2>7, AnswersKept DEF Inv, GenerationPinned, stateVars, callerVars, bounds
    <2>10. StateHeld'
        BY <1>1 DEF Inv, StateHeld, stateVars
    <2> QED
        BY <2>2, <2>4, <2>6, <2>8, <2>9, <2>10 DEF Inv, AnswersOK
<1>3. CASE ~GroupPermitFree
    <2>1. sched' = [sched EXCEPT ![a] = "shed"] /\ UNCHANGED <<groups, todo>>
        BY <1>3 DEF Dispatch
    <2>2. TypeOK'
        BY <1>1, <2>1 DEF Inv, TypeOK, stateVars, callerVars, bounds
    <2>3. SchedulerOK'
        <3>1. sched'[a] = "shed" /\ \A b \in Archives : b # a => sched'[b] = sched[b]
            BY <2>1 DEF Inv, TypeOK
        <3> QED
            BY <1>1, <2>1, <3>1 DEF Inv, SchedulerOK, stateVars
    <2>4. NothingOver /\ SlotsExact' /\ GroupsOK' /\ DataPinned' /\ StateHeld'
        BY <1>1, <2>1 DEF Inv, NothingOver, Underway, Outstanding, SlotsExact, GroupsOK,
                          DataPinned, StateHeld, stateVars
    <2>5. AnswersOK' /\ InflightCovered'
        BY <1>1, <2>4, AnswersKept DEF Inv, GenerationPinned, stateVars, callerVars, bounds
    <2> QED
        BY <2>2, <2>3, <2>4, <2>5 DEF Inv, AnswersOK
<1> QED
    BY <1>2, <1>3

\* Only waiters whose reader is gone are forgotten.
WaitersPruned ==
    \A b \in Archives :
        /\ waiters'[b] \subseteq waiters[b]
        /\ \A d \in Callers, k \in Chunks :
             Live(d) /\ <<d, k>> \in waiters[b] => <<d, k>> \in waiters'[b]

\* A chunk with a live waiter stays queued or underway.
ClaimsKept ==
    \A b \in Archives, d \in Callers, k \in Chunks :
        Live(d) /\ <<d, k>> \in waiters[b] /\ (k \in pending[b] \/ Underway(b, k)) =>
            k \in pending'[b] \/ Underway(b, k)'

\* Pruning keeps what live readers rely on.
LEMMA AnswersPruned ==
    ASSUME Inv, UNCHANGED <<cpc, archive, box, want, cache>>, WaitersPruned, ClaimsKept
    PROVE  AnswersOK'
<1>1. ReadersOK' /\ GenerationPinned'
    BY DEF Inv, ReadersOK, GenerationPinned
<1>2. WaitersTrue'
    BY SMTT(30) DEF Inv, WaitersTrue, WaitersPruned, Live
<1>3. WaiterCovered'
    <2> SUFFICES ASSUME NEW d \in Callers, Live(d), NEW k \in want[d],
                        box[d][k] \in {Nothing, Dropped}
                 PROVE  /\ <<d, k>> \in waiters'[archive[d]]
                        /\ k \in pending'[archive[d]] \/ Underway(archive[d], k)'
        BY DEF WaiterCovered, Underway, Live
    <2>1. k \in Chunks /\ archive[d] \in Archives
        BY DEF Inv, TypeOK, ReadersOK, Live
    <2>2. /\ <<d, k>> \in waiters[archive[d]]
          /\ k \in pending[archive[d]] \/ Underway(archive[d], k)
        BY DEF Inv, WaiterCovered, Underway
    <2>3. <<d, k>> \in waiters'[archive[d]]
        BY <2>1, <2>2 DEF WaitersPruned
    <2>4. k \in pending'[archive[d]] \/ Underway(archive[d], k)'
        BY <2>1, <2>2 DEF ClaimsKept, Underway, Outstanding
    <2> QED
        BY <2>3, <2>4
<1> QED
    BY <1>1, <1>2, <1>3 DEF AnswersOK

\* What a pass selects: at least one range and no more than there are slots.
LEMMA SelectedRanges ==
    ASSUME Facts, NEW a \in Archives, NEW S \in SUBSET Chunks, S # {},
           count[a] \in Nat, count[a] < MaxConcurrent
    PROVE  /\ Selected(a, S) \in Seq(RangeType) /\ Selected(a, S) # <<>>
           /\ Covered(Selected(a, S)) \subseteq Chunks
           /\ Len(Selected(a, S)) \in Nat /\ count[a] + Len(Selected(a, S)) <= MaxConcurrent
<1> DEFINE plan == ContiguousChunkRanges(S, MaxFetchChunks, MaxChunkGap)
           n == Least(Len(plan), MaxConcurrent - count[a])
<1>1. /\ plan \in Seq(RangeType) /\ plan # <<>>
      /\ \A i \in DOMAIN plan : Indices(plan[i]) \subseteq Chunks
    BY PlanAssumption DEF RangeType
<1>2. Selected(a, S) = SubSeq(plan, 1, n)
    BY DEF Selected
<1> HIDE DEF plan
<1>3. /\ Len(plan) \in Nat \ {0} /\ DOMAIN plan = 1..Len(plan)
      /\ \A i \in 1..Len(plan) : plan[i] \in RangeType
    BY <1>1 DEF Facts, SeqFacts
<1>4. /\ n \in Nat \ {0} /\ n <= Len(plan) /\ count[a] + n <= MaxConcurrent
    BY <1>3, ChunkCoordinatorAssumption, SMTT(30) DEF Least
<1> HIDE DEF n
<1>5. /\ SubSeq(plan, 1, n) \in Seq(RangeType) /\ Len(SubSeq(plan, 1, n)) = n
      /\ \A i \in 1..n : SubSeq(plan, 1, n)[i] = plan[i]
    BY <1>1, <1>4 DEF Facts, PrefixFacts
<1> DEFINE r == SubSeq(plan, 1, n)
<1> HIDE DEF r
<1>6. r \in Seq(RangeType) /\ Len(r) = n /\ \A i \in 1..n : r[i] = plan[i]
    BY <1>5 DEF r
<1>7. r # <<>> /\ DOMAIN r = 1..n
    BY <1>4, <1>6 DEF Facts, SeqFacts
<1>8. Covered(r) \subseteq Chunks
    BY <1>1, <1>3, <1>4, <1>6, <1>7, SMTT(30) DEF Covered
<1> QED
    BY <1>2, <1>4, <1>6, <1>7, <1>8 DEF r

\* A pass of the scheduler.
LEMMA PassStep ==
    ASSUME Facts, Inv, NEW a \in Archives, Pass(a)
    PROVE  Inv'
<1> DEFINE live == {w \in waiters[a] : Live(w[1])}
           pend == PrunedPending(a, live)
           ranges == Selected(a, pend)
           Stops == /\ pend = {}
                    /\ running' = [running EXCEPT ![a] = FALSE]
                    /\ sched' = [sched EXCEPT ![a] = "off"]
                    /\ pending' = [pending EXCEPT ![a] = {}]
                    /\ IF Drainable(FALSE, {}, count[a])
                       THEN RemoveState(a) /\ Deliver({}, Nothing, live)
                       ELSE /\ waiters' = [waiters EXCEPT ![a] = live]
                            /\ UNCHANGED <<exists, inflight, notified, box>>
                    /\ UNCHANGED <<count, todo>>
           Throttles == /\ pend # {} /\ count[a] >= MaxConcurrent
                        /\ sched' = [sched EXCEPT ![a] = "throttled"]
                        /\ pending' = [pending EXCEPT ![a] = pend]
                        /\ waiters' = [waiters EXCEPT ![a] = live]
                        /\ UNCHANGED <<exists, inflight, running, count, notified, todo, box>>
           Selects == /\ pend # {} /\ count[a] < MaxConcurrent
                      /\ sched' = [sched EXCEPT ![a] = "dispatch"]
                      /\ todo' = [todo EXCEPT ![a] = ranges]
                      /\ pending' = [pending EXCEPT ![a] = pend \ Covered(ranges)]
                      /\ inflight' = [inflight EXCEPT ![a] = @ \cup Covered(ranges)]
                      /\ count' = [count EXCEPT ![a] = @ + Len(ranges)]
                      /\ waiters' = [waiters EXCEPT ![a] = live]
                      /\ UNCHANGED <<exists, running, notified, box>>
<1>1. sched[a] = "pass" /\ UNCHANGED <<stored, cache, groups, cpc, archive, bounds>>
    BY DEF Pass
<1>2. /\ todo[a] = <<>> /\ running[a] = TRUE /\ exists[a] = TRUE
      /\ count[a] \in Nat /\ count[a] <= MaxConcurrent
    <2>1. todo[a] = <<>> /\ running[a] = TRUE
        BY <1>1 DEF Inv, SchedulerOK
    <2>2. exists[a] = TRUE
        BY <2>1 DEF Inv, TypeOK, StateHeld
    <2>3. count[a] \in Nat /\ count[a] <= MaxConcurrent
        BY ChunkCoordinatorAssumption, SMTT(30) DEF Inv, TypeOK
    <2> QED
        BY <2>1, <2>2, <2>3
<1>3. Covered(<<>>) = {} /\ Len(<<>>) = 0
    BY SMTT(30) DEF Covered
<1>4. /\ live \in SUBSET waiters[a] /\ live \in SUBSET (Callers \X Chunks)
      /\ \A d \in Callers, k \in Chunks : Live(d) /\ <<d, k>> \in waiters[a] => <<d, k>> \in live
    BY DEF Inv, TypeOK
<1>5. /\ pend \in SUBSET Chunks
      /\ \A d \in Callers, k \in Chunks : <<d, k>> \in live /\ k \in pending[a] => k \in pend
    BY DEF Inv, TypeOK, PrunedPending
<1>6. \A b \in Archives : Outstanding(b)' = Outstanding(b)
    BY <1>1 DEF Outstanding
<1>7. GroupsOK' /\ DataPinned' /\ \A g \in groups' : g.archive \in Archives /\ g.phase \in Phases
    BY <1>1 DEF Inv, TypeOK, GroupsOK, DataPinned
<1>8. Stops \/ Throttles \/ Selects
    BY Zenon DEF Pass
<1> HIDE DEF live, pend, ranges, Stops, Throttles, Selects
<1>9. CASE Throttles
    <2>1. /\ sched'[a] = "throttled" /\ pending'[a] = pend /\ waiters'[a] = live
          /\ \A b \in Archives : b # a =>
               sched'[b] = sched[b] /\ pending'[b] = pending[b] /\ waiters'[b] = waiters[b]
        BY <1>9 DEF Inv, TypeOK, Throttles
    <2>2. WaitersPruned
        BY <1>4, <2>1 DEF WaitersPruned
    <2>3. \A b \in Archives, k \in Chunks : Underway(b, k)' <=> Underway(b, k)
        BY <1>6, <1>9 DEF Underway, Throttles
    <2>4. ClaimsKept
        BY <1>4, <1>5, <2>1, <2>3 DEF ClaimsKept
    <2>5. AnswersOK'
        BY <1>1, <1>9, <2>2, <2>4, AnswersPruned DEF bounds, Throttles
    <2>6. TypeOK'
        BY <1>1, <1>4, <1>5, <1>7, <1>9 DEF Inv, TypeOK, bounds, Throttles
    <2>7. SchedulerOK'
        BY <1>2, <1>9, <2>1 DEF Inv, SchedulerOK, Throttles
    <2>8. SlotsExact'
        BY <1>6, <1>9 DEF Inv, SlotsExact, Throttles
    <2>9. StateHeld'
        BY <1>2, <1>9, <2>1 DEF Inv, StateHeld, Throttles
    <2>10. InflightCovered'
        BY <1>9, <2>3 DEF Inv, TypeOK, InflightCovered, Throttles
    <2> QED
        BY <1>7, <2>5, <2>6, <2>7, <2>8, <2>9, <2>10 DEF Inv, AnswersOK
<1>10. CASE Selects
    <2>1. /\ ranges \in Seq(RangeType) /\ ranges # <<>> /\ Covered(ranges) \subseteq Chunks
          /\ Len(ranges) \in Nat /\ count[a] + Len(ranges) <= MaxConcurrent
        BY <1>2, <1>5, <1>10, SelectedRanges DEF ranges, Selects
    <2>2. /\ sched'[a] = "dispatch" /\ pending'[a] = pend \ Covered(ranges)
          /\ waiters'[a] = live /\ inflight'[a] = inflight[a] \cup Covered(ranges)
          /\ count'[a] = count[a] + Len(ranges) /\ todo'[a] = ranges
        BY <1>10 DEF Inv, TypeOK, SchedulerOK, Selects
    <2>3. \A b \in Archives : b # a =>
            /\ sched'[b] = sched[b] /\ pending'[b] = pending[b] /\ waiters'[b] = waiters[b]
            /\ inflight'[b] = inflight[b] /\ count'[b] = count[b] /\ todo'[b] = todo[b]
        BY <1>10, SMTT(30) DEF Inv, TypeOK, SchedulerOK, Selects
    <2>4. WaitersPruned
        BY <1>4, <2>2, <2>3 DEF WaitersPruned
    <2>5. /\ \A b \in Archives, k \in Chunks : Underway(b, k) => Underway(b, k)'
          /\ \A k \in Covered(ranges) : Underway(a, k)'
        BY <1>2, <1>3, <1>6, <2>2, <2>3 DEF Underway
    <2>6. ClaimsKept
        BY <1>4, <1>5, <2>2, <2>3, <2>5 DEF ClaimsKept
    <2>7. AnswersOK'
        BY <1>1, <1>10, <2>4, <2>6, AnswersPruned DEF bounds, Selects
    <2>8. TypeOK'
        <3>1. count' \in [Archives -> 0..MaxConcurrent]
            <4>1. count[a] + Len(ranges) \in 0..MaxConcurrent
                BY <1>2, <2>1, ChunkCoordinatorAssumption, SMTT(30)
            <4> QED
                BY <1>10, <4>1 DEF Inv, TypeOK, Selects
        <3>2. /\ pending' \in [Archives -> SUBSET Chunks] /\ inflight' \in [Archives -> SUBSET Chunks]
              /\ waiters' \in [Archives -> SUBSET (Callers \X Chunks)]
            BY <1>4, <1>5, <1>10, <2>1 DEF Inv, TypeOK, Selects
        <3>3. sched' \in [Archives -> {"off", "pass", "throttled", "dispatch", "shed"}]
            BY <1>10 DEF Inv, TypeOK, Selects
        <3> QED
            BY <1>1, <1>7, <1>10, <3>1, <3>2, <3>3 DEF Inv, TypeOK, bounds, Selects
    <2>9. SchedulerOK'
        <3>1. todo' \in [Archives -> Seq(RangeType)]
            BY <1>10, <2>1 DEF Inv, SchedulerOK, Selects
        <3> QED
            BY <1>2, <1>10, <2>1, <2>2, <2>3, <3>1, SMTT(30) DEF Inv, SchedulerOK, Selects
    <2>10. SlotsExact'
        <3> SUFFICES ASSUME NEW b \in Archives
                     PROVE  count'[b] = Cardinality(Outstanding(b)) + Len(todo'[b])
            BY <1>6 DEF SlotsExact
        <3>1. CASE b # a
            BY <2>3, <3>1 DEF Inv, SlotsExact
        <3>2. CASE b = a
            <4>1. Outstanding(a) \in SUBSET groups
                BY DEF Outstanding
            <4>2. Cardinality(Outstanding(a)) \in Nat
                BY <4>1 DEF Inv, GroupsOK, Facts, SetFacts, PartFinite, CountIsNat
            <4>3. count[a] = Cardinality(Outstanding(a)) + 0
                BY <1>2, <1>3 DEF Inv, SlotsExact
            <4> QED
                BY <2>1, <2>2, <3>2, <4>2, <4>3, SMTT(30)
        <3> QED
            BY <3>1, <3>2
    <2>11. StateHeld'
        BY <1>2, <1>10, <2>3 DEF Inv, StateHeld, Selects
    <2>12. InflightCovered'
        BY <2>2, <2>3, <2>5, ZenonT(30) DEF Inv, TypeOK, InflightCovered
    <2> QED
        BY <1>7, <2>7, <2>8, <2>9, <2>10, <2>11, <2>12 DEF Inv, AnswersOK
<1>11. CASE Stops
    <2>1. /\ sched'[a] = "off" /\ pending'[a] = {} /\ running'[a] = FALSE
          /\ \A b \in Archives : b # a =>
               sched'[b] = sched[b] /\ pending'[b] = pending[b] /\ running'[b] = running[b]
        BY <1>11 DEF Inv, TypeOK, Stops
    <2>2. \A b \in Archives, k \in Chunks : Underway(b, k)' <=> Underway(b, k)
        BY <1>6, <1>11, Zenon DEF Underway, Stops
    <2>3. ClaimsKept
        BY <1>4, <1>5, <1>11, <2>1, <2>2 DEF ClaimsKept, Stops
    <2>4. /\ pending' \in [Archives -> SUBSET Chunks]
          /\ running' \in [Archives -> BOOLEAN]
          /\ sched' \in [Archives -> {"off", "pass", "throttled", "dispatch", "shed"}]
        BY <1>11 DEF Inv, TypeOK, Stops
    <2>5. SchedulerOK' /\ SlotsExact'
        BY <1>2, <1>6, <1>11, <2>1, SMTT(30) DEF Inv, SchedulerOK, SlotsExact, Stops
    <2>6. CASE Drainable(FALSE, {}, count[a])
        <3>1. /\ exists' = [exists EXCEPT ![a] = FALSE]
              /\ inflight' = [inflight EXCEPT ![a] = {}]
              /\ waiters' = [waiters EXCEPT ![a] = {}]
              /\ notified' = [notified EXCEPT ![a] = FALSE]
              /\ Deliver({}, Nothing, live)
            BY <1>11, <2>6 DEF RemoveState, Stops
        <3>2. count[a] = 0
            BY <2>6 DEF Drainable
        <3>3. Outstanding(a) = {}
            <4>1. Outstanding(a) \in SUBSET groups
                BY DEF Outstanding
            <4>2. IsFiniteSet(Outstanding(a)) /\ Cardinality(Outstanding(a)) \in Nat
                BY <4>1 DEF Inv, GroupsOK, Facts, SetFacts, PartFinite, CountIsNat
            <4>3. count[a] = Cardinality(Outstanding(a)) + 0
                BY <1>2, <1>3 DEF Inv, SlotsExact
            <4>4. Cardinality(Outstanding(a)) = 0
                BY <3>2, <4>2, <4>3, SMTT(30)
            <4> QED
                BY <4>2, <4>4 DEF Facts, SetFacts, CountEmpty
        <3>4. \A d \in Callers, k \in Chunks : ~(Live(d) /\ <<d, k>> \in waiters[a])
            <4> SUFFICES ASSUME NEW d \in Callers, NEW k \in Chunks, Live(d), <<d, k>> \in waiters[a]
                         PROVE  FALSE
                BY Zenon
            <4>1. archive[d] = a /\ k \in want[d] /\ box[d][k] = Nothing
                BY SMTT(30) DEF Inv, WaitersTrue
            <4>2. k \in pending[a] \/ Underway(a, k)
                BY <4>1 DEF Inv, WaiterCovered, Underway
            <4>3. ~Underway(a, k)
                BY <1>2, <1>3, <3>3 DEF Underway
            <4> QED
                BY <1>4, <1>5, <1>11, <4>2, <4>3 DEF Stops
        <3>5. box' = box
            <4>1. \A d \in Callers, k \in Chunks : box'[d][k] = box[d][k]
                BY <1>4, <3>1, <3>4, Zenon DEF Deliver
            <4>2. box' = [d \in Callers |-> [k \in Chunks |-> box'[d][k]]]
                BY <3>1 DEF Deliver
            <4>3. box = [d \in Callers |-> [k \in Chunks |-> box[d][k]]]
                BY DEF Inv, TypeOK
            <4> QED
                BY <4>1, <4>2, <4>3
        <3>6. /\ waiters'[a] = {} /\ inflight'[a] = {} /\ exists'[a] = FALSE
              /\ \A b \in Archives : b # a =>
                   waiters'[b] = waiters[b] /\ inflight'[b] = inflight[b] /\ exists'[b] = exists[b]
            BY <3>1 DEF Inv, TypeOK
        <3>7. WaitersPruned
            BY <3>4, <3>6 DEF WaitersPruned
        <3>8. AnswersOK'
            BY <1>1, <2>3, <3>5, <3>7, AnswersPruned DEF bounds
        <3>9. TypeOK'
            <4>1. /\ exists' \in [Archives -> BOOLEAN] /\ notified' \in [Archives -> BOOLEAN]
                  /\ inflight' \in [Archives -> SUBSET Chunks]
                  /\ waiters' \in [Archives -> SUBSET (Callers \X Chunks)]
                BY <3>1 DEF Inv, TypeOK
            <4> QED
                BY <1>1, <1>7, <1>11, <2>4, <3>5, <4>1 DEF Inv, TypeOK, bounds, Stops
        <3>10. StateHeld'
            <4>1. count' = count
                BY <1>11 DEF Stops
            <4> QED
                BY <2>1, <3>2, <3>6, <4>1 DEF Inv, StateHeld
        <3>11. InflightCovered'
            BY <2>2, <3>6, Zenon DEF Inv, TypeOK, InflightCovered
        <3> QED
            BY <1>7, <2>5, <3>8, <3>9, <3>10, <3>11 DEF Inv, AnswersOK
    <2>7. CASE ~Drainable(FALSE, {}, count[a])
        <3>1. waiters' = [waiters EXCEPT ![a] = live] /\ UNCHANGED <<exists, inflight, notified, box>>
            BY <1>11, <2>7 DEF Stops
        <3>2. waiters'[a] = live /\ \A b \in Archives : b # a => waiters'[b] = waiters[b]
            BY <3>1 DEF Inv, TypeOK
        <3>3. WaitersPruned
            BY <1>4, <3>2 DEF WaitersPruned
        <3>4. AnswersOK'
            BY <1>1, <2>3, <3>1, <3>3, AnswersPruned DEF bounds
        <3>5. TypeOK'
            BY <1>1, <1>4, <1>7, <1>11, <2>4, <3>1, ZenonT(30) DEF Inv, TypeOK, bounds, Stops
        <3>6. StateHeld'
            <4>1. count' = count
                BY <1>11 DEF Stops
            <4> QED
                BY <1>2, <2>1, <3>1, <3>2, <4>1, ZenonT(30) DEF Inv, StateHeld
        <3>7. InflightCovered'
            BY <2>2, <3>1 DEF Inv, TypeOK, InflightCovered
        <3> QED
            BY <1>7, <2>5, <3>4, <3>5, <3>6, <3>7 DEF Inv, AnswersOK
    <2> QED
        BY <2>6, <2>7, Zenon
<1> QED
    BY <1>8, <1>9, <1>10, <1>11

\* A released slot wakes the scheduler.
LEMMA WakeStep ==
    ASSUME Inv, NEW a \in Archives, Wake(a)
    PROVE  Inv'
<1>1. /\ sched[a] = "throttled" /\ sched' = [sched EXCEPT ![a] = "pass"]
      /\ notified' = [notified EXCEPT ![a] = FALSE]
      /\ UNCHANGED <<stored, cache, exists, pending, inflight, waiters, running, count, todo,
                     groups, callerVars, bounds>>
    BY DEF Wake
<1>2. TypeOK'
    BY <1>1 DEF Inv, TypeOK, callerVars, bounds
<1>3. SchedulerOK'
    <2>1. sched'[a] = "pass" /\ \A b \in Archives : b # a => sched'[b] = sched[b]
        BY <1>1 DEF Inv, TypeOK
    <2> QED
        BY <1>1, <2>1 DEF Inv, SchedulerOK
<1>4. NothingOver /\ SlotsExact' /\ GroupsOK' /\ DataPinned' /\ StateHeld'
    BY <1>1 DEF Inv, NothingOver, Underway, Outstanding, SlotsExact, GroupsOK, DataPinned,
                StateHeld
<1>5. AnswersOK' /\ InflightCovered'
    BY <1>1, <1>4, AnswersKept, Zenon DEF Inv, GenerationPinned, callerVars, bounds
<1> QED
    BY <1>2, <1>3, <1>4, <1>5 DEF Inv, AnswersOK

-----------------------------------------------------------------------------
(* The object store and the cache.                                         *)

\* Replacing the object and evicting a chunk touch nothing a reader holds.
LEMMA EnvironmentStep ==
    ASSUME Inv,
           \/ \E a \in Archives : Replace(a)
           \/ \E a \in Archives, k \in Chunks : Evict(a, k)
           \/ UNCHANGED vars
    PROVE  Inv'
<1>1. /\ UNCHANGED <<stateVars, sched, todo, groups, callerVars, want, deaths>>
      /\ stored' \in Archives /\ replacements' \in Nat
      /\ cache' \in [Archives -> [Chunks -> Archives \cup {Nothing}]]
      /\ \A a \in Archives, k \in Chunks : cache'[a][k] \in {Nothing, a}
    <2>1. /\ stored \in Archives /\ replacements \in Nat
          /\ cache \in [Archives -> [Chunks -> Archives \cup {Nothing}]]
          /\ \A a \in Archives, k \in Chunks : cache[a][k] \in {Nothing, a}
        BY DEF Inv, TypeOK, GenerationPinned
    <2>2. ASSUME NEW a \in Archives, Replace(a) PROVE <1>1!:
        BY <2>1, <2>2, SMTT(30) DEF Replace
    <2>3. ASSUME NEW a \in Archives, NEW k \in Chunks, Evict(a, k) PROVE <1>1!:
        BY <2>1, <2>3 DEF Evict, bounds
    <2>4. CASE UNCHANGED vars
        BY <2>1, <2>4 DEF vars, bounds
    <2> QED
        BY <2>2, <2>3, <2>4
<1>2. TypeOK'
    BY <1>1 DEF Inv, TypeOK, stateVars, callerVars
<1>3. TasksOK'
    BY <1>1, TasksKept DEF Inv, TasksOK
<1>4. NothingOver
    BY <1>1 DEF NothingOver, Underway, Outstanding
<1>5. AnswersOK'
    BY <1>1, <1>4, AnswersKept DEF stateVars, callerVars
<1> QED
    BY <1>2, <1>3, <1>5 DEF Inv, TasksOK, AnswersOK

\* The initial state: no state, no task, no reader waiting.
LEMMA InitInv ==
    ASSUME Facts, Init
    PROVE  Inv
<1> SUFFICES ASSUME NEW s \in Scenarios, InitWith(s) PROVE Inv
    BY DEF Init
<1>1. /\ s.want \in [Callers -> SUBSET Chunks] /\ s.deaths \in Nat /\ s.replacements \in Nat
    BY ChunkCoordinatorAssumption
<1>2. \A c \in Callers : /\ cpc[c] \in {"done", "known", "start"}
                         /\ cpc[c] = "known" => archive[c] = stored
    BY DEF InitWith
<1>3. /\ \A c \in Callers, k \in Chunks : box[c][k] = Nothing
      /\ \A a \in Archives, k \in Chunks : cache[a][k] = Nothing
    BY DEF InitWith
<1>4. groups = {} /\ \A a \in Archives : Outstanding(a) = {}
    BY DEF InitWith, Outstanding
<1>5. TypeOK
    <2>1. /\ archive \in [Callers -> Archives \cup {NoArchive}]
          /\ cpc \in [Callers -> {"start", "queued", "observing", "known", "missed", "waiting",
                                  "done"}]
        BY DEF InitWith
    <2>2. /\ cache \in [Archives -> [Chunks -> Archives \cup {Nothing}]]
          /\ box \in [Callers -> [Chunks -> Archives \cup {Nothing, Failed, Dropped}]]
        BY DEF InitWith
    <2>3. count \in [Archives -> 0..MaxConcurrent]
        BY ChunkCoordinatorAssumption, SMTT(30) DEF InitWith
    <2> QED
        BY <1>1, <1>4, <2>1, <2>2, <2>3 DEF InitWith, TypeOK
<1>6. GroupsOK /\ DataPinned
    BY <1>4 DEF GroupsOK, DataPinned, Facts, SetFacts, CountEmpty
<1>7. SchedulerOK
    <2>1. <<>> \in Seq(RangeType)
        BY DEF Facts, SeqFacts
    <2> QED
        BY <2>1 DEF InitWith, SchedulerOK
<1>8. StateHeld /\ InflightCovered
    BY DEF InitWith, StateHeld, InflightCovered
<1>9. SlotsExact
    <2>1. Cardinality({}) = 0 /\ Len(<<>>) = 0
        BY DEF Facts, SetFacts, CountEmpty, SeqFacts
    <2>2. \A a \in Archives : count[a] = 0 /\ todo[a] = <<>>
        BY DEF InitWith
    <2>3. \A a \in Archives : Cardinality(Outstanding(a)) = 0 /\ Len(todo[a]) = 0
        BY <1>4, <2>1, <2>2, Zenon
    <2> QED
        BY <2>2, <2>3, SMTT(30) DEF SlotsExact
<1>10. ReadersOK /\ GenerationPinned
    BY <1>2, <1>3, ResultAssumption DEF InitWith, ReadersOK, GenerationPinned
<1>11. WaitersTrue /\ WaiterCovered
    BY <1>2, Zenon DEF InitWith, WaitersTrue, WaiterCovered, Live
<1> QED
    BY <1>5, <1>6, <1>7, <1>8, <1>9, <1>10, <1>11 DEF Inv

\* Every step keeps the invariant.
LEMMA NextInv ==
    ASSUME Facts, IdsLeft, Inv, [Next]_vars
    PROVE  Inv'
<1>1. ASSUME NEW c \in Callers, CallerStep(c) \/ Cancel(c) PROVE Inv'
    <2>1. CASE Observe(c) \/ ObserveAdmitted(c) \/ Observed(c)
        BY <2>1, AdvanceStep
    <2>2. CASE ObserveFails(c) \/ ReadSucceeds(c) \/ ReadFails(c) \/ Cancel(c)
        BY <2>2, LeaveStep DEF ObserveFails, ReadSucceeds, ReadFails, Cancel
    <2> QED
        BY <1>1, <2>1, <2>2, LookupStep, EnqueueStep DEF CallerStep
<1>2. ASSUME NEW a \in Archives, SchedulerStep(a) PROVE Inv'
    BY <1>2, PassStep, WakeStep, DispatchStep, ShedStep DEF SchedulerStep
<1>3. ASSUME NEW g \in groups,
             \/ Admitted(g) \/ Responds(g) \/ BodyArrives(g) \/ FetchFails(g)
             \/ Complete(g) \/ ReleasePermit(g) \/ TaskDies(g)
      PROVE  Inv'
    BY <1>3, FetchStep, CompleteStep, ReleaseStep
<1>4. CASE \/ \E a \in Archives : Replace(a)
           \/ \E a \in Archives, k \in Chunks : Evict(a, k)
           \/ UNCHANGED vars
    BY <1>4, EnvironmentStep
<1> QED
    BY <1>1, <1>2, <1>3, <1>4 DEF Next, GroupStep

-----------------------------------------------------------------------------
(* The library facts, and the theorems.                                    *)

INSTANCE FiniteSetTheorems
INSTANCE SequenceTheorems

\* There is always an unused id: a number more than there are tasks.
LEMMA NewIdFresh == IdsLeft
<1> SUFFICES ASSUME GroupsOK PROVE NewId \in Nat /\ \A g \in groups : g.id # NewId
    BY DEF IdsLeft
<1> DEFINE n == Cardinality(groups)
<1>1. n \in Nat
    BY FS_CardinalityType DEF GroupsOK
<1>2. \E i \in 1..(n + 1) : \A g \in groups : g.id # i
    <2> SUFFICES ASSUME \A i \in 1..(n + 1) : \E g \in groups : g.id = i PROVE FALSE
        OBVIOUS
    <2> DEFINE f == [i \in 1..(n + 1) |-> CHOOSE g \in groups : g.id = i]
    <2>1. \A i \in 1..(n + 1) : f[i] \in groups /\ f[i].id = i
        OBVIOUS
    <2>2. f \in [1..(n + 1) -> groups]
        BY <2>1
    <2>3. IsFiniteSet(1..(n + 1)) /\ Cardinality(1..(n + 1)) = n + 1
        BY <1>1, FS_Interval, SMTT(30)
    <2> HIDE DEF f
    <2>4. \E x, y \in 1..(n + 1) : x # y /\ f[x] = f[y]
        BY <1>1, <2>2, <2>3, FS_PigeonHole, SMTT(30) DEF GroupsOK
    <2> QED
        BY <2>1, <2>4
<1>3. NewId \in 1..(n + 1) /\ \A g \in groups : g.id # NewId
    BY <1>2 DEF NewId
<1> QED
    BY <1>1, <1>3, SMTT(30)

\* The facts about finite sets and sequences that the lemmas assume.
LEMMA FactsHold == Facts
<1>1. CountIsNat /\ CountEmpty /\ CountOne
    BY FS_CardinalityType, FS_EmptySet, FS_Singleton, Zenon DEF CountIsNat, CountEmpty, CountOne
<1>2. PartFinite /\ CountAdded /\ CountRemoved
    BY FS_Subset, FS_AddElement, FS_RemoveElement DEF PartFinite, CountAdded, CountRemoved
<1>3. SeqFacts
    BY EmptySeq, LenProperties DEF SeqFacts
<1>4. TailFacts
    <2> SUFFICES ASSUME NEW s \in Seq(RangeType), s # <<>>
                 PROVE  /\ Head(s) \in RangeType /\ Head(s) = s[1]
                        /\ Tail(s) \in Seq(RangeType) /\ Len(Tail(s)) = Len(s) - 1
                        /\ \A i \in 1..Len(Tail(s)) : Tail(s)[i] = s[i + 1]
                        /\ Tail(s) # <<>> <=> Len(s) > 1
        BY DEF TailFacts
    <2>1. /\ Head(s) \in RangeType /\ Tail(s) \in Seq(RangeType) /\ Len(Tail(s)) = Len(s) - 1
          /\ \A i \in 1..Len(Tail(s)) : Tail(s)[i] = s[i + 1]
          /\ Len(s) \in Nat
        BY HeadTailProperties, LenProperties
    <2>2. Tail(s) = <<>> => Len(Tail(s)) = 0
        <3>1. \A t : t = <<>> => Len(t) = 0
            BY EmptySeq
        <3> QED
            BY <3>1, Zenon
    <2>3. Tail(s) # <<>> => Len(Tail(s)) \in Nat \ {0}
        BY <2>1, EmptySeq
    <2>4. Tail(s) # <<>> <=> Len(s) > 1
        BY <2>1, <2>2, <2>3, SMTT(30)
    <2>5. Head(s) = s[1]
        BY SMTT(30)
    <2> QED
        BY <2>1, <2>4, <2>5
<1>5. PrefixFacts
    <2> SUFFICES ASSUME NEW s \in Seq(RangeType), NEW n \in Nat, n <= Len(s)
                 PROVE  /\ SubSeq(s, 1, n) \in Seq(RangeType) /\ Len(SubSeq(s, 1, n)) = n
                        /\ \A i \in 1..n : SubSeq(s, 1, n)[i] = s[i]
        BY DEF PrefixFacts
    <2>1. \A i \in 1..n : s[i] \in RangeType
        BY LenProperties, SMTT(30)
    <2>2. /\ SubSeq(s, 1, n) \in Seq(RangeType)
          /\ Len(SubSeq(s, 1, n)) = (IF 1 <= n THEN n - 1 + 1 ELSE 0)
          /\ \A i \in 1..(n - 1 + 1) : SubSeq(s, 1, n)[i] = s[1 + i - 1]
        BY <2>1, SubSeqProperties, SMTT(30)
    <2> QED
        BY <2>2, SMTT(30)
<1> QED
    BY <1>1, <1>2, <1>3, <1>4, <1>5 DEF Facts, SetFacts

\* The inductive invariant holds in every behaviour.
THEOREM Invariance == Spec => []Inv
<1>1. Init => Inv
    BY InitInv, FactsHold
<1>2. Inv /\ [Next]_vars => Inv'
    BY NextInv, FactsHold, NewIdFresh
<1> QED
    BY <1>1, <1>2, PTL DEF Spec

\* fetch_chunks, run_scheduler and complete_dispatched_group strand no reader:
\* a chunk a live reader waits for is queued or in a range that has yet to
\* complete, with the reader's sender still registered, and
\* inflight_fetch_count is the number of those ranges, whatever the overlap of
\* ranges, the cancelled readers, the dead tasks and the removed states.
THEOREM FetchesStaySound == Spec => []FetchesSound
<1>1. Inv => FetchesSound
    BY DEF Inv, FetchesSound
<1> QED
    BY <1>1, Invariance, PTL

\* The cache and every reader hold bytes of the generation they name, however
\* often the object is replaced while fetches are under way.
THEOREM GenerationsStayPinned == Spec => []GenerationPinned
<1>1. Inv => GenerationPinned
    BY DEF Inv
<1> QED
    BY <1>1, Invariance, PTL
===============================================================================
