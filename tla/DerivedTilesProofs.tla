-------------------------- MODULE DerivedTilesProofs --------------------------
(***************************************************************************)
(* Proofs about DerivedTiles, for any requests, limits and archives: the   *)
(* CPU gate keeps its two limits and loses no permit, and a degraded tile  *)
(* is never answered as a complete one.                                    *)
(***************************************************************************)
EXTENDS DerivedTiles, FiniteSetTheorems, TLAPS

USE Zenon

-----------------------------------------------------------------------------
(* The inductive invariant.                                                *)

Phases == {"new", "info", "lookup", "await", "sources", "genq", "generating", "have",
           "mltq", "mltwait", "transcoding", "done", "error", "gone"}
SourceStates == {"idle", "todo", "raw", "none", "failed", "wait", "queued", "running", "have"}
SourceType == [st : SourceStates, gen : Nat]
OutcomeType == [kind : {"none", "tile", "degraded", "absent"}, failed : BOOLEAN, until : Nat]
RequestType == [pc : Phases, gen : Nat, src : [Sources -> SourceType], out : OutcomeType]

\* A tile made without a neighbour that failed says so.
Honest(out) == out.failed => out.kind = "degraded"

Generating == {"sources", "genq", "generating"}

\* Only a request that generates has sources, and none of them is decoded any
\* more once the generation is up to the gate.
Shaped(x) ==
    /\ x.pc \notin Generating => x.src = NoSources
    /\ x.pc \in {"genq", "generating"} => \A s \in Sources : x.src[s].st \notin {"queued", "running"}

RequestOK(x) == x \in RequestType /\ Honest(x.out) /\ Shaped(x)

RequestsOK == req \in [Requests -> RequestType] /\ \A r \in Requests : RequestOK(req[r])

WorldOK ==
    /\ sc \in TileScenarios /\ now \in Nat /\ ptr \in [Stores -> Nat]

\* The caches hold honest outcomes; what was transcoded into the MLT cache was
\* complete.
StoresOK ==
    /\ \A k \in DOMAIN derived : derived[k] \in OutcomeType /\ Honest(derived[k])
    /\ \A k \in DOMAIN mlt : mlt[k] \in OutcomeType /\ mlt[k].failed = FALSE

GateOK == permits \in Nat /\ orphans \in Nat /\ CpuBounded

Inv == WorldOK /\ RequestsOK /\ StoresOK /\ GateOK

-----------------------------------------------------------------------------
(* Counting jobs.                                                          *)

JobTables == [Requests -> SUBSET JobNames]
Pairs(jobs) == {job \in Requests \X JobNames : job[2] \in jobs[job[1]]}

\* A job is a pair of a request and the name of one of its jobs.
LEMMA PairMember ==
    ASSUME NEW jobs \in JobTables, NEW q, NEW j
    PROVE  <<q, j>> \in Pairs(jobs) <=> q \in Requests /\ j \in jobs[q]
<1>1. ASSUME q \in Requests
      PROVE  jobs[q] \subseteq JobNames
    BY <1>1 DEF JobTables
<1>2. <<q, j>> \in Pairs(jobs) <=> <<q, j>> \in Requests \X JobNames /\ j \in jobs[q]
    BY DEF Pairs
<1> QED
    BY <1>1, <1>2

\* A request has three jobs at most.
LEMMA JobNamesFinite == IsFiniteSet(JobNames)
<1>1. JobNames = ({"center"} \cup {"neighbour"}) \cup {"product"}
    BY DEF JobNames, Sources
<1>2. IsFiniteSet({"center"}) /\ IsFiniteSet({"center"} \cup {"neighbour"})
    BY FS_Singleton, FS_AddElement
<1> QED
    BY <1>1, <1>2, FS_AddElement

\* There are finitely many jobs.
LEMMA PairsFinite ==
    ASSUME NEW jobs \in JobTables
    PROVE  IsFiniteSet(Pairs(jobs)) /\ JobCount(jobs) \in Nat
<1>1. IsFiniteSet(Requests \X JobNames)
    BY JobNamesFinite, FS_Product, DerivedTilesAssumption
<1>2. Pairs(jobs) \in SUBSET (Requests \X JobNames)
    BY DEF Pairs
<1>3. IsFiniteSet(Pairs(jobs))
    BY <1>1, <1>2, FS_Subset
<1> QED
    BY <1>3, FS_CardinalityType DEF JobCount, Pairs

\* Fewer jobs count less, and the same jobs the same.
LEMMA CountLess ==
    ASSUME NEW old \in JobTables, NEW new \in JobTables,
           \A q \in Requests : new[q] \subseteq old[q]
    PROVE  JobCount(new) <= JobCount(old)
<1>1. Pairs(new) \in SUBSET Pairs(old)
    BY DEF Pairs
<1> QED
    BY <1>1, PairsFinite, FS_Subset DEF JobCount, Pairs

\* One more job of one request.
LEMMA CountOneMore ==
    ASSUME NEW old \in JobTables, NEW new \in JobTables, NEW r \in Requests, NEW j \in JobNames,
           \A q \in Requests \ {r} : new[q] = old[q], new[r] = old[r] \cup {j}, j \notin old[r]
    PROVE  JobCount(new) = JobCount(old) + 1
<1>1. Pairs(new) = Pairs(old) \cup {<<r, j>>}
    <2>1. ASSUME NEW p \in Pairs(new)
          PROVE  p \in Pairs(old) \cup {<<r, j>>}
        <3>1. PICK q \in Requests, i \in JobNames : p = <<q, i>>
            BY SMTT(30) DEF Pairs
        <3>2. i \in new[q]
            BY <3>1, PairMember
        <3>3. i \in old[q] \/ (q = r /\ i = j)
            BY <3>2, SMTT(30)
        <3> QED
            BY <3>1, <3>3, PairMember
    <2>2. ASSUME NEW p \in Pairs(old)
          PROVE  p \in Pairs(new)
        <3>1. PICK q \in Requests, i \in JobNames : p = <<q, i>>
            BY SMTT(30) DEF Pairs
        <3>2. i \in old[q]
            BY <3>1, PairMember
        <3>3. i \in new[q]
            BY <3>2
        <3> QED
            BY <3>1, <3>3, PairMember
    <2>3. <<r, j>> \in Pairs(new)
        BY PairMember
    <2> QED
        BY <2>1, <2>2, <2>3
<1>2. <<r, j>> \notin Pairs(old)
    BY PairMember
<1> QED
    BY <1>1, <1>2, PairsFinite, FS_AddElement, ZenonT(30) DEF JobCount, Pairs

\* All jobs of one request gone.
LEMMA CountDropped ==
    ASSUME NEW old \in JobTables, NEW new \in JobTables, NEW r \in Requests,
           \A q \in Requests \ {r} : new[q] = old[q], new[r] = {}
    PROVE  /\ Cardinality(old[r]) \in Nat
           /\ JobCount(new) = JobCount(old) - Cardinality(old[r])
<1> DEFINE mine == {r} \X old[r]
<1>1. Pairs(new) = Pairs(old) \ mine
    <2>1. ASSUME NEW p \in Pairs(new)
          PROVE  p \in Pairs(old) \ mine
        <3>1. PICK q \in Requests, i \in JobNames : p = <<q, i>>
            BY SMTT(30) DEF Pairs
        <3>2. i \in new[q]
            BY <3>1, PairMember
        <3>3. q # r /\ i \in old[q]
            BY <3>2
        <3> QED
            BY <3>1, <3>3, PairMember
    <2>2. ASSUME NEW p \in Pairs(old) \ mine
          PROVE  p \in Pairs(new)
        <3>1. PICK q \in Requests, i \in JobNames : p = <<q, i>>
            BY <2>2, SMTT(30) DEF Pairs
        <3>2. i \in old[q]
            BY <2>2, <3>1, PairMember
        <3>3. q # r
            BY <2>2, <3>1, <3>2
        <3> QED
            BY <3>1, <3>2, <3>3, PairMember
    <2> QED
        BY <2>1, <2>2
<1>2. mine \subseteq Pairs(old)
    <2>1. ASSUME NEW p \in mine
          PROVE  p \in Pairs(old)
        <3>1. PICK i \in old[r] : p = <<r, i>>
            BY SMTT(30)
        <3> QED
            BY <3>1, PairMember
    <2> QED
        BY <2>1
<1>3. Pairs(old) \cap mine = mine
    BY <1>2
<1>4. IsFiniteSet(old[r]) /\ Cardinality(old[r]) \in Nat
    <2>1. old[r] \in SUBSET JobNames
        BY DEF JobTables
    <2> QED
        BY <2>1, JobNamesFinite, FS_Subset, FS_CardinalityType
<1>5. Cardinality(mine) = Cardinality(old[r])
    <2>1. IsFiniteSet({r}) /\ Cardinality({r}) = 1
        BY FS_Singleton
    <2>2. Cardinality(mine) = Cardinality({r}) * Cardinality(old[r])
        BY <1>4, <2>1, FS_Product
    <2>3. \A n \in Nat : 1 * n = n
        BY SMTT(30)
    <2> QED
        BY <1>4, <2>1, <2>2, <2>3
<1>6. Cardinality(Pairs(old) \ mine) = Cardinality(Pairs(old)) - Cardinality(Pairs(old) \cap mine)
    BY PairsFinite, FS_Difference
<1>7. JobCount(old) = Cardinality(Pairs(old)) /\ JobCount(new) = Cardinality(Pairs(new))
    BY DEF JobCount, Pairs
<1> HIDE DEF mine
<1> QED
    BY <1>1, <1>3, <1>4, <1>5, <1>6, <1>7

-----------------------------------------------------------------------------
(* The balance of the gate: tables of running and of queued jobs, permits  *)
(* left and orphans.                                                       *)

Balanced(run, que, p, o) ==
    /\ run \in JobTables /\ que \in JobTables /\ p \in Nat /\ o \in Nat
    /\ JobCount(run) + o + p = Concurrency
    /\ JobCount(que) + (Concurrency - p) <= MaxInflight

\* Nothing begins or ends; queued jobs may be dropped.
LEMMA BalanceStill ==
    ASSUME NEW run, NEW que, NEW p, NEW o, Balanced(run, que, p, o),
           NEW run1 \in JobTables, NEW que1 \in JobTables,
           \A q \in Requests : run1[q] = run[q] /\ que1[q] \subseteq que[q]
    PROVE  Balanced(run1, que1, p, o)
<1>1. /\ run \in JobTables /\ que \in JobTables /\ p \in Nat /\ o \in Nat
      /\ JobCount(run) + o + p = Concurrency
      /\ JobCount(que) + (Concurrency - p) <= MaxInflight
    BY DEF Balanced
<1>2. JobCount(run1) = JobCount(run)
    <2>1. Pairs(run1) = Pairs(run)
        BY DEF Pairs
    <2> QED
        BY <2>1 DEF JobCount, Pairs
<1>3. /\ JobCount(que1) <= JobCount(que) /\ JobCount(que1) \in Nat /\ JobCount(que) \in Nat
    BY <1>1, CountLess, PairsFinite
<1>4. Concurrency \in Nat /\ MaxInflight \in Nat
    BY DerivedTilesAssumption
<1>5. JobCount(que1) + (Concurrency - p) <= MaxInflight
    BY <1>1, <1>3, <1>4, SMTT(30)
<1> QED
    BY <1>1, <1>2, <1>5 DEF Balanced

\* The gate admits a job.
LEMMA BalanceAdmit ==
    ASSUME NEW run, NEW que, NEW p, NEW o, Balanced(run, que, p, o),
           NEW run1 \in JobTables, NEW que1 \in JobTables,
           NEW r \in Requests, NEW j \in JobNames,
           \A q \in Requests : run1[q] = run[q],
           \A q \in Requests \ {r} : que1[q] = que[q],
           que1[r] = que[r] \cup {j}, j \notin que[r],
           ~(JobCount(que) + (Concurrency - p) >= MaxInflight)
    PROVE  Balanced(run1, que1, p, o)
<1>1. /\ run \in JobTables /\ que \in JobTables /\ p \in Nat /\ o \in Nat
      /\ JobCount(run) + o + p = Concurrency
    BY DEF Balanced
<1>2. JobCount(run1) = JobCount(run)
    <2>1. Pairs(run1) = Pairs(run)
        BY DEF Pairs
    <2> QED
        BY <2>1 DEF JobCount, Pairs
<1>3. JobCount(que1) = JobCount(que) + 1 /\ JobCount(que) \in Nat
    BY <1>1, CountOneMore, PairsFinite
<1>4. Concurrency \in Nat /\ MaxInflight \in Nat
    BY DerivedTilesAssumption
<1>5. JobCount(que1) + (Concurrency - p) <= MaxInflight
    BY <1>1, <1>3, <1>4, SMTT(30)
<1> QED
    BY <1>1, <1>2, <1>5 DEF Balanced

\* A queued job takes a permit.
LEMMA BalanceBegin ==
    ASSUME NEW run, NEW que, NEW p, NEW o, Balanced(run, que, p, o), p > 0,
           NEW run1 \in JobTables, NEW que1 \in JobTables,
           NEW r \in Requests, NEW j \in JobNames,
           \A q \in Requests \ {r} : run1[q] = run[q] /\ que1[q] = que[q],
           run1[r] = run[r] \cup {j}, j \notin run[r],
           que[r] = que1[r] \cup {j}, j \notin que1[r]
    PROVE  Balanced(run1, que1, p - 1, o)
<1>1. /\ run \in JobTables /\ que \in JobTables /\ p \in Nat /\ o \in Nat
      /\ JobCount(run) + o + p = Concurrency
      /\ JobCount(que) + (Concurrency - p) <= MaxInflight
    BY DEF Balanced
<1>2. JobCount(run1) = JobCount(run) + 1 /\ JobCount(run) \in Nat
    BY <1>1, CountOneMore, PairsFinite
<1>3. JobCount(que) = JobCount(que1) + 1 /\ JobCount(que1) \in Nat
    BY <1>1, CountOneMore, PairsFinite
<1>4. Concurrency \in Nat /\ MaxInflight \in Nat
    BY DerivedTilesAssumption
<1>5. /\ p - 1 \in Nat /\ JobCount(run1) + o + (p - 1) = Concurrency
      /\ JobCount(que1) + (Concurrency - (p - 1)) <= MaxInflight
    BY <1>1, <1>2, <1>3, <1>4, SMTT(30)
<1> QED
    BY <1>1, <1>5 DEF Balanced

\* A running job returns its permit.
LEMMA BalanceEnd ==
    ASSUME NEW run, NEW que, NEW p, NEW o, Balanced(run, que, p, o),
           NEW run1 \in JobTables, NEW que1 \in JobTables,
           NEW r \in Requests, NEW j \in JobNames,
           \A q \in Requests \ {r} : run1[q] = run[q],
           \A q \in Requests : que1[q] \subseteq que[q],
           run[r] = run1[r] \cup {j}, j \notin run1[r]
    PROVE  Balanced(run1, que1, p + 1, o)
<1>1. /\ run \in JobTables /\ que \in JobTables /\ p \in Nat /\ o \in Nat
      /\ JobCount(run) + o + p = Concurrency
      /\ JobCount(que) + (Concurrency - p) <= MaxInflight
    BY DEF Balanced
<1>2. JobCount(run) = JobCount(run1) + 1 /\ JobCount(run1) \in Nat
    BY <1>1, CountOneMore, PairsFinite
<1>3. JobCount(que1) <= JobCount(que) /\ JobCount(que1) \in Nat /\ JobCount(que) \in Nat
    BY <1>1, CountLess, PairsFinite
<1>4. Concurrency \in Nat /\ MaxInflight \in Nat
    BY DerivedTilesAssumption
<1>5. /\ p + 1 \in Nat /\ JobCount(run1) + o + (p + 1) = Concurrency
      /\ JobCount(que1) + (Concurrency - (p + 1)) <= MaxInflight
    BY <1>1, <1>2, <1>3, <1>4, SMTT(30)
<1> QED
    BY <1>1, <1>5 DEF Balanced

\* A request leaves its running jobs behind.
LEMMA BalanceDrop ==
    ASSUME NEW run, NEW que, NEW p, NEW o, Balanced(run, que, p, o),
           NEW run1 \in JobTables, NEW que1 \in JobTables, NEW r \in Requests,
           \A q \in Requests \ {r} : run1[q] = run[q], run1[r] = {},
           \A q \in Requests : que1[q] \subseteq que[q]
    PROVE  Balanced(run1, que1, p, o + Cardinality(run[r]))
<1>1. /\ run \in JobTables /\ que \in JobTables /\ p \in Nat /\ o \in Nat
      /\ JobCount(run) + o + p = Concurrency
      /\ JobCount(que) + (Concurrency - p) <= MaxInflight
    BY DEF Balanced
<1>2. PICK n \in Nat : n = Cardinality(run[r])
    BY <1>1, CountDropped
<1>3. JobCount(run1) = JobCount(run) - n /\ JobCount(run) \in Nat /\ JobCount(run1) \in Nat
    BY <1>1, <1>2, CountDropped, PairsFinite
<1>4. JobCount(que1) <= JobCount(que) /\ JobCount(que1) \in Nat /\ JobCount(que) \in Nat
    BY <1>1, CountLess, PairsFinite
<1>5. Concurrency \in Nat /\ MaxInflight \in Nat
    BY DerivedTilesAssumption
<1>6. /\ o + n \in Nat /\ JobCount(run1) + (o + n) + p = Concurrency
      /\ JobCount(que1) + (Concurrency - p) <= MaxInflight
    BY <1>1, <1>3, <1>4, <1>5, SMTT(30)
<1> QED
    BY <1>1, <1>2, <1>6 DEF Balanced

-----------------------------------------------------------------------------
(* The same for the state.                                                 *)

\* The jobs of a record.
LEMMA JobMember ==
    ASSUME NEW x, NEW j
    PROVE  /\ j \in RunningOf(x) <=>
                 \/ j \in Sources /\ x.src[j].st = "running"
                 \/ j = "product" /\ x.pc \in {"generating", "transcoding"}
           /\ j \in QueuedOf(x) <=>
                 \/ j \in Sources /\ x.src[j].st = "queued"
                 \/ j = "product" /\ x.pc \in {"genq", "mltq"}
           /\ j \in RunningOf(x) \cup QueuedOf(x) => j \in JobNames
    BY DEF RunningOf, QueuedOf, JobNames

\* The tables of the state, before and after a step.
LEMMA Tables ==
    /\ Running \in JobTables /\ Queued \in JobTables
    /\ Running' \in JobTables /\ Queued' \in JobTables
    /\ \A q \in Requests : Running[q] = RunningOf(req[q]) /\ Queued[q] = QueuedOf(req[q])
    /\ \A q \in Requests : Running'[q] = RunningOf(req'[q]) /\ Queued'[q] = QueuedOf(req'[q])
<1>1. \A x : RunningOf(x) \subseteq JobNames /\ QueuedOf(x) \subseteq JobNames
    BY DEF RunningOf, QueuedOf, JobNames
<1>2. Running = [q \in Requests |-> RunningOf(req[q])] /\ Queued = [q \in Requests |-> QueuedOf(req[q])]
    BY DEF Running, Queued
<1>3. /\ Running' = [q \in Requests |-> RunningOf(req'[q])]
      /\ Queued' = [q \in Requests |-> QueuedOf(req'[q])]
    BY DEF Running, Queued, RunningOf, QueuedOf
<1> QED
    BY <1>1, <1>2, <1>3 DEF JobTables

\* The gate is in order when its tables balance.
LEMMA GateBalance ==
    /\ GateOK <=> Balanced(Running, Queued, permits, orphans)
    /\ Balanced(Running', Queued', permits', orphans') => GateOK'
<1>1. \A n \in Nat : n >= 0
    BY SMTT(30)
<1>2. JobCount(Running') = JobCount(Running)' /\ JobCount(Queued') = JobCount(Queued)'
    BY DEF JobCount, JobNames, Sources
<1> QED
    BY <1>1, <1>2, Tables DEF GateOK, CpuBounded, Inflight, Balanced

\* A request whose running jobs are the same and that has no new ones.
Kept(q) == RunningOf(req'[q]) = RunningOf(req[q]) /\ QueuedOf(req'[q]) \subseteq QueuedOf(req[q])

\* No job is admitted, begins or ends.
LEMMA GateStill ==
    ASSUME GateOK, \A q \in Requests : Kept(q), UNCHANGED <<permits, orphans>>
    PROVE  GateOK'
<1>1. Balanced(Running', Queued', permits, orphans)
    <2>1. \A q \in Requests : Running'[q] = Running[q] /\ Queued'[q] \subseteq Queued[q]
        BY Tables DEF Kept
    <2>2. Balanced(Running, Queued, permits, orphans)
        BY GateBalance
    <2> QED
        BY <2>1, <2>2, Tables, BalanceStill
<1> QED
    BY <1>1, GateBalance

\* A job of request r is admitted.
LEMMA GateAdmit ==
    ASSUME GateOK, ~Sheds, NEW r \in Requests, NEW j \in JobNames,
           \A q \in Requests \ {r} : req'[q] = req[q],
           RunningOf(req'[r]) = RunningOf(req[r]),
           QueuedOf(req'[r]) = QueuedOf(req[r]) \cup {j}, j \notin QueuedOf(req[r]),
           UNCHANGED <<permits, orphans>>
    PROVE  GateOK'
<1>1. Balanced(Running', Queued', permits, orphans)
    <2>1. /\ \A q \in Requests : Running'[q] = Running[q]
          /\ \A q \in Requests \ {r} : Queued'[q] = Queued[q]
          /\ Queued'[r] = Queued[r] \cup {j} /\ j \notin Queued[r]
        BY Tables
    <2>2. Balanced(Running, Queued, permits, orphans)
        BY GateBalance
    <2>3. ~(JobCount(Queued) + (Concurrency - permits) >= MaxInflight)
        BY DEF Sheds, Inflight
    <2> QED
        BY <2>1, <2>2, <2>3, Tables, BalanceAdmit
<1> QED
    BY <1>1, GateBalance

\* A queued job of request r begins.
LEMMA GateBegin ==
    ASSUME GateOK, permits > 0, NEW r \in Requests, NEW j \in JobNames,
           \A q \in Requests \ {r} : req'[q] = req[q],
           RunningOf(req'[r]) = RunningOf(req[r]) \cup {j}, j \notin RunningOf(req[r]),
           QueuedOf(req[r]) = QueuedOf(req'[r]) \cup {j}, j \notin QueuedOf(req'[r]),
           permits' = permits - 1, orphans' = orphans
    PROVE  GateOK'
<1>1. Balanced(Running', Queued', permits - 1, orphans)
    <2>1. /\ \A q \in Requests \ {r} : Running'[q] = Running[q] /\ Queued'[q] = Queued[q]
          /\ Running'[r] = Running[r] \cup {j} /\ j \notin Running[r]
          /\ Queued[r] = Queued'[r] \cup {j} /\ j \notin Queued'[r]
        BY Tables
    <2>2. Balanced(Running, Queued, permits, orphans)
        BY GateBalance
    <2> QED
        BY <2>1, <2>2, Tables, BalanceBegin, SMTT(30)
<1> QED
    BY <1>1, GateBalance

\* A running job of request r ends.
LEMMA GateEnd ==
    ASSUME GateOK, NEW r \in Requests, NEW j \in JobNames,
           \A q \in Requests \ {r} : Kept(q),
           RunningOf(req[r]) = RunningOf(req'[r]) \cup {j}, j \notin RunningOf(req'[r]),
           QueuedOf(req'[r]) \subseteq QueuedOf(req[r]),
           permits' = permits + 1, orphans' = orphans
    PROVE  GateOK'
<1>1. Balanced(Running', Queued', permits + 1, orphans)
    <2>1. /\ \A q \in Requests \ {r} : Running'[q] = Running[q]
          /\ \A q \in Requests : Queued'[q] \subseteq Queued[q]
          /\ Running[r] = Running'[r] \cup {j} /\ j \notin Running'[r]
        BY Tables DEF Kept
    <2>2. Balanced(Running, Queued, permits, orphans)
        BY GateBalance
    <2> QED
        BY <2>1, <2>2, Tables, BalanceEnd
<1> QED
    BY <1>1, GateBalance

\* Request r leaves its jobs.
LEMMA GateDrop ==
    ASSUME GateOK, NEW r \in Requests, \A q \in Requests \ {r} : Kept(q),
           RunningOf(req'[r]) = {}, QueuedOf(req'[r]) = {},
           permits' = permits, orphans' = orphans + Cardinality(RunningOf(req[r]))
    PROVE  GateOK'
<1>1. Balanced(Running', Queued', permits, orphans + Cardinality(Running[r]))
    <2>1. /\ \A q \in Requests \ {r} : Running'[q] = Running[q]
          /\ Running'[r] = {}
          /\ \A q \in Requests : Queued'[q] \subseteq Queued[q]
        BY Tables DEF Kept
    <2>2. Balanced(Running, Queued, permits, orphans)
        BY GateBalance
    <2> QED
        BY <2>1, <2>2, Tables, BalanceDrop
<1>2. Running[r] = RunningOf(req[r])
    BY Tables
<1> QED
    BY <1>1, <1>2, GateBalance

-----------------------------------------------------------------------------
(* The record of a request.                                                *)

\* One field at a time.
LEMMA PcSet ==
    ASSUME NEW x \in RequestType, NEW p \in Phases, NEW y, y = [x EXCEPT !.pc = p]
    PROVE  y \in RequestType /\ y.pc = p /\ y.src = x.src /\ y.out = x.out /\ y.gen = x.gen
    BY SMTT(30) DEF RequestType

\* The sources.
LEMMA SrcSet ==
    ASSUME NEW x \in RequestType, NEW v \in [Sources -> SourceType], NEW y, y = [x EXCEPT !.src = v]
    PROVE  y \in RequestType /\ y.pc = x.pc /\ y.src = v /\ y.out = x.out /\ y.gen = x.gen
    BY SMTT(30) DEF RequestType

\* The generation.
LEMMA GenSet ==
    ASSUME NEW x \in RequestType, NEW v \in Nat, NEW y, y = [x EXCEPT !.gen = v]
    PROVE  y \in RequestType /\ y.pc = x.pc /\ y.src = x.src /\ y.out = x.out /\ y.gen = v
    BY SMTT(30) DEF RequestType

\* The fields of a request.
LEMMA Fields ==
    ASSUME NEW x \in RequestType
    PROVE  /\ x.pc \in Phases /\ x.gen \in Nat /\ x.out \in OutcomeType
           /\ x.src \in [Sources -> SourceType]
           /\ \A s \in Sources : x.src[s] \in SourceType /\ x.src[s].st \in SourceStates
                                 /\ x.src[s].gen \in Nat
<1>1. /\ x.pc \in Phases /\ x.gen \in Nat /\ x.out \in OutcomeType
      /\ x.src \in [Sources -> SourceType]
    BY DEF RequestType
<1>2. \A v \in SourceType : v.st \in SourceStates /\ v.gen \in Nat
    BY DEF SourceType
<1> QED
    BY <1>1, <1>2

\* The state of a source.
LEMMA SrcTyped ==
    ASSUME NEW st \in SourceStates, NEW g \in Nat
    PROVE  Src(st, g) \in SourceType /\ Src(st, g).st = st /\ Src(st, g).gen = g
    BY DEF Src, SourceType

\* The names of states, as members of their sets.
LEMMA Names ==
    /\ {"idle", "todo", "raw", "none", "failed", "wait", "queued", "running", "have"} \subseteq SourceStates
    /\ {"new", "info", "lookup", "await", "have", "mltq", "mltwait", "transcoding", "done",
        "error", "gone"} \subseteq Phases \ Generating
    /\ Generating \subseteq Phases /\ Generating = {"sources", "genq", "generating"}
    /\ "product" \notin Sources /\ "product" \in JobNames /\ Sources \subseteq JobNames
    /\ "center" \in Sources /\ "neighbour" \in Sources
<1>1. /\ {"idle", "todo", "raw", "none", "failed", "wait", "queued", "running", "have"} \subseteq SourceStates
      /\ Generating \subseteq Phases /\ Generating = {"sources", "genq", "generating"}
    BY SMTT(30) DEF SourceStates, Phases, Generating
<1>2. {"new", "info", "lookup", "await", "have", "mltq", "mltwait", "transcoding", "done",
        "error", "gone"} \subseteq Phases \ Generating
    BY SMTT(30) DEF Phases, Generating
<1>3. /\ "product" \notin Sources /\ "product" \in JobNames /\ Sources \subseteq JobNames
      /\ "center" \in Sources /\ "neighbour" \in Sources
    BY SMTT(30) DEF Sources, JobNames
<1> QED
    BY <1>1, <1>2, <1>3

\* Without sources there is nothing to decode.
LEMMA NoSourcesIdle ==
    /\ NoSources \in [Sources -> SourceType]
    /\ \A s \in Sources : NoSources[s].st \notin {"queued", "running", "wait"}
<1>1. Src("idle", 0) \in SourceType /\ Src("idle", 0).st = "idle"
    <2>1. 0 \in Nat
        BY SMTT(30)
    <2> QED
        BY <2>1, SrcTyped, Names
<1>2. \A s \in Sources : NoSources[s] = Src("idle", 0)
    BY DEF NoSources
<1>3. "idle" \notin {"queued", "running", "wait"}
    BY SMTT(30)
<1>4. NoSources \in [Sources -> SourceType]
    BY <1>1 DEF NoSources
<1>5. ASSUME NEW s \in Sources
      PROVE  NoSources[s].st \notin {"queued", "running", "wait"}
    BY <1>1, <1>2, <1>3, <1>5
<1> QED
    BY <1>4, <1>5

\* A request that leaves its generation.
LEMMA LeftFacts ==
    ASSUME NEW x \in RequestType, NEW p \in Phases, NEW y, y = Left(x, p)
    PROVE  y \in RequestType /\ y.pc = p /\ y.src = NoSources /\ y.out = x.out /\ y.gen = x.gen
<1>1. PICK z : z = [x EXCEPT !.pc = p]
    OBVIOUS
<1>2. z \in RequestType /\ z.pc = p /\ z.out = x.out /\ z.gen = x.gen
    BY <1>1, PcSet, SMTT(30)
<1>3. y = [z EXCEPT !.src = NoSources]
    BY <1>1 DEF Left
<1> QED
    BY <1>2, <1>3, SrcSet, NoSourcesIdle, SMTT(30)

\* A request outside of a generation.
LEMMA OutsideOK ==
    ASSUME NEW y \in RequestType, y.pc \notin Generating, y.src = NoSources, Honest(y.out)
    PROVE  RequestOK(y)
<1>1. y.pc \notin {"genq", "generating"}
    BY Names
<1> QED
    BY <1>1 DEF RequestOK, Shaped

\* A request that fetches its sources may have any.
LEMMA FetchingOK ==
    ASSUME NEW y \in RequestType, y.pc = "sources", Honest(y.out)
    PROVE  RequestOK(y)
<1>1. y.pc \in Generating /\ y.pc \notin {"genq", "generating"}
    BY SMTT(30) DEF Generating
<1> QED
    BY <1>1 DEF RequestOK, Shaped

\* Past the sources, the jobs of a request are those of its phase.
LEMMA JobsByPhase ==
    ASSUME NEW x, RequestOK(x), x.pc # "sources"
    PROVE  /\ x.pc \in {"generating", "transcoding"} => RunningOf(x) = {"product"} /\ QueuedOf(x) = {}
           /\ x.pc \in {"genq", "mltq"} => RunningOf(x) = {} /\ QueuedOf(x) = {"product"}
           /\ x.pc \notin {"generating", "transcoding", "genq", "mltq"} =>
                 RunningOf(x) = {} /\ QueuedOf(x) = {}
<1>1. \A s \in Sources : x.src[s].st \notin {"queued", "running"}
    <2>1. CASE x.pc \in {"genq", "generating"}
        BY <2>1 DEF RequestOK, Shaped
    <2>2. CASE x.pc \notin {"genq", "generating"}
        <3>1. x.pc \notin Generating
            BY <2>2 DEF Generating
        <3>2. x.src = NoSources
            BY <3>1 DEF RequestOK, Shaped
        <3> QED
            BY <3>2, NoSourcesIdle
    <2> QED
        BY <2>1, <2>2
<1>2. /\ \A j : j \in RunningOf(x) <=> j = "product" /\ x.pc \in {"generating", "transcoding"}
      /\ \A j : j \in QueuedOf(x) <=> j = "product" /\ x.pc \in {"genq", "mltq"}
    BY <1>1, JobMember
<1>3. x.pc \in {"generating", "transcoding"} => x.pc \notin {"genq", "mltq"}
    BY SMTT(30)
<1>4. CASE x.pc \in {"generating", "transcoding"}
    BY <1>2, <1>3, <1>4
<1>5. CASE x.pc \in {"genq", "mltq"}
    BY <1>2, <1>3, <1>5
<1>6. CASE x.pc \notin {"generating", "transcoding", "genq", "mltq"}
    BY <1>2, <1>6
<1> QED
    BY <1>3, <1>4, <1>5, <1>6

\* The jobs of a request that fetches its sources are decodes.
LEMMA JobsOfSources ==
    ASSUME NEW x, x.pc = "sources"
    PROVE  /\ RunningOf(x) = {s \in Sources : x.src[s].st = "running"}
           /\ QueuedOf(x) = {s \in Sources : x.src[s].st = "queued"}
<1>1. x.pc \notin {"generating", "transcoding"} /\ x.pc \notin {"genq", "mltq"}
    BY SMTT(30)
<1> QED
    BY <1>1, JobMember, SMTT(30)

\* One source of a request.
LEMMA WithSrcFacts ==
    ASSUME NEW x \in RequestType, NEW s \in Sources, NEW v \in SourceType, NEW y,
           y = WithSrc(x, s, v)
    PROVE  /\ y \in RequestType /\ y.pc = x.pc /\ y.out = x.out /\ y.gen = x.gen
           /\ y.src[s] = v /\ \A u \in Sources \ {s} : y.src[u] = x.src[u]
<1>1. x.src \in [Sources -> SourceType]
    BY Fields
<1>2. PICK w : w = [x.src EXCEPT ![s] = v]
    OBVIOUS
<1>3. w \in [Sources -> SourceType] /\ w[s] = v /\ \A u \in Sources \ {s} : w[u] = x.src[u]
    BY <1>1, <1>2
<1>4. y = [x EXCEPT !.src = w]
    BY <1>2 DEF WithSrc
<1> QED
    BY <1>3, <1>4, SrcSet, SMTT(30)

\* Its jobs.
LEMMA WithSrcJobs ==
    ASSUME NEW x \in RequestType, NEW s \in Sources, NEW v \in SourceType, NEW y,
           y = WithSrc(x, s, v)
    PROVE  /\ v.st \notin {"queued", "running"} =>
                 RunningOf(y) = RunningOf(x) \ {s} /\ QueuedOf(y) = QueuedOf(x) \ {s}
           /\ v.st = "queued" =>
                 RunningOf(y) = RunningOf(x) \ {s} /\ QueuedOf(y) = QueuedOf(x) \cup {s}
           /\ v.st = "running" =>
                 RunningOf(y) = RunningOf(x) \cup {s} /\ QueuedOf(y) = QueuedOf(x) \ {s}
           /\ s \in RunningOf(x) <=> x.src[s].st = "running"
           /\ s \in QueuedOf(x) <=> x.src[s].st = "queued"
<1>1. /\ y.pc = x.pc /\ y.src[s] = v /\ \A u \in Sources \ {s} : y.src[u] = x.src[u]
    BY WithSrcFacts, SMTT(30)
<1>2. s # "product"
    BY Names
<1>3. \A j : j # s => /\ j \in RunningOf(y) <=> j \in RunningOf(x)
                      /\ j \in QueuedOf(y) <=> j \in QueuedOf(x)
    <2> SUFFICES ASSUME NEW j, j # s
                 PROVE  /\ j \in RunningOf(y) <=> j \in RunningOf(x)
                        /\ j \in QueuedOf(y) <=> j \in QueuedOf(x)
        OBVIOUS
    <2>1. j \in Sources => y.src[j].st = x.src[j].st
        BY <1>1
    <2> QED
        BY <1>1, <2>1, JobMember, SMTT(30)
<1>4. /\ s \in RunningOf(y) <=> v.st = "running"
      /\ s \in QueuedOf(y) <=> v.st = "queued"
    BY <1>1, <1>2, JobMember, SMTT(30)
<1>5. /\ s \in RunningOf(x) <=> x.src[s].st = "running"
      /\ s \in QueuedOf(x) <=> x.src[s].st = "queued"
    BY <1>2, JobMember, SMTT(30)
<1>6. "queued" # "running"
    BY SMTT(30)
<1>7. CASE v.st \notin {"queued", "running"}
    BY <1>3, <1>4, <1>5, <1>7
<1>8. CASE v.st = "queued"
    BY <1>3, <1>4, <1>5, <1>6, <1>8
<1>9. CASE v.st = "running"
    BY <1>3, <1>4, <1>5, <1>6, <1>9
<1> QED
    BY <1>5, <1>6, <1>7, <1>8, <1>9

-----------------------------------------------------------------------------
(* Steps of one request, and of all that wait for it.                      *)

\* The requests are in order when every record is.
LEMMA AllRequestsOK ==
    ASSUME req' = [q \in Requests |-> req'[q]], \A q \in Requests : RequestOK(req'[q])
    PROVE  RequestsOK'
<1>1. \A q \in Requests : req'[q] \in RequestType
    BY DEF RequestOK
<1>2. req' \in [Requests -> RequestType]
    BY <1>1
<1>3. \A q \in Requests : RequestOK(req[q])'
    BY DEF RequestOK, Honest, Shaped
<1> QED
    BY <1>2, <1>3 DEF RequestsOK

\* One request moves.
LEMMA OneStep ==
    ASSUME RequestsOK, NEW r \in Requests, NEW y, RequestOK(y), Step(r, y)
    PROVE  RequestsOK' /\ req'[r] = y /\ \A q \in Requests \ {r} : req'[q] = req[q] /\ Kept(q)
<1>1. req \in [Requests -> RequestType] /\ \A q \in Requests : RequestOK(req[q])
    BY DEF RequestsOK
<1>2. req' = [req EXCEPT ![r] = y]
    BY DEF Step
<1>3. req'[r] = y /\ \A q \in Requests \ {r} : req'[q] = req[q]
    BY <1>1, <1>2
<1>4. req' = [q \in Requests |-> req'[q]]
    BY <1>1, <1>2
<1>5. \A q \in Requests : RequestOK(req'[q])
    BY <1>1, <1>3
<1> QED
    BY <1>3, <1>4, <1>5, AllRequestsOK DEF Kept

QuietPhases == {"new", "info", "lookup", "await", "have", "mltwait", "done", "error", "gone"}

\* In these phases a request has no job.
LEMMA QuietJobs ==
    ASSUME NEW x, RequestOK(x), x.pc \in QuietPhases
    PROVE  /\ RunningOf(x) = {} /\ QueuedOf(x) = {}
           /\ x.pc \in Phases \ Generating /\ x.src = NoSources
<1>1. x.pc # "sources" /\ x.pc \notin {"generating", "transcoding", "genq", "mltq"}
    BY SMTT(30) DEF QuietPhases
<1>2. x.pc \in Phases \ Generating
    BY SMTT(30) DEF QuietPhases, Phases, Generating
<1> QED
    BY <1>1, <1>2, JobsByPhase DEF RequestOK, Shaped

\* The variables that most steps leave alone.
World == <<sc, now, ptr, derived, mlt, permits, orphans>>

\* A request moves between two such phases.
LEMMA QuietMove ==
    ASSUME Inv, NEW r \in Requests, NEW y, RequestOK(y), Step(r, y), y.pc \in QuietPhases,
           req[r].pc \in QuietPhases, UNCHANGED World
    PROVE  Inv'
<1>1. RequestsOK' /\ req'[r] = y /\ \A q \in Requests \ {r} : req'[q] = req[q] /\ Kept(q)
    BY OneStep DEF Inv
<1>2. Kept(r)
    <2>1. RequestOK(req[r])
        BY DEF Inv, RequestsOK
    <2> QED
        BY <1>1, <2>1, QuietJobs DEF Kept
<1>3. GateOK'
    BY <1>1, <1>2, GateStill DEF Inv, World
<1> QED
    BY <1>1, <1>3 DEF Inv, World, WorldOK, StoresOK

\* A record with another phase outside of a generation.
LEMMA PcAt ==
    ASSUME NEW x, RequestOK(x), x.src = NoSources, NEW p \in Phases \ Generating,
           NEW y, y = [x EXCEPT !.pc = p]
    PROVE  RequestOK(y) /\ y.pc = p /\ y.out = x.out
<1>1. x \in RequestType /\ Honest(x.out)
    BY DEF RequestOK
<1>2. y \in RequestType /\ y.pc = p /\ y.src = x.src /\ y.out = x.out
    BY <1>1, PcSet, SMTT(30)
<1> QED
    BY <1>1, <1>2, OutsideOK

\* A record with another phase and another outcome.
Revised(x, p, out) == [[x EXCEPT !.pc = p] EXCEPT !.out = out]

\* Outside of a generation, it is in order when the outcome is honest.
LEMMA OutAt ==
    ASSUME NEW x, RequestOK(x), x.src = NoSources, NEW p \in Phases \ Generating,
           NEW out \in OutcomeType, Honest(out)
    PROVE  /\ RequestOK(Revised(x, p, out)) /\ Revised(x, p, out).pc = p
           /\ Revised(x, p, out).out = out
<1>1. PICK z : z = [x EXCEPT !.pc = p]
    OBVIOUS
<1>2. PICK y : y = [z EXCEPT !.out = out]
    OBVIOUS
<1>3. x \in RequestType
    BY DEF RequestOK
<1>4. z \in RequestType /\ z.pc = p /\ z.src = NoSources
    BY <1>1, <1>3, PcSet, SMTT(30)
<1>5. y \in RequestType /\ y.pc = p /\ y.src = NoSources /\ y.out = out
    BY <1>2, <1>4, SMTT(30) DEF RequestType
<1>6. RequestOK(y)
    BY <1>5, OutsideOK
<1> QED
    BY <1>1, <1>2, <1>5, <1>6 DEF Revised

\* An outcome, and whether it is honest.
LEMMA OutcomeTyped ==
    ASSUME NEW kind \in {"none", "tile", "degraded", "absent"}, NEW failed \in BOOLEAN,
           NEW until \in Nat
    PROVE  /\ Outcome(kind, failed, until) \in OutcomeType
           /\ (failed => kind = "degraded") => Honest(Outcome(kind, failed, until))
    BY DEF Outcome, OutcomeType, Honest

\* What crosses the wire is what was sent.
LEMMA DecodedSame ==
    ASSUME NEW out \in OutcomeType, out.kind \in {"tile", "degraded", "absent"}
    PROVE  Decoded(out) \in OutcomeType /\ (Honest(out) => Honest(Decoded(out)))
<1>1. WireKind(WireStatus(out.kind)) = out.kind
    <2>1. CASE out.kind = "tile"
        BY <2>1, SMTT(30) DEF WireKind, WireStatus
    <2>2. CASE out.kind = "degraded"
        BY <2>2, SMTT(30) DEF WireKind, WireStatus
    <2>3. CASE out.kind = "absent"
        BY <2>3, SMTT(30) DEF WireKind, WireStatus
    <2> QED
        BY <2>1, <2>2, <2>3
<1>2. PICK v : v = [out EXCEPT !.kind = out.kind]
    OBVIOUS
<1>3. v = out
    BY <1>2, SMTT(30) DEF OutcomeType
<1>4. Decoded(out) = v
    BY <1>1, <1>2 DEF Decoded
<1> QED
    BY <1>3, <1>4

\* The fields of the state that the actions read.
LEMMA StateFacts ==
    ASSUME Inv
    PROVE  /\ now \in Nat /\ now + 1 \in Nat /\ now + NegativeTtl \in Nat /\ Horizon + 1 \in Nat
           /\ \A s \in Sources : ptr[Home(s)] \in Nat
           /\ \A r \in Requests : /\ RequestOK(req[r]) /\ req[r] \in RequestType
                                  /\ Honest(req[r].out) /\ req[r].out \in OutcomeType
<1>1. now \in Nat /\ NegativeTtl \in Nat /\ Horizon \in Nat
    BY DerivedTilesAssumption DEF Inv, WorldOK
<1>2. now + 1 \in Nat /\ now + NegativeTtl \in Nat /\ Horizon + 1 \in Nat
    BY <1>1, SMTT(30)
<1>3. \A s \in Sources : ptr[Home(s)] \in Nat
    <2>1. sc.home \in [Sources -> Stores] /\ ptr \in [Stores -> Nat]
        BY DerivedTilesAssumption DEF Inv, WorldOK, Sources, Stores
    <2> QED
        BY <2>1 DEF Home
<1>4. \A r \in Requests : /\ RequestOK(req[r]) /\ req[r] \in RequestType
                          /\ Honest(req[r].out) /\ req[r].out \in OutcomeType
    BY Fields DEF Inv, RequestsOK, RequestOK
<1> QED
    BY <1>1, <1>2, <1>3, <1>4

-----------------------------------------------------------------------------
(* The request up to its generation.                                       *)

\* Where a request is routed.
LEMMA RouteKeeps ==
    ASSUME Inv, NEW r \in Requests, Route(r)
    PROVE  Inv'
<1>1. req[r].pc \in QuietPhases /\ RequestOK(req[r])
    BY StateFacts DEF Route, QuietPhases
<1>2. req[r].src = NoSources /\ UNCHANGED World
    BY <1>1, QuietJobs DEF Route, World
<1>3. "done" \in Phases \ Generating /\ "info" \in Phases \ Generating
      /\ "done" \in QuietPhases /\ "info" \in QuietPhases
    BY Names DEF QuietPhases
<1>4. ASSUME NEW kind \in {"tile", "degraded", "absent"},
             Answer(r, Decoded(Outcome(kind, kind = "degraded", now + 1)))
      PROVE  Inv'
    <2>1. /\ kind \in {"none", "tile", "degraded", "absent"} /\ (kind = "degraded") \in BOOLEAN
          /\ now + 1 \in Nat
        BY StateFacts
    <2>2. PICK o : o = Outcome(kind, kind = "degraded", now + 1)
        OBVIOUS
    <2>3. o \in OutcomeType /\ o.kind = kind /\ Honest(o)
        <3>1. o.kind = kind
            BY <2>2 DEF Outcome
        <3> QED
            BY <2>1, <2>2, <3>1, OutcomeTyped
    <2>4. PICK out : out = Decoded(o)
        OBVIOUS
    <2>5. out \in OutcomeType /\ Honest(out)
        BY <2>3, <2>4, DecodedSame
    <2>6. PICK y : y = Revised(req[r], "done", out)
        OBVIOUS
    <2>7. RequestOK(y) /\ y.pc = "done"
        BY <1>1, <1>2, <1>3, <2>5, <2>6, OutAt, SMTT(30)
    <2>8. Step(r, y)
        BY <1>4, <2>2, <2>4, <2>6 DEF Answer, To, Revised
    <2> QED
        BY <1>1, <1>2, <1>3, <2>7, <2>8, QuietMove
<1>5. ASSUME Step(r, To(r, "info"))
      PROVE  Inv'
    <2>1. PICK y : y = [req[r] EXCEPT !.pc = "info"]
        OBVIOUS
    <2>2. RequestOK(y) /\ y.pc = "info"
        BY <1>1, <1>2, <1>3, <2>1, PcAt, SMTT(30)
    <2>3. Step(r, y)
        BY <1>5, <2>1 DEF To
    <2> QED
        BY <1>1, <1>2, <1>3, <2>2, <2>3, QuietMove
<1> QED
    BY <1>4, <1>5 DEF Route

\* What the archive says of the tile.
LEMMA InfoKeeps ==
    ASSUME Inv, NEW r \in Requests, Info(r)
    PROVE  Inv'
<1>1. req[r].pc \in QuietPhases /\ RequestOK(req[r])
    BY StateFacts DEF Info, QuietPhases
<1>2. req[r].src = NoSources /\ UNCHANGED World
    BY <1>1, QuietJobs DEF Info, World
<1>3. /\ "done" \in Phases \ Generating /\ "lookup" \in Phases \ Generating
      /\ "error" \in Phases \ Generating
      /\ "done" \in QuietPhases /\ "lookup" \in QuietPhases /\ "error" \in QuietPhases
    BY Names DEF QuietPhases
<1>4. ASSUME Answer(r, Outcome("absent", FALSE, now + NegativeTtl))
      PROVE  Inv'
    <2>1. PICK out : out = Outcome("absent", FALSE, now + NegativeTtl)
        OBVIOUS
    <2>2. out \in OutcomeType /\ Honest(out)
        BY <2>1, OutcomeTyped, StateFacts
    <2>3. PICK y : y = Revised(req[r], "done", out)
        OBVIOUS
    <2>4. RequestOK(y) /\ y.pc = "done"
        BY <1>1, <1>2, <1>3, <2>2, <2>3, OutAt, SMTT(30)
    <2>5. Step(r, y)
        BY <1>4, <2>1, <2>3 DEF Answer, To, Revised
    <2> QED
        BY <1>1, <1>2, <1>3, <2>4, <2>5, QuietMove
<1>5. ASSUME NEW g \in Nat, Step(r, [To(r, "lookup") EXCEPT !.gen = g])
      PROVE  Inv'
    <2>1. PICK z : z = [req[r] EXCEPT !.pc = "lookup"]
        OBVIOUS
    <2>2. RequestOK(z) /\ z.pc = "lookup" /\ z \in RequestType /\ z.src = NoSources
        <3>1. RequestOK(z) /\ z.pc = "lookup"
            BY <1>1, <1>2, <1>3, <2>1, PcAt
        <3> QED
            BY <1>3, <3>1, QuietJobs DEF RequestOK
    <2>3. PICK y : y = [z EXCEPT !.gen = g]
        OBVIOUS
    <2>4. y \in RequestType /\ y.pc = "lookup" /\ y.src = NoSources /\ y.out = z.out
        BY <2>2, <2>3, GenSet, SMTT(30)
    <2>5. RequestOK(y)
        BY <1>3, <2>2, <2>4, OutsideOK DEF RequestOK
    <2>6. Step(r, y)
        BY <1>5, <2>1, <2>3 DEF To
    <2> QED
        BY <1>1, <1>2, <1>3, <2>4, <2>5, <2>6, QuietMove
<1>6. ASSUME Step(r, To(r, "error"))
      PROVE  Inv'
    <2>1. PICK y : y = [req[r] EXCEPT !.pc = "error"]
        OBVIOUS
    <2>2. RequestOK(y) /\ y.pc = "error"
        BY <1>1, <1>2, <1>3, <2>1, PcAt
    <2>3. Step(r, y)
        BY <1>6, <2>1 DEF To
    <2> QED
        BY <1>1, <1>2, <1>3, <2>2, <2>3, QuietMove
<1>7. ptr[Home("center")] \in Nat
    BY StateFacts, Names
<1> QED
    BY <1>4, <1>5, <1>6, <1>7 DEF Info

\* The derived cache answers, another request leads, or this one does.
LEMMA LookupKeeps ==
    ASSUME Inv, NEW r \in Requests, LookupDerived(r)
    PROVE  Inv'
<1>1. req[r].pc \in QuietPhases /\ RequestOK(req[r])
    BY StateFacts DEF LookupDerived, QuietPhases
<1>2. /\ req[r].src = NoSources /\ UNCHANGED World
      /\ RunningOf(req[r]) = {} /\ QueuedOf(req[r]) = {}
    BY <1>1, QuietJobs DEF LookupDerived, World
<1>3. /\ "have" \in Phases \ Generating /\ "await" \in Phases \ Generating
      /\ "have" \in QuietPhases /\ "await" \in QuietPhases
    BY Names DEF QuietPhases
<1>4. ASSUME Fresh(r), Step(r, [To(r, "have") EXCEPT !.out = derived[Key(r)]])
      PROVE  Inv'
    <2>1. PICK out : out = derived[Key(r)]
        OBVIOUS
    <2>2. out \in OutcomeType /\ Honest(out)
        BY <1>4, <2>1 DEF Fresh, Inv, StoresOK
    <2>3. PICK y : y = Revised(req[r], "have", out)
        OBVIOUS
    <2>4. RequestOK(y) /\ y.pc = "have"
        BY <1>1, <1>2, <1>3, <2>2, <2>3, OutAt, SMTT(30)
    <2>5. Step(r, y)
        BY <1>4, <2>1, <2>3 DEF To, Revised
    <2> QED
        BY <1>1, <1>2, <1>3, <2>4, <2>5, QuietMove
<1>5. ASSUME Step(r, To(r, "await"))
      PROVE  Inv'
    <2>1. PICK y : y = [req[r] EXCEPT !.pc = "await"]
        OBVIOUS
    <2>2. RequestOK(y) /\ y.pc = "await"
        BY <1>1, <1>2, <1>3, <2>1, PcAt, ZenonT(30)
    <2>3. Step(r, y)
        BY <1>5, <2>1 DEF To
    <2> QED
        BY <1>1, <1>2, <1>3, <2>2, <2>3, QuietMove
<1>6. ASSUME Step(r, [To(r, "sources") EXCEPT !.src = [s \in Sources |-> Src("todo", 0)]])
      PROVE  Inv'
    <2>1. PICK v : v = [s \in Sources |-> Src("todo", 0)]
        OBVIOUS
    <2>2. v \in [Sources -> SourceType] /\ \A s \in Sources : v[s].st = "todo"
        <3>1. 0 \in Nat
            BY SMTT(30)
        <3>2. Src("todo", 0) \in SourceType /\ Src("todo", 0).st = "todo"
            BY <3>1, SrcTyped, Names
        <3> QED
            BY <2>1, <3>2
    <2>3. PICK z : z = [req[r] EXCEPT !.pc = "sources"]
        OBVIOUS
    <2>4. PICK y : y = [z EXCEPT !.src = v]
        OBVIOUS
    <2>5. y \in RequestType /\ y.pc = "sources" /\ y.src = v /\ y.out = req[r].out
        <3>1. "sources" \in Phases /\ req[r] \in RequestType
            BY Names, StateFacts
        <3>2. z \in RequestType /\ z.pc = "sources" /\ z.out = req[r].out
            BY <2>3, <3>1, PcSet, SMTT(30)
        <3> QED
            BY <2>2, <2>4, <3>2, SrcSet, SMTT(30)
    <2>6. RequestOK(y)
        BY <2>5, FetchingOK, StateFacts
    <2>7. RunningOf(y) = {} /\ QueuedOf(y) = {}
        <3>1. "todo" # "running" /\ "todo" # "queued"
            BY SMTT(30)
        <3> QED
            BY <2>2, <2>5, <3>1, JobsOfSources
    <2>8. Step(r, y)
        BY <1>6, <2>1, <2>3, <2>4 DEF To
    <2>9. RequestsOK' /\ req'[r] = y /\ \A q \in Requests \ {r} : Kept(q)
        BY <2>6, <2>8, OneStep DEF Inv
    <2>10. GateOK'
        <3>1. Kept(r)
            BY <1>2, <2>7, <2>9 DEF Kept
        <3> QED
            BY <1>2, <2>9, <3>1, GateStill DEF Inv, World
    <2> QED
        BY <1>2, <2>9, <2>10 DEF Inv, World, WorldOK, StoresOK
<1> QED
    BY <1>4, <1>5, <1>6 DEF LookupDerived

-----------------------------------------------------------------------------
(* The sources.                                                            *)

\* A request that fetches its sources gets another state of one.
LEMMA SourceStep ==
    ASSUME Inv, NEW r \in Requests, NEW s \in Sources, NEW v \in SourceType,
           req[r].pc = "sources", SetSrc(r, s, v)
    PROVE  /\ RequestsOK' /\ req'[r] = WithSrc(req[r], s, v)
           /\ \A q \in Requests \ {r} : req'[q] = req[q] /\ Kept(q)
<1>1. PICK y : y = WithSrc(req[r], s, v)
    OBVIOUS
<1>2. y \in RequestType /\ y.pc = "sources" /\ y.out = req[r].out
    BY <1>1, WithSrcFacts, StateFacts, SMTT(30)
<1>3. RequestOK(y)
    BY <1>2, FetchingOK, StateFacts
<1> QED
    BY <1>1, <1>3, OneStep DEF Inv, SetSrc

\* One that begins no job.
LEMMA SourceQuiet ==
    ASSUME Inv, NEW r \in Requests, NEW s \in Sources, NEW v \in SourceType,
           req[r].pc = "sources", SetSrc(r, s, v),
           v.st \notin {"queued", "running"}, req[r].src[s].st # "running",
           UNCHANGED World
    PROVE  Inv'
<1>1. /\ RequestsOK' /\ req'[r] = WithSrc(req[r], s, v)
      /\ \A q \in Requests \ {r} : Kept(q)
    BY SourceStep
<1>2. Kept(r)
    <2>1. /\ RunningOf(req'[r]) = RunningOf(req[r]) \ {s}
          /\ QueuedOf(req'[r]) = QueuedOf(req[r]) \ {s}
          /\ s \notin RunningOf(req[r])
        BY <1>1, WithSrcJobs, StateFacts, SMTT(30)
    <2> QED
        BY <2>1 DEF Kept
<1>3. GateOK'
    BY <1>1, <1>2, GateStill DEF Inv, World
<1> QED
    BY <1>1, <1>3 DEF Inv, World, WorldOK, StoresOK

\* The tile of a source is fetched.
LEMMA FetchKeeps ==
    ASSUME Inv, NEW r \in Requests, NEW s \in Sources, FetchSource(r, s)
    PROVE  Inv'
<1>1. req[r].pc = "sources" /\ req[r].src[s].st # "running" /\ UNCHANGED World
    <2>1. "todo" # "running"
        BY SMTT(30)
    <2> QED
        BY <2>1 DEF FetchSource, World
<1>2. /\ Src("failed", 0) \in SourceType /\ Src("failed", 0).st = "failed"
      /\ Src("none", 0) \in SourceType /\ Src("none", 0).st = "none"
      /\ \A g \in Nat : Src("raw", g) \in SourceType /\ Src("raw", g).st = "raw"
    <2>1. 0 \in Nat
        BY SMTT(30)
    <2> QED
        BY <2>1, SrcTyped, Names
<1>3. /\ "failed" \notin {"queued", "running"} /\ "none" \notin {"queued", "running"}
      /\ "raw" \notin {"queued", "running"}
    BY SMTT(30)
<1>4. PICK v : SetSrc(r, s, v) /\ v \in {Src("failed", 0), Src("none", 0), Src("raw", ptr[Home(s)])}
    BY DEF FetchSource
<1>5. v \in SourceType /\ v.st \notin {"queued", "running"}
    BY <1>2, <1>3, <1>4, StateFacts
<1> QED
    BY <1>1, <1>4, <1>5, SourceQuiet

\* A source is decoded already, awaited, shed, or queued for the gate.
LEMMA DecodeKeeps ==
    ASSUME Inv, NEW r \in Requests, NEW s \in Sources, DecodeSource(r, s)
    PROVE  Inv'
<1>1. /\ req[r].pc = "sources" /\ req[r].src[s].st = "raw" /\ UNCHANGED World
    BY DEF DecodeSource, World
<1>2. PICK g \in Nat : g = req[r].src[s].gen
    BY Fields, StateFacts
<1>3. /\ Src("failed", 0) \in SourceType /\ Src("failed", 0).st = "failed"
      /\ Src("have", g) \in SourceType /\ Src("have", g).st = "have"
      /\ Src("wait", g) \in SourceType /\ Src("wait", g).st = "wait"
      /\ Src("queued", g) \in SourceType /\ Src("queued", g).st = "queued"
    <2>1. 0 \in Nat
        BY SMTT(30)
    <2> QED
        BY <2>1, SrcTyped, Names
<1>4. /\ "failed" \notin {"queued", "running"} /\ "have" \notin {"queued", "running"}
      /\ "wait" \notin {"queued", "running"} /\ "raw" # "running" /\ "raw" # "queued"
    BY SMTT(30)
<1>5. \/ \E v \in {Src("failed", 0), Src("have", g), Src("wait", g)} : SetSrc(r, s, v)
      \/ ~Sheds /\ SetSrc(r, s, Src("queued", g))
    BY <1>2 DEF DecodeSource
<1>6. ASSUME NEW v \in {Src("failed", 0), Src("have", g), Src("wait", g)}, SetSrc(r, s, v)
      PROVE  Inv'
    <2>1. v \in SourceType /\ v.st \notin {"queued", "running"}
        BY <1>3, <1>4
    <2> QED
        BY <1>1, <1>4, <1>6, <2>1, SourceQuiet
<1>7. ASSUME ~Sheds, SetSrc(r, s, Src("queued", g))
      PROVE  Inv'
    <2>1. /\ RequestsOK' /\ req'[r] = WithSrc(req[r], s, Src("queued", g))
          /\ \A q \in Requests \ {r} : req'[q] = req[q]
        BY <1>1, <1>3, <1>7, SourceStep
    <2>2. /\ RunningOf(req'[r]) = RunningOf(req[r]) \ {s} /\ s \notin RunningOf(req[r])
          /\ QueuedOf(req'[r]) = QueuedOf(req[r]) \cup {s} /\ s \notin QueuedOf(req[r])
        BY <1>1, <1>3, <1>4, <2>1, WithSrcJobs, StateFacts, SMTT(30)
    <2>3. RunningOf(req'[r]) = RunningOf(req[r]) /\ s \in JobNames
        BY <2>2, Names
    <2>4. GateOK'
        BY <1>1, <1>7, <2>1, <2>2, <2>3, GateAdmit DEF Inv, World
    <2> QED
        BY <1>1, <2>1, <2>4 DEF Inv, World, WorldOK, StoresOK
<1> QED
    BY <1>5, <1>6, <1>7

\* Only a request that fetches its sources decodes or waits for a decode.
LEMMA DecodingPhase ==
    ASSUME NEW x, RequestOK(x), NEW s \in Sources
    PROVE  /\ x.src[s].st \in {"queued", "running"} => x.pc = "sources"
           /\ x.src[s].st = "wait" => x.pc \in Generating
<1>1. ASSUME x.src[s].st \in {"queued", "running", "wait"}
      PROVE  x.pc \in Generating
    BY <1>1, NoSourcesIdle DEF RequestOK, Shaped
<1>2. ASSUME x.src[s].st \in {"queued", "running"}
      PROVE  x.pc = "sources"
    BY <1>1, <1>2 DEF RequestOK, Shaped, Generating
<1> QED
    BY <1>1, <1>2

\* A decode begins.
LEMMA BeginDecodeKeeps ==
    ASSUME Inv, NEW r \in Requests, NEW s \in Sources, BeginDecode(r, s)
    PROVE  Inv'
<1>1. /\ req[r].src[s].st = "queued" /\ permits > 0 /\ permits' = permits - 1
      /\ orphans' = orphans /\ UNCHANGED <<sc, now, ptr, derived, mlt>>
    BY DEF BeginDecode
<1>2. req[r].pc = "sources" /\ RequestOK(req[r])
    BY <1>1, DecodingPhase, StateFacts
<1>3. PICK g \in Nat : g = req[r].src[s].gen
    BY Fields, StateFacts
<1>4. Src("running", g) \in SourceType /\ Src("running", g).st = "running" /\ "queued" # "running"
    BY SrcTyped, Names, SMTT(30)
<1>5. SetSrc(r, s, Src("running", g))
    BY <1>3 DEF BeginDecode
<1>6. /\ RequestsOK' /\ req'[r] = WithSrc(req[r], s, Src("running", g))
      /\ \A q \in Requests \ {r} : req'[q] = req[q]
    BY <1>2, <1>4, <1>5, SourceStep
<1>7. /\ RunningOf(req'[r]) = RunningOf(req[r]) \cup {s} /\ s \notin RunningOf(req[r])
      /\ QueuedOf(req'[r]) = QueuedOf(req[r]) \ {s} /\ s \in QueuedOf(req[r])
    BY <1>1, <1>4, <1>6, WithSrcJobs, StateFacts, SMTT(30)
<1>8. /\ QueuedOf(req[r]) = QueuedOf(req'[r]) \cup {s} /\ s \notin QueuedOf(req'[r])
      /\ s \in JobNames
    BY <1>7, Names
<1>9. GateOK'
    BY <1>1, <1>6, <1>7, <1>8, GateBegin DEF Inv
<1> QED
    BY <1>1, <1>6, <1>9 DEF Inv, WorldOK, StoresOK

\* A decode ends for its request and for those that wait.
LEMMA DecodeEnds ==
    ASSUME Inv, NEW r \in Requests, NEW s \in Sources, NEW v \in SourceType,
           req[r].src[s].st = "running", v.st \notin {"queued", "running"},
           req' = [q \in Requests |-> IF q = r \/ q \in DemWaiters(r, s)
                                      THEN WithSrc(req[q], s, v) ELSE req[q]],
           permits' = permits + 1, UNCHANGED <<sc, now, ptr, derived, mlt, orphans>>
    PROVE  Inv'
<1>1. \A q \in Requests : /\ q = r \/ q \in DemWaiters(r, s) => req'[q] = WithSrc(req[q], s, v)
                          /\ ~(q = r \/ q \in DemWaiters(r, s)) => req'[q] = req[q]
    OBVIOUS
<1>2. "wait" \notin {"queued", "running"} /\ "running" # "wait"
    BY SMTT(30)
<1>3. ASSUME NEW q \in Requests, q = r \/ q \in DemWaiters(r, s)
      PROVE  RequestOK(req'[q])
    <2>1. req[q].pc \in Generating
        BY <1>3, DecodingPhase, StateFacts, Names DEF DemWaiters
    <2>2. /\ req'[q] \in RequestType /\ req'[q].pc = req[q].pc /\ req'[q].out = req[q].out
          /\ req'[q].src[s] = v /\ \A u \in Sources \ {s} : req'[q].src[u] = req[q].src[u]
        BY <1>1, <1>3, WithSrcFacts, StateFacts, SMTT(30)
    <2>3. req'[q].pc \in {"genq", "generating"} =>
             \A u \in Sources : req'[q].src[u].st \notin {"queued", "running"}
        <3> SUFFICES ASSUME req'[q].pc \in {"genq", "generating"}, NEW u \in Sources
                     PROVE  req'[q].src[u].st \notin {"queued", "running"}
            OBVIOUS
        <3>1. CASE u = s
            BY <2>2, <3>1
        <3>2. CASE u # s
            BY <2>2, <3>2, StateFacts DEF RequestOK, Shaped
        <3> QED
            BY <3>1, <3>2
    <2> QED
        BY <2>1, <2>2, <2>3, StateFacts DEF RequestOK, Shaped
<1>4. RequestsOK'
    <2>1. \A q \in Requests : RequestOK(req'[q])
        BY <1>1, <1>3, StateFacts
    <2>2. req' = [q \in Requests |-> req'[q]]
        OBVIOUS
    <2> QED
        BY <2>1, <2>2, AllRequestsOK
<1>5. \A q \in Requests \ {r} : Kept(q)
    <2> SUFFICES ASSUME NEW q \in Requests \ {r}
                 PROVE  Kept(q)
        OBVIOUS
    <2>1. CASE q \in DemWaiters(r, s)
        <3>1. req[q].src[s].st = "wait" /\ req'[q] = WithSrc(req[q], s, v)
            BY <1>1, <2>1 DEF DemWaiters
        <3>2. /\ RunningOf(req'[q]) = RunningOf(req[q]) \ {s} /\ s \notin RunningOf(req[q])
              /\ QueuedOf(req'[q]) = QueuedOf(req[q]) \ {s}
            BY <1>2, <3>1, WithSrcJobs, StateFacts, SMTT(30)
        <3> QED
            BY <3>2 DEF Kept
    <2>2. CASE q \notin DemWaiters(r, s)
        BY <1>1, <2>2 DEF Kept
    <2> QED
        BY <2>1, <2>2
<1>6. /\ RunningOf(req'[r]) = RunningOf(req[r]) \ {s} /\ s \in RunningOf(req[r])
      /\ QueuedOf(req'[r]) = QueuedOf(req[r]) \ {s}
    BY <1>1, WithSrcJobs, StateFacts, SMTT(30)
<1>7. /\ RunningOf(req[r]) = RunningOf(req'[r]) \cup {s} /\ s \notin RunningOf(req'[r])
      /\ QueuedOf(req'[r]) \subseteq QueuedOf(req[r]) /\ s \in JobNames
    BY <1>6, Names
<1>8. GateOK'
    BY <1>5, <1>7, GateEnd DEF Inv
<1> QED
    BY <1>4, <1>8 DEF Inv, WorldOK, StoresOK

\* With the decoded tile or without.
LEMMA EndDecodeKeeps ==
    ASSUME Inv, NEW r \in Requests, NEW s \in Sources, EndDecode(r, s)
    PROVE  Inv'
<1>1. PICK g \in Nat : g = req[r].src[s].gen
    BY Fields, StateFacts
<1>2. /\ Src("failed", 0) \in SourceType /\ Src("failed", 0).st = "failed"
      /\ Src("have", g) \in SourceType /\ Src("have", g).st = "have"
    <2>1. 0 \in Nat
        BY SMTT(30)
    <2> QED
        BY <2>1, SrcTyped, Names
<1>3. "failed" \notin {"queued", "running"} /\ "have" \notin {"queued", "running"}
    BY SMTT(30)
<1>4. PICK v \in {Src("failed", 0), Src("have", g)} :
         req' = [q \in Requests |-> IF q = r \/ q \in DemWaiters(r, s)
                                    THEN WithSrc(req[q], s, v) ELSE req[q]]
    BY <1>1 DEF EndDecode
<1>5. v \in SourceType /\ v.st \notin {"queued", "running"}
    BY <1>2, <1>3, <1>4
<1>6. /\ req[r].src[s].st = "running" /\ permits' = permits + 1
      /\ UNCHANGED <<sc, now, ptr, derived, mlt, orphans>>
    BY DEF EndDecode
<1> QED
    BY <1>4, <1>5, <1>6, DecodeEnds

-----------------------------------------------------------------------------
(* The end of a generation.                                                *)

\* What waited for a decode of a request that is gone begins anew.
LEMMA ReleasedFacts ==
    ASSUME NEW r \in Requests, NEW q \in Requests, RequestOK(req[q]), NEW y, y = Released(r, q)
    PROVE  /\ RequestOK(y) /\ y.pc = req[q].pc /\ y.out = req[q].out
           /\ RunningOf(y) = RunningOf(req[q]) /\ QueuedOf(y) = QueuedOf(req[q])
           /\ req[q].src = NoSources => y.src = NoSources
<1>1. PICK x : x = req[q] /\ x \in RequestType /\ RequestOK(x)
    BY DEF RequestOK
<1>2. PICK v : v = [s \in Sources |-> IF Decodes(r, s) /\ q \in DemWaiters(r, s)
                                      THEN Src("raw", x.src[s].gen) ELSE x.src[s]]
    OBVIOUS
<1>3. \A s \in Sources : v[s] = x.src[s] \/ (x.src[s].st = "wait" /\ v[s] = Src("raw", x.src[s].gen))
    BY <1>1, <1>2 DEF DemWaiters
<1>4. \A s \in Sources : Src("raw", x.src[s].gen) \in SourceType /\ Src("raw", x.src[s].gen).st = "raw"
    BY <1>1, Fields, SrcTyped, Names
<1>5. v \in [Sources -> SourceType]
    <2>1. \A s \in Sources : v[s] \in SourceType
        BY <1>1, <1>3, <1>4, Fields
    <2>2. v = [s \in Sources |-> v[s]]
        BY <1>2
    <2> QED
        BY <2>1, <2>2
<1>6. y = [x EXCEPT !.src = v]
    BY <1>1, <1>2 DEF Released
<1>7. y \in RequestType /\ y.pc = x.pc /\ y.src = v /\ y.out = x.out
    BY <1>1, <1>5, <1>6, SrcSet, SMTT(30)
<1>8. "wait" \notin {"queued", "running"} /\ "raw" \notin {"queued", "running"}
    BY SMTT(30)
<1>9. \A s \in Sources : /\ v[s].st = "running" <=> x.src[s].st = "running"
                         /\ v[s].st = "queued" <=> x.src[s].st = "queued"
    <2> SUFFICES ASSUME NEW s \in Sources
                 PROVE  /\ v[s].st = "running" <=> x.src[s].st = "running"
                        /\ v[s].st = "queued" <=> x.src[s].st = "queued"
        OBVIOUS
    <2>1. CASE v[s] = x.src[s]
        BY <2>1
    <2>2. CASE x.src[s].st = "wait" /\ v[s] = Src("raw", x.src[s].gen)
        BY <1>4, <1>8, <2>2
    <2> QED
        BY <1>3, <2>1, <2>2
<1>10. RunningOf(y) = RunningOf(x) /\ QueuedOf(y) = QueuedOf(x)
    <2>1. \A j : (j \in RunningOf(y) <=> j \in RunningOf(x)) /\ (j \in QueuedOf(y) <=> j \in QueuedOf(x))
        BY <1>7, <1>9, JobMember, SMTT(30)
    <2> QED
        BY <2>1
<1>11. x.src = NoSources => v = NoSources
    <2> SUFFICES ASSUME x.src = NoSources
                 PROVE  v = NoSources
        OBVIOUS
    <2>1. \A s \in Sources : v[s] = NoSources[s]
        BY <1>3, NoSourcesIdle
    <2>2. NoSources \in [Sources -> SourceType]
        BY NoSourcesIdle
    <2> QED
        BY <1>5, <2>1, <2>2, SMTT(30)
<1>12. RequestOK(y)
    <2>1. y.pc \in {"genq", "generating"} => \A s \in Sources : y.src[s].st \notin {"queued", "running"}
        BY <1>1, <1>7, <1>9 DEF RequestOK, Shaped
    <2>2. y.pc \notin Generating => y.src = NoSources
        BY <1>1, <1>7, <1>11 DEF RequestOK, Shaped
    <2> QED
        BY <1>1, <1>7, <2>1, <2>2 DEF RequestOK, Shaped
<1> QED
    BY <1>1, <1>7, <1>10, <1>11, <1>12

\* A generation that fails leaves its leader and its waiters without a job.
LEMMA FlightFailsFacts ==
    ASSUME Inv, NEW r \in Requests,
           req' = [q \in Requests |-> IF q = r \/ q \in Waiters(r)
                                      THEN Left(req[q], "error") ELSE Released(r, q)]
    PROVE  /\ RequestsOK' /\ \A q \in Requests \ {r} : Kept(q)
           /\ RunningOf(req'[r]) = {} /\ QueuedOf(req'[r]) = {}
<1>1. \A q \in Requests : /\ q = r \/ q \in Waiters(r) => req'[q] = Left(req[q], "error")
                          /\ ~(q = r \/ q \in Waiters(r)) => req'[q] = Released(r, q)
    OBVIOUS
<1>2. "error" \in Phases \ Generating /\ "error" \in QuietPhases /\ "await" \in QuietPhases
    BY Names DEF QuietPhases
<1>3. ASSUME NEW q \in Requests, q = r \/ q \in Waiters(r)
      PROVE  RequestOK(req'[q]) /\ RunningOf(req'[q]) = {} /\ QueuedOf(req'[q]) = {}
    <2>1. /\ req'[q] \in RequestType /\ req'[q].pc = "error" /\ req'[q].src = NoSources
          /\ req'[q].out = req[q].out
        BY <1>1, <1>2, <1>3, LeftFacts, StateFacts, SMTT(30)
    <2>2. RequestOK(req'[q])
        BY <1>2, <2>1, OutsideOK, StateFacts
    <2> QED
        BY <1>2, <2>1, <2>2, QuietJobs
<1>4. ASSUME NEW q \in Requests, ~(q = r \/ q \in Waiters(r))
      PROVE  RequestOK(req'[q]) /\ Kept(q)
    BY <1>1, <1>4, ReleasedFacts, StateFacts, ZenonT(30) DEF Kept
<1>5. \A q \in Requests \ {r} : Kept(q)
    <2>1. ASSUME NEW q \in Waiters(r)
          PROVE  q \in Requests /\ RunningOf(req[q]) = {}
        BY <1>2, QuietJobs, StateFacts DEF Waiters
    <2> QED
        BY <1>3, <1>4, <2>1 DEF Kept
<1>6. RequestsOK'
    <2>1. req' = [q \in Requests |-> req'[q]]
        OBVIOUS
    <2> QED
        BY <1>3, <1>4, <2>1, AllRequestsOK
<1> QED
    BY <1>3, <1>5, <1>6

\* What a cache holds after an insert.
LEMMA StoreFacts ==
    ASSUME NEW cache, NEW k, NEW v, NEW j \in DOMAIN Store(cache, k, v)
    PROVE  Store(cache, k, v)[j] = v \/ (j \in DOMAIN cache /\ Store(cache, k, v)[j] = cache[j])
    BY DEF Store

\* One that succeeds hands its outcome to all of them.
LEMMA FlightEndsFacts ==
    ASSUME Inv, NEW r \in Requests, NEW out \in OutcomeType, Honest(out), FlightEnds(r, out),
           mlt' = mlt
    PROVE  /\ RequestsOK' /\ StoresOK' /\ \A q \in Requests \ {r} : Kept(q)
           /\ RunningOf(req'[r]) = {} /\ QueuedOf(req'[r]) = {}
<1>1. \A q \in Requests :
         /\ q = r \/ q \in Waiters(r) => req'[q] = [Left(req[q], "have") EXCEPT !.out = out]
         /\ ~(q = r \/ q \in Waiters(r)) => req'[q] = req[q]
    BY DEF FlightEnds
<1>2. "have" \in Phases \ Generating /\ "have" \in QuietPhases /\ "await" \in QuietPhases
    BY Names DEF QuietPhases
<1>3. ASSUME NEW q \in Requests, q = r \/ q \in Waiters(r)
      PROVE  RequestOK(req'[q]) /\ RunningOf(req'[q]) = {} /\ QueuedOf(req'[q]) = {}
    <2>1. PICK z : z = Left(req[q], "have")
        OBVIOUS
    <2>2. z \in RequestType /\ z.pc = "have" /\ z.src = NoSources
        BY <1>2, <2>1, LeftFacts, StateFacts, SMTT(30)
    <2>3. /\ req'[q] \in RequestType /\ req'[q].pc = "have" /\ req'[q].src = NoSources
          /\ req'[q].out = out
        <3>1. PICK y : y = [z EXCEPT !.out = out]
            OBVIOUS
        <3>2. y \in RequestType /\ y.pc = "have" /\ y.src = NoSources /\ y.out = out
            BY <2>2, <3>1, SMTT(30) DEF RequestType
        <3>3. req'[q] = y
            BY <1>1, <1>3, <2>1, <3>1
        <3> QED
            BY <3>2, <3>3
    <2>4. RequestOK(req'[q])
        BY <1>2, <2>3, OutsideOK
    <2> QED
        BY <1>2, <2>3, <2>4, QuietJobs
<1>4. \A q \in Requests \ {r} : Kept(q)
    <2>1. ASSUME NEW q \in Waiters(r)
          PROVE  q \in Requests /\ RunningOf(req[q]) = {}
        BY <1>2, QuietJobs, StateFacts DEF Waiters
    <2> QED
        BY <1>1, <1>3, <2>1 DEF Kept
<1>5. RequestsOK'
    <2>1. req' = [q \in Requests |-> req'[q]]
        BY DEF FlightEnds
    <2>2. \A q \in Requests : RequestOK(req'[q])
        BY <1>1, <1>3, StateFacts
    <2> QED
        BY <2>1, <2>2, AllRequestsOK
<1>6. StoresOK'
    <2>1. derived' = Store(derived, Key(r), out)
        BY DEF FlightEnds
    <2>2. ASSUME NEW k \in DOMAIN derived'
          PROVE  derived'[k] \in OutcomeType /\ Honest(derived'[k])
        BY <2>1, StoreFacts, SMTT(30) DEF Inv, StoresOK
    <2> QED
        BY <2>2 DEF Inv, StoresOK, Honest
<1> QED
    BY <1>3, <1>4, <1>5, <1>6
\* Without the center there is no tile.
LEMMA CenterFailsKeeps ==
    ASSUME Inv, NEW r \in Requests, CenterFails(r)
    PROVE  Inv'
<1>1. /\ req[r].pc = "sources" /\ permits' = permits
      /\ orphans' = orphans + Cardinality({s \in Sources : req[r].src[s].st = "running"})
      /\ UNCHANGED <<sc, now, ptr, derived, mlt>>
    BY DEF CenterFails, FlightFails
<1>2. /\ RequestsOK' /\ \A q \in Requests \ {r} : Kept(q)
      /\ RunningOf(req'[r]) = {} /\ QueuedOf(req'[r]) = {}
    BY FlightFailsFacts DEF CenterFails, FlightFails
<1>3. orphans' = orphans + Cardinality(RunningOf(req[r]))
    BY <1>1, JobsOfSources
<1>4. GateOK'
    BY <1>1, <1>2, <1>3, GateDrop DEF Inv
<1> QED
    BY <1>1, <1>2, <1>4 DEF Inv, WorldOK, StoresOK

\* Settled sources have no job left.
LEMMA SettledJobs ==
    ASSUME NEW r \in Requests, req[r].pc = "sources", Settled(r)
    PROVE  /\ RunningOf(req[r]) = {} /\ QueuedOf(req[r]) = {}
           /\ {s \in Sources : req[r].src[s].st = "running"} = {}
           /\ \A s \in Sources : req[r].src[s].st \notin {"queued", "running"}
<1>1. \A st \in {"have", "none", "failed"} : st \notin {"queued", "running"}
    BY SMTT(30)
<1>2. \A s \in Sources : req[r].src[s].st \notin {"queued", "running"}
    BY <1>1 DEF Settled
<1> QED
    BY <1>2, JobsOfSources

\* The gate admits the generation, or there is none.
LEMMA AdmitKeeps ==
    ASSUME Inv, NEW r \in Requests, AdmitGeneration(r)
    PROVE  Inv'
<1>1. /\ req[r].pc = "sources" /\ Settled(r) /\ permits' = permits
      /\ UNCHANGED <<sc, now, ptr, mlt>>
    BY DEF AdmitGeneration
<1>2. /\ RunningOf(req[r]) = {} /\ QueuedOf(req[r]) = {}
      /\ {s \in Sources : req[r].src[s].st = "running"} = {}
      /\ \A s \in Sources : req[r].src[s].st \notin {"queued", "running"}
    BY <1>1, SettledJobs
<1>3. ASSUME FlightEnds(r, Outcome("absent", FALSE, now + NegativeTtl)), orphans' = orphans
      PROVE  Inv'
    <2>1. PICK out : out = Outcome("absent", FALSE, now + NegativeTtl)
        OBVIOUS
    <2>2. out \in OutcomeType /\ Honest(out)
        BY <2>1, OutcomeTyped, StateFacts
    <2>3. /\ RequestsOK' /\ StoresOK' /\ \A q \in Requests \ {r} : Kept(q)
          /\ RunningOf(req'[r]) = {} /\ QueuedOf(req'[r]) = {}
        BY <1>1, <1>3, <2>1, <2>2, FlightEndsFacts
    <2>4. Kept(r)
        BY <1>2, <2>3 DEF Kept
    <2>5. GateOK'
        BY <1>1, <1>3, <2>3, <2>4, GateStill DEF Inv
    <2> QED
        BY <1>1, <2>3, <2>5 DEF Inv, WorldOK
<1>4. ASSUME FlightFails(r), derived' = derived
      PROVE  Inv'
    <2>1. /\ RequestsOK' /\ \A q \in Requests \ {r} : Kept(q)
          /\ RunningOf(req'[r]) = {} /\ QueuedOf(req'[r]) = {}
        BY <1>4, FlightFailsFacts DEF FlightFails
    <2>2. orphans' = orphans + Cardinality(RunningOf(req[r]))
        BY <1>2, <1>4 DEF FlightFails
    <2>3. GateOK'
        BY <1>1, <2>1, <2>2, GateDrop DEF Inv
    <2> QED
        BY <1>1, <1>4, <2>1, <2>3 DEF Inv, WorldOK, StoresOK
<1>5. ASSUME ~Sheds, Step(r, To(r, "genq")), UNCHANGED <<derived, orphans>>
      PROVE  Inv'
    <2>1. PICK y : y = [req[r] EXCEPT !.pc = "genq"]
        OBVIOUS
    <2>2. y \in RequestType /\ y.pc = "genq" /\ y.src = req[r].src /\ y.out = req[r].out
        BY <2>1, PcSet, StateFacts, Names, SMTT(30)
    <2>3. RequestOK(y)
        BY <1>2, <2>2, StateFacts, Names DEF RequestOK, Shaped
    <2>4. RunningOf(y) = {} /\ QueuedOf(y) = {"product"}
        <3>1. y.pc # "sources" /\ y.pc \in {"genq", "mltq"}
            BY <2>2, SMTT(30)
        <3> QED
            BY <2>3, <3>1, JobsByPhase
    <2>5. RequestsOK' /\ req'[r] = y /\ \A q \in Requests \ {r} : req'[q] = req[q]
        BY <1>5, <2>1, <2>3, OneStep DEF Inv, To
    <2>6. GateOK'
        BY <1>1, <1>2, <1>5, <2>4, <2>5, GateAdmit, Names DEF Inv
    <2> QED
        BY <1>1, <1>5, <2>5, <2>6 DEF Inv, WorldOK, StoresOK
<1> QED
    BY <1>3, <1>4, <1>5 DEF AdmitGeneration

\* The generation begins.
LEMMA BeginGenerationKeeps ==
    ASSUME Inv, NEW r \in Requests, BeginGeneration(r)
    PROVE  Inv'
<1>1. /\ req[r].pc = "genq" /\ permits > 0 /\ permits' = permits - 1
      /\ Step(r, To(r, "generating")) /\ UNCHANGED <<sc, now, ptr, derived, mlt, orphans>>
    BY DEF BeginGeneration
<1>2. PICK y : y = [req[r] EXCEPT !.pc = "generating"]
    OBVIOUS
<1>3. y \in RequestType /\ y.pc = "generating" /\ y.src = req[r].src /\ y.out = req[r].out
    BY <1>2, PcSet, StateFacts, Names, SMTT(30)
<1>4. RequestOK(y)
    BY <1>1, <1>3, StateFacts, Names DEF RequestOK, Shaped
<1>5. /\ RunningOf(y) = {"product"} /\ QueuedOf(y) = {}
      /\ RunningOf(req[r]) = {} /\ QueuedOf(req[r]) = {"product"}
    <2>1. /\ y.pc # "sources" /\ y.pc \in {"generating", "transcoding"}
          /\ req[r].pc # "sources" /\ req[r].pc \in {"genq", "mltq"}
        BY <1>1, <1>3, SMTT(30)
    <2> QED
        BY <1>4, <2>1, JobsByPhase, StateFacts
<1>6. RequestsOK' /\ req'[r] = y /\ \A q \in Requests \ {r} : req'[q] = req[q]
    BY <1>1, <1>2, <1>4, OneStep DEF Inv, To
<1>7. GateOK'
    BY <1>1, <1>5, <1>6, GateBegin, Names DEF Inv
<1> QED
    BY <1>1, <1>6, <1>7 DEF Inv, WorldOK, StoresOK

\* A generated tile says whether a neighbour failed.
LEMMA GeneratedHonest ==
    ASSUME Inv, NEW r \in Requests
    PROVE  Generated(r) \in OutcomeType /\ Honest(Generated(r))
<1>1. CASE req[r].src["neighbour"].st = "failed"
    <2>1. Generated(r) = Outcome("degraded", TRUE, now + NegativeTtl)
        BY <1>1 DEF Generated
    <2> QED
        BY <2>1, OutcomeTyped, StateFacts
<1>2. CASE req[r].src["neighbour"].st # "failed"
    <2>1. Generated(r) = Outcome("tile", FALSE, Horizon + 1)
        BY <1>2 DEF Generated
    <2> QED
        BY <2>1, OutcomeTyped, StateFacts
<1> QED
    BY <1>1, <1>2

\* The generation ends.
LEMMA EndGenerationKeeps ==
    ASSUME Inv, NEW r \in Requests, EndGeneration(r)
    PROVE  Inv'
<1>1. /\ req[r].pc = "generating" /\ permits' = permits + 1 /\ UNCHANGED <<sc, now, ptr, mlt>>
    BY DEF EndGeneration
<1>2. RunningOf(req[r]) = {"product"} /\ QueuedOf(req[r]) = {}
    <2>1. req[r].pc # "sources" /\ req[r].pc \in {"generating", "transcoding"}
        BY <1>1, SMTT(30)
    <2> QED
        BY <2>1, JobsByPhase, StateFacts
<1>3. ASSUME RequestsOK', StoresOK', \A q \in Requests \ {r} : Kept(q),
             RunningOf(req'[r]) = {}, QueuedOf(req'[r]) = {}, orphans' = orphans
      PROVE  Inv'
    <2>1. /\ RunningOf(req[r]) = RunningOf(req'[r]) \cup {"product"}
          /\ "product" \notin RunningOf(req'[r]) /\ QueuedOf(req'[r]) \subseteq QueuedOf(req[r])
          /\ "product" \in JobNames
        BY <1>2, <1>3, Names
    <2>2. GateOK'
        BY <1>1, <1>3, <2>1, GateEnd DEF Inv
    <2> QED
        BY <1>1, <1>3, <2>2 DEF Inv, WorldOK
<1>4. ASSUME FlightEnds(r, Generated(r)), orphans' = orphans
      PROVE  Inv'
    <2>1. Generated(r) \in OutcomeType /\ Honest(Generated(r))
        BY GeneratedHonest
    <2>2. /\ RequestsOK' /\ StoresOK' /\ \A q \in Requests \ {r} : Kept(q)
          /\ RunningOf(req'[r]) = {} /\ QueuedOf(req'[r]) = {}
        BY <1>1, <1>4, <2>1, FlightEndsFacts
    <2> QED
        BY <1>3, <1>4, <2>2
<1>5. ASSUME FlightFails(r), derived' = derived
      PROVE  Inv'
    <2>1. /\ RequestsOK' /\ \A q \in Requests \ {r} : Kept(q)
          /\ RunningOf(req'[r]) = {} /\ QueuedOf(req'[r]) = {}
        BY <1>5, FlightFailsFacts DEF FlightFails
    <2>2. StoresOK'
        BY <1>1, <1>5 DEF Inv, StoresOK
    <2>3. orphans' = orphans
        <3>1. \A s \in Sources : req[r].src[s].st # "running"
            BY <1>1, StateFacts DEF RequestOK, Shaped
        <3>2. {s \in Sources : req[r].src[s].st = "running"} = {}
            BY <3>1
        <3>3. orphans' = orphans + 0
            BY <1>5, <3>2, FS_EmptySet DEF FlightFails
        <3>4. orphans \in Nat
            BY DEF Inv, GateOK
        <3> QED
            BY <3>3, <3>4, SMTT(30)
    <2> QED
        BY <1>3, <2>1, <2>2, <2>3
<1> QED
    BY <1>4, <1>5 DEF EndGeneration

-----------------------------------------------------------------------------
(* The representation of the answer.                                       *)

\* A complete outcome is not failed; with or without the cached bytes' flag it
\* stays honest.
LEMMA CompleteOutcome ==
    ASSUME NEW out \in OutcomeType, Honest(out), ~Bypasses(out)
    PROVE  out.failed = FALSE
<1>1. out.failed \in BOOLEAN
    BY DEF OutcomeType
<1> QED
    BY <1>1 DEF Honest, Bypasses

\* An outcome under another flag.
LEMMA FlagSet ==
    ASSUME NEW out \in OutcomeType, NEW b \in BOOLEAN, NEW v, v = [out EXCEPT !.failed = b]
    PROVE  /\ v \in OutcomeType /\ v.kind = out.kind /\ v.failed = b
           /\ (b = FALSE \/ (b = out.failed /\ Honest(out))) => Honest(v)
<1>1. v \in OutcomeType /\ v.kind = out.kind
    BY SMTT(30) DEF OutcomeType
<1>2. v.failed = b
    BY DEF OutcomeType
<1> QED
    BY <1>1, <1>2 DEF Honest

\* The tile as it is, from the MLT cache, or transcoded.
LEMMA RepresentKeeps ==
    ASSUME Inv, NEW r \in Requests, Represent(r)
    PROVE  Inv'
<1>1. req[r].pc = "have" /\ req[r].pc \in QuietPhases /\ RequestOK(req[r])
    BY StateFacts DEF Represent, QuietPhases
<1>2. /\ req[r].src = NoSources /\ UNCHANGED World
      /\ RunningOf(req[r]) = {} /\ QueuedOf(req[r]) = {}
    BY <1>1, QuietJobs DEF Represent, World
<1>3. /\ "done" \in Phases \ Generating /\ "mltwait" \in Phases \ Generating
      /\ "error" \in Phases \ Generating /\ "mltq" \in Phases \ Generating
      /\ "done" \in QuietPhases /\ "mltwait" \in QuietPhases /\ "error" \in QuietPhases
    BY Names DEF QuietPhases
<1>4. ASSUME NEW p \in {"done", "mltwait", "error"}, Step(r, To(r, p))
      PROVE  Inv'
    <2>1. PICK y : y = [req[r] EXCEPT !.pc = p]
        OBVIOUS
    <2>2. p \in Phases \ Generating /\ p \in QuietPhases
        BY <1>3
    <2>3. RequestOK(y) /\ y.pc = p
        BY <1>1, <1>2, <2>1, <2>2, PcAt, SMTT(30)
    <2>4. Step(r, y)
        BY <1>4, <2>1 DEF To
    <2> QED
        BY <1>1, <1>2, <2>2, <2>3, <2>4, QuietMove
<1>5. ASSUME Key(r) \in DOMAIN mlt,
             Answer(r, [req[r].out EXCEPT !.failed = mlt[Key(r)].failed])
      PROVE  Inv'
    <2>1. mlt[Key(r)].failed = FALSE
        BY <1>5 DEF Inv, StoresOK
    <2>2. PICK out : out = [req[r].out EXCEPT !.failed = FALSE]
        OBVIOUS
    <2>3. out \in OutcomeType /\ Honest(out)
        BY <2>2, FlagSet, StateFacts
    <2>4. PICK y : y = Revised(req[r], "done", out)
        OBVIOUS
    <2>5. RequestOK(y) /\ y.pc = "done"
        BY <1>1, <1>2, <1>3, <2>3, <2>4, OutAt, SMTT(30)
    <2>6. Step(r, y)
        BY <1>5, <2>1, <2>2, <2>4 DEF Answer, To, Revised
    <2> QED
        BY <1>1, <1>2, <1>3, <2>5, <2>6, QuietMove
<1>6. ASSUME ~Sheds, Step(r, To(r, "mltq"))
      PROVE  Inv'
    <2>1. PICK y : y = [req[r] EXCEPT !.pc = "mltq"]
        OBVIOUS
    <2>2. RequestOK(y) /\ y.pc = "mltq"
        BY <1>1, <1>2, <1>3, <2>1, PcAt, SMTT(30)
    <2>3. RunningOf(y) = {} /\ QueuedOf(y) = {"product"}
        <3>1. y.pc # "sources" /\ y.pc \in {"genq", "mltq"}
            BY <2>2, SMTT(30)
        <3> QED
            BY <2>2, <3>1, JobsByPhase
    <2>4. RequestsOK' /\ req'[r] = y /\ \A q \in Requests \ {r} : req'[q] = req[q]
        BY <1>6, <2>1, <2>2, OneStep DEF Inv, To
    <2>5. GateOK'
        BY <1>2, <1>6, <2>3, <2>4, GateAdmit, Names DEF Inv, World
    <2> QED
        BY <1>2, <2>4, <2>5 DEF Inv, World, WorldOK, StoresOK
<1> QED
    BY <1>4, <1>5, <1>6 DEF Represent

\* The transcoding begins.
LEMMA BeginTranscodeKeeps ==
    ASSUME Inv, NEW r \in Requests, BeginTranscode(r)
    PROVE  Inv'
<1>1. /\ req[r].pc = "mltq" /\ permits > 0 /\ permits' = permits - 1
      /\ Step(r, To(r, "transcoding")) /\ UNCHANGED <<sc, now, ptr, derived, mlt, orphans>>
    BY DEF BeginTranscode
<1>2. RequestOK(req[r]) /\ req[r].src = NoSources /\ "transcoding" \in Phases \ Generating
    BY <1>1, StateFacts, Names DEF RequestOK, Shaped
<1>3. PICK y : y = [req[r] EXCEPT !.pc = "transcoding"]
    OBVIOUS
<1>4. RequestOK(y) /\ y.pc = "transcoding"
    BY <1>2, <1>3, PcAt, SMTT(30)
<1>5. /\ RunningOf(y) = {"product"} /\ QueuedOf(y) = {}
      /\ RunningOf(req[r]) = {} /\ QueuedOf(req[r]) = {"product"}
    <2>1. /\ y.pc # "sources" /\ y.pc \in {"generating", "transcoding"}
          /\ req[r].pc # "sources" /\ req[r].pc \in {"genq", "mltq"}
        BY <1>1, <1>4, SMTT(30)
    <2> QED
        BY <1>2, <1>4, <2>1, JobsByPhase
<1>6. RequestsOK' /\ req'[r] = y /\ \A q \in Requests \ {r} : req'[q] = req[q]
    BY <1>1, <1>3, <1>4, OneStep DEF Inv, To
<1>7. GateOK'
    BY <1>1, <1>5, <1>6, GateBegin, Names DEF Inv
<1> QED
    BY <1>1, <1>6, <1>7 DEF Inv, WorldOK, StoresOK

\* The transcoding ends, for its request and for those that wait.
LEMMA EndTranscodeKeeps ==
    ASSUME Inv, NEW r \in Requests, EndTranscode(r)
    PROVE  Inv'
<1>1. /\ req[r].pc = "transcoding" /\ permits' = permits + 1
      /\ UNCHANGED <<sc, now, ptr, derived, orphans>>
    BY DEF EndTranscode
<1>2. PICK out \in OutcomeType : out = req[r].out /\ Honest(out)
    BY StateFacts
<1>3. PICK p \in {"done", "error"} :
         req' = [q \in Requests |->
                   IF q = r \/ q \in MltWaiters(r)
                   THEN [To(q, p) EXCEPT !.out = [req[q].out EXCEPT !.failed = out.failed]]
                   ELSE req[q]]
    BY <1>2 DEF EndTranscode
<1>4. p \in Phases \ Generating /\ p \in QuietPhases /\ "mltwait" \in QuietPhases
      /\ "transcoding" \in Phases \ Generating /\ "mltwait" \in Phases \ Generating
    BY <1>3, Names DEF QuietPhases
<1>5. \A q \in Requests :
         /\ q = r \/ q \in MltWaiters(r) =>
               req'[q] = Revised(req[q], p, [req[q].out EXCEPT !.failed = out.failed])
         /\ ~(q = r \/ q \in MltWaiters(r)) => req'[q] = req[q]
    BY <1>3 DEF To, Revised
<1>6. ASSUME NEW q \in Requests, q = r \/ q \in MltWaiters(r)
      PROVE  RequestOK(req'[q]) /\ RunningOf(req'[q]) = {} /\ QueuedOf(req'[q]) = {}
    <2>1. RequestOK(req[q]) /\ req[q].src = NoSources
        BY <1>1, <1>4, <1>6, StateFacts DEF RequestOK, Shaped, MltWaiters
    <2>2. PICK v : v = [req[q].out EXCEPT !.failed = out.failed]
        OBVIOUS
    <2>3. v \in OutcomeType /\ Honest(v)
        <3>1. out.failed \in BOOLEAN
            BY DEF OutcomeType
        <3>2. CASE q = r
            <4>1. v = [out EXCEPT !.failed = out.failed]
                BY <1>2, <2>2, <3>2
            <4>2. v = out
                BY <1>2, <4>1, SMTT(30) DEF OutcomeType
            <4> QED
                BY <1>2, <4>2
        <3>3. CASE q \in MltWaiters(r)
            <4>1. out.failed = FALSE
                BY <1>2, <3>3, CompleteOutcome DEF MltWaiters
            <4> QED
                BY <2>2, <3>1, <4>1, FlagSet, StateFacts, ZenonT(30)
        <3> QED
            BY <1>6, <3>2, <3>3
    <2>4. req'[q] = Revised(req[q], p, v)
        BY <1>5, <1>6, <2>2
    <2>5. RequestOK(req'[q]) /\ req'[q].pc = p
        BY <1>4, <2>1, <2>3, <2>4, OutAt, SMTT(30)
    <2> QED
        BY <1>4, <2>5, QuietJobs
<1>7. RequestsOK'
    <2>1. req' = [q \in Requests |-> req'[q]]
        BY <1>3
    <2>2. \A q \in Requests : RequestOK(req'[q])
        BY <1>5, <1>6, StateFacts
    <2> QED
        BY <2>1, <2>2, AllRequestsOK
<1>8. \A q \in Requests \ {r} : Kept(q)
    <2>1. ASSUME NEW q \in MltWaiters(r)
          PROVE  q \in Requests /\ RunningOf(req[q]) = {}
        BY <1>4, QuietJobs, StateFacts DEF MltWaiters
    <2> QED
        BY <1>5, <1>6, <2>1 DEF Kept
<1>9. GateOK'
    <2>1. req[r].pc # "sources" /\ req[r].pc \in {"generating", "transcoding"}
        BY <1>1, SMTT(30)
    <2>2. RunningOf(req[r]) = {"product"} /\ QueuedOf(req[r]) = {}
        BY <2>1, JobsByPhase, StateFacts
    <2>3. /\ RunningOf(req[r]) = RunningOf(req'[r]) \cup {"product"}
          /\ "product" \notin RunningOf(req'[r]) /\ QueuedOf(req'[r]) \subseteq QueuedOf(req[r])
          /\ "product" \in JobNames
        BY <1>6, <2>2, Names
    <2> QED
        BY <1>1, <1>8, <2>3, GateEnd DEF Inv
<1>10. StoresOK'
    <2>1. mlt' = mlt \/ (~Bypasses(out) /\ mlt' = Store(mlt, Key(r), out))
        BY <1>2 DEF EndTranscode
    <2>2. ASSUME NEW k \in DOMAIN mlt'
          PROVE  mlt'[k] \in OutcomeType /\ mlt'[k].failed = FALSE
        <3>1. CASE mlt' = mlt
            BY <2>2, <3>1 DEF Inv, StoresOK
        <3>2. CASE ~Bypasses(out) /\ mlt' = Store(mlt, Key(r), out)
            <4>1. out.failed = FALSE
                BY <1>2, <3>2, CompleteOutcome
            <4> QED
                BY <2>2, <3>2, <4>1, StoreFacts, SMTT(30) DEF Inv, StoresOK
        <3> QED
            BY <2>1, <3>1, <3>2
    <2> QED
        BY <1>1, <2>2 DEF Inv, StoresOK
<1> QED
    BY <1>1, <1>7, <1>9, <1>10 DEF Inv, WorldOK

-----------------------------------------------------------------------------
(* Clients, orphans, archives and time.                                    *)

\* A client goes away.
LEMMA CancelKeeps ==
    ASSUME Inv, NEW r \in Requests, CancelRequest(r)
    PROVE  Inv'
<1>1. /\ req' = AfterDrop(r) /\ orphans' = orphans + Cardinality(RunningOf(req[r]))
      /\ permits' = permits /\ UNCHANGED <<sc, now, ptr, derived, mlt>>
    BY DEF CancelRequest
<1>2. /\ req'[r] = Left(req[r], "gone")
      /\ \A q \in Requests \ {r} :
            \/ req'[q] = Released(r, q)
            \/ q \in Waiters(r) /\ req'[q] = [Released(r, q) EXCEPT !.pc = "lookup"]
            \/ q \in MltWaiters(r) /\ req'[q] = [Released(r, q) EXCEPT !.pc = "have"]
    BY <1>1 DEF AfterDrop
<1>3. /\ "gone" \in Phases \ Generating /\ "lookup" \in Phases \ Generating
      /\ "have" \in Phases \ Generating
      /\ "gone" \in QuietPhases /\ "lookup" \in QuietPhases /\ "have" \in QuietPhases
      /\ "await" \in QuietPhases /\ "mltwait" \in QuietPhases
    BY Names DEF QuietPhases
<1>4. RequestOK(req'[r]) /\ RunningOf(req'[r]) = {} /\ QueuedOf(req'[r]) = {}
    <2>1. /\ req'[r] \in RequestType /\ req'[r].pc = "gone" /\ req'[r].src = NoSources
          /\ req'[r].out = req[r].out
        BY <1>2, <1>3, LeftFacts, StateFacts, SMTT(30)
    <2>2. RequestOK(req'[r])
        BY <1>3, <2>1, OutsideOK, StateFacts
    <2> QED
        BY <1>3, <2>1, <2>2, QuietJobs
<1>5. ASSUME NEW q \in Requests \ {r}
      PROVE  RequestOK(req'[q]) /\ Kept(q)
    <2>1. PICK z : z = Released(r, q)
        OBVIOUS
    <2>2. /\ RequestOK(z) /\ RunningOf(z) = RunningOf(req[q]) /\ QueuedOf(z) = QueuedOf(req[q])
          /\ req[q].src = NoSources => z.src = NoSources
        BY <2>1, ReleasedFacts, StateFacts, SMTT(30)
    <2>3. CASE req'[q] = z
        BY <2>2, <2>3 DEF Kept
    <2>4. ASSUME req[q].pc \in QuietPhases, NEW p \in Phases \ Generating, p \in QuietPhases,
                 req'[q] = [z EXCEPT !.pc = p]
          PROVE  RequestOK(req'[q]) /\ Kept(q)
        <3>1. RunningOf(req[q]) = {} /\ req[q].src = NoSources
            BY <2>4, QuietJobs, StateFacts
        <3>2. RequestOK(req'[q]) /\ req'[q].pc = p
            BY <2>2, <2>4, <3>1, PcAt, SMTT(30)
        <3>3. RunningOf(req'[q]) = {} /\ QueuedOf(req'[q]) = {}
            BY <2>4, <3>2, QuietJobs
        <3> QED
            BY <3>1, <3>2, <3>3 DEF Kept
    <2>5. CASE q \in Waiters(r) /\ req'[q] = [z EXCEPT !.pc = "lookup"]
        <3>1. req[q].pc \in QuietPhases
            BY <1>3, <2>5 DEF Waiters
        <3> QED
            BY <1>3, <2>4, <2>5, <3>1
    <2>6. CASE q \in MltWaiters(r) /\ req'[q] = [z EXCEPT !.pc = "have"]
        <3>1. req[q].pc \in QuietPhases
            BY <1>3, <2>6 DEF MltWaiters
        <3> QED
            BY <1>3, <2>4, <2>6, <3>1
    <2> QED
        BY <1>2, <2>1, <2>3, <2>5, <2>6
<1>6. RequestsOK'
    <2>1. req' = [q \in Requests |-> req'[q]]
        BY <1>1 DEF AfterDrop
    <2> QED
        BY <1>4, <1>5, <2>1, AllRequestsOK
<1>7. GateOK'
    BY <1>1, <1>4, <1>5, GateDrop DEF Inv
<1> QED
    BY <1>1, <1>6, <1>7 DEF Inv, WorldOK, StoresOK

\* A job whose request is gone ends.
LEMMA EndOrphanKeeps ==
    ASSUME Inv, EndOrphan
    PROVE  Inv'
<1>1. /\ orphans > 0 /\ orphans' = orphans - 1 /\ permits' = permits + 1
      /\ UNCHANGED <<sc, now, ptr, req, derived, mlt>>
    BY DEF EndOrphan
<1>2. Balanced(Running, Queued, permits, orphans)
    BY GateBalance DEF Inv
<1>3. Balanced(Running, Queued, permits + 1, orphans - 1)
    <2>1. /\ permits \in Nat /\ orphans \in Nat /\ JobCount(Running) \in Nat /\ JobCount(Queued) \in Nat
          /\ JobCount(Running) + orphans + permits = Concurrency
          /\ JobCount(Queued) + (Concurrency - permits) <= MaxInflight
          /\ Concurrency \in Nat /\ MaxInflight \in Nat
        BY <1>2, PairsFinite, DerivedTilesAssumption DEF Balanced
    <2>2. /\ permits + 1 \in Nat /\ orphans - 1 \in Nat
          /\ JobCount(Running) + (orphans - 1) + (permits + 1) = Concurrency
          /\ JobCount(Queued) + (Concurrency - (permits + 1)) <= MaxInflight
        BY <1>1, <2>1, SMTT(30)
    <2> QED
        BY <1>2, <2>2 DEF Balanced
<1>4. Running' = Running /\ Queued' = Queued
    BY <1>1 DEF Running, Queued, RunningOf, QueuedOf
<1>5. GateOK'
    BY <1>1, <1>3, <1>4, GateBalance
<1> QED
    BY <1>1, <1>5 DEF Inv, WorldOK, StoresOK, RequestsOK

\* Nothing happens to requests, caches and gate.
LEMMA ElsewhereKeeps ==
    ASSUME Inv, UNCHANGED <<req, derived, mlt, permits, orphans>>, WorldOK'
    PROVE  Inv'
<1>1. GateOK'
    BY GateStill DEF Inv, Kept
<1> QED
    BY <1>1 DEF Inv, StoresOK, RequestsOK

\* The inductive step.
LEMMA InvStep == Inv /\ [DerivedNext]_derivedVars => Inv'
<1> SUFFICES ASSUME Inv, [DerivedNext]_derivedVars
             PROVE  Inv'
    OBVIOUS
<1>1. ASSUME NEW r \in Requests, Work(r)
      PROVE  Inv'
    BY <1>1, RouteKeeps, InfoKeeps, LookupKeeps, FetchKeeps, DecodeKeeps, BeginDecodeKeeps,
       EndDecodeKeeps, CenterFailsKeeps, AdmitKeeps, BeginGenerationKeeps, EndGenerationKeeps,
       RepresentKeeps, BeginTranscodeKeeps, EndTranscodeKeeps, ZenonT(30) DEF Work
<1>2. ASSUME NEW r \in Requests, CancelRequest(r)
      PROVE  Inv'
    BY <1>2, CancelKeeps
<1>3. CASE EndOrphan
    BY <1>3, EndOrphanKeeps
<1>4. CASE Tick
    <2>1. WorldOK'
        BY <1>4, StateFacts DEF Tick, Inv, WorldOK
    <2> QED
        BY <1>4, <2>1, ElsewhereKeeps DEF Tick
<1>5. ASSUME NEW a \in Stores, ReplaceArchive(a)
      PROVE  Inv'
    <2>1. ptr \in [Stores -> Nat] /\ ptr' = [ptr EXCEPT ![a] = @ + 1]
        BY <1>5 DEF ReplaceArchive, Inv, WorldOK
    <2>2. ptr[a] + 1 \in Nat
        BY <2>1, SMTT(30)
    <2>3. ptr' \in [Stores -> Nat]
        BY <2>1, <2>2
    <2>4. WorldOK'
        BY <1>5, <2>3 DEF ReplaceArchive, Inv, WorldOK
    <2> QED
        BY <1>5, <2>4, ElsewhereKeeps DEF ReplaceArchive
<1>6. CASE UNCHANGED derivedVars
    <2>1. WorldOK' /\ UNCHANGED <<req, derived, mlt, permits, orphans>>
        BY <1>6 DEF derivedVars, Inv, WorldOK
    <2> QED
        BY <2>1, ElsewhereKeeps
<1> QED
    BY <1>1, <1>2, <1>3, <1>4, <1>5, <1>6 DEF DerivedNext

\* A node that starts has nothing to do.
LEMMA InvInit == DerivedInit => Inv
<1> SUFFICES ASSUME DerivedInit
             PROVE  Inv
    OBVIOUS
<1>1. WorldOK
    <2>1. now \in Nat
        BY SMTT(30) DEF DerivedInit
    <2>2. ptr \in [Stores -> Nat]
        BY DerivedTilesAssumption DEF DerivedInit, Stores
    <2> QED
        BY <2>1, <2>2 DEF DerivedInit, WorldOK
<1>2. PICK x : x = [pc |-> "new", gen |-> 0, src |-> NoSources, out |-> NoOutcome]
    OBVIOUS
<1>3. RequestOK(x) /\ x.pc \in QuietPhases
    <2>1. 0 \in Nat
        BY SMTT(30)
    <2>2. NoOutcome \in OutcomeType /\ Honest(NoOutcome)
        BY <2>1, OutcomeTyped DEF NoOutcome
    <2>3. x \in RequestType /\ x.pc = "new" /\ x.src = NoSources /\ x.out = NoOutcome
        BY <1>2, <2>1, <2>2, NoSourcesIdle, Names DEF RequestType
    <2> QED
        BY <2>2, <2>3, OutsideOK, Names DEF QuietPhases
<1>4. req \in [Requests -> RequestType] /\ \A r \in Requests : req[r] = x
    BY <1>2, <1>3 DEF DerivedInit, RequestOK
<1>5. RequestsOK
    BY <1>3, <1>4 DEF RequestsOK
<1>6. StoresOK
    <2>1. DOMAIN derived = {} /\ DOMAIN mlt = {}
        BY SMTT(30) DEF DerivedInit
    <2> QED
        BY <2>1 DEF StoresOK
<1>7. GateOK
    <2>1. \A r \in Requests : Running[r] = {} /\ Queued[r] = {}
        BY <1>3, <1>4, QuietJobs, Tables, ZenonT(30)
    <2>2. JobCount(Running) = 0 /\ JobCount(Queued) = 0
        <3>1. Pairs(Running) = {} /\ Pairs(Queued) = {}
            BY <2>1 DEF Pairs
        <3> QED
            BY <3>1, FS_EmptySet DEF JobCount, Pairs
    <2>3. permits = Concurrency /\ orphans = 0
        BY DEF DerivedInit
    <2>4. Concurrency \in Nat /\ MaxInflight \in Nat
        BY DerivedTilesAssumption
    <2>5. /\ permits \in Nat /\ orphans \in Nat /\ JobCount(Running) + orphans + permits = Concurrency
          /\ JobCount(Queued) + (Concurrency - permits) <= MaxInflight
        BY <2>2, <2>3, <2>4, SMTT(30)
    <2> QED
        BY <2>5, GateBalance, Tables DEF Balanced
<1> QED
    BY <1>1, <1>5, <1>6, <1>7 DEF Inv

-----------------------------------------------------------------------------
(* Theorems.                                                               *)

\* Requests, caches and the gate stay in order, however requests, clients and
\* archives interleave.
THEOREM DerivedInvariance == DerivedSpec => []Inv
    BY InvInit, InvStep, PTL DEF DerivedSpec

\* CpuWorkGate: permits are neither lost nor handed out twice, also when clients go
\* away while their jobs run, so no more than cpu_work_concurrency jobs run; and no
\* more than max_inflight are admitted.
THEOREM GateStaysBounded == DerivedSpec => []CpuBounded
<1>1. Inv => CpuBounded
    BY DEF Inv, GateOK
<1> QED
    BY <1>1, DerivedInvariance, PTL

\* DerivedOutcome::Degraded survives the derived cache, the wire, the MLT cache and
\* the waiters of a transcoding.
THEOREM DegradedStaysLabelled == DerivedSpec => []DegradedLabelled
<1>1. Inv => DegradedLabelled
    BY DEF Inv, RequestsOK, RequestOK, Honest, DegradedLabelled
<1> QED
    BY <1>1, DerivedInvariance, PTL
===============================================================================
