----------------------------- MODULE DerivedTiles -----------------------------
(***************************************************************************)
(* Generated terrain tiles on one Ishikari node: a request is forwarded to *)
(* the tile's owner or handled here; the derived cache answers it, or one  *)
(* request generates the tile for all that wait; the generator fetches the *)
(* DEM of the tile and of its neighbours, decodes each at most once,       *)
(* tolerates a neighbour that fails, and computes the product; an MLT      *)
(* answer is transcoded through a cache of its own.  Decoding, generating  *)
(* and transcoding run as blocking jobs under one CPU gate, and a client   *)
(* that goes away cannot stop a job that has begun.                        *)
(*                                                                         *)
(* The eight neighbours are one source here; the generation of an archive  *)
(* that the node's reader has admitted is ptr, see ArchiveReader.          *)
(***************************************************************************)
EXTENDS Integers, FiniteSets

CONSTANTS
    Requests,
    TileScenarios,     \* product and format of each request, home of each source
    Concurrency,   \* cpu_work_concurrency
    MaxInflight,   \* cpu_work_max_inflight
    NegativeTtl,   \* derived_negative_ttl
    MaxGeneration, \* how often an archive may be replaced
    MaxFaults,     \* fetches, decodes and generations that may fail
    MaxCancels,    \* clients that may go away
    Horizon        \* last instant

ASSUME DerivedTilesAssumption ==
    /\ IsFiniteSet(Requests)
    /\ Concurrency \in Nat \ {0} /\ MaxInflight \in Nat /\ MaxInflight >= Concurrency
    /\ NegativeTtl \in Nat /\ Horizon \in Nat
    /\ \A s \in TileScenarios :
         s.home \in [{"center", "neighbour"} -> {"A", "B"}] /\ s.ptr \in [{"A", "B"} -> Nat]

VARIABLES
    sc,      \* the scenario
    now,
    ptr,     \* generation of each archive the reader has admitted, 0 for none
    req,     \* the requests
    derived, \* derived_tile_cache: key to outcome
    dem,     \* dem_tile_cache: decoded sources
    mlt,     \* mlt_cache: key to the outcome it was transcoded from
    permits, \* permits the gate has left
    orphans, \* blocking jobs whose request is gone
    faults, cancels

derivedVars == <<sc, now, ptr, req, derived, dem, mlt, permits, orphans, faults, cancels>>

Sources == {"center", "neighbour"}

\* A source of a neighbourhood, and its generation once fetched.
Src(st, g) == [st |-> st, gen |-> g]
NoSources == [s \in Sources |-> Src("idle", 0)]

\* DerivedOutcome and its expiry; failed, for the properties, tells a tile made
\* without a neighbour that failed.
Outcome(kind, failed, until) == [kind |-> kind, failed |-> failed, until |-> until]
NoOutcome == Outcome("none", FALSE, 0)

Stores == {"A", "B"}
Home(s) == sc.home[s]
Key(r) == <<sc.product[r], req[r].gen>>

DerivedInit ==
    /\ sc \in TileScenarios
    /\ now = 0 /\ ptr = sc.ptr
    /\ req = [r \in Requests |->
                [pc |-> "new", gen |-> 0, src |-> NoSources, out |-> NoOutcome]]
    /\ derived = <<>> /\ dem = {} /\ mlt = <<>>
    /\ permits = Concurrency /\ orphans = 0 /\ faults = 0 /\ cancels = 0

Store(cache, key, value) ==
    [k \in DOMAIN cache \cup {key} |-> IF k = key THEN value ELSE cache[k]]

-----------------------------------------------------------------------------
(* The CPU gate.                                                           *)

\* The blocking jobs of a request: the decodes of its sources and its product.
JobNames == Sources \cup {"product"}

RunningOf(x) ==
    {s \in Sources : x.src[s].st = "running"}
    \cup {j \in {"product"} : x.pc \in {"generating", "transcoding"}}

QueuedOf(x) ==
    {s \in Sources : x.src[s].st = "queued"}
    \cup {j \in {"product"} : x.pc \in {"genq", "mltq"}}

Running == [r \in Requests |-> RunningOf(req[r])]
Queued == [r \in Requests |-> QueuedOf(req[r])]
JobCount(jobs) == Cardinality({job \in Requests \X JobNames : job[2] \in jobs[job[1]]})

\* The slots taken, by jobs that wait for a permit and by those that hold one.
Inflight == JobCount(Queued) + (Concurrency - permits)

\* CpuWorkGate::admit: a slot below the ceiling, or the work is shed.
Sheds == Inflight >= MaxInflight

-----------------------------------------------------------------------------
(* The derived cache and its single flight.                                *)

\* Those that wait for r's generation.
Waiters(r) == {q \in Requests \ {r} : req[q].pc = "await" /\ Key(q) = Key(r)}

\* Those that wait for a source that r decodes.
DemWaiters(r, s) ==
    {q \in Requests \ {r} :
       req[q].src[s].st = "wait" /\ req[q].src[s].gen = req[r].src[s].gen}

Decodes(r, s) == req[r].src[s].st \in {"queued", "running"}

\* Request q after r's sources are dropped: what waited for one of its decodes
\* begins anew.
Released(r, q) ==
    [req[q] EXCEPT !.src = [s \in Sources |->
       IF Decodes(r, s) /\ q \in DemWaiters(r, s)
       THEN Src("raw", req[q].src[s].gen) ELSE req[q].src[s]]]

\* A request that leaves its generation behind.
Left(x, pc) == [x EXCEPT !.pc = pc, !.src = NoSources]

\* try_get_with ends with an error for the leader and all that wait.
FlightFails(r) ==
    /\ req' = [q \in Requests |->
                 IF q = r \/ q \in Waiters(r)
                 THEN Left(req[q], "error") ELSE Released(r, q)]
    /\ orphans' = orphans + Cardinality({s \in Sources : req[r].src[s].st = "running"})

\* It ends with an outcome, which is cached.
FlightEnds(r, out) ==
    /\ derived' = Store(derived, Key(r), out)
    /\ req' = [q \in Requests |->
                 IF q = r \/ q \in Waiters(r)
                 THEN [Left(req[q], "have") EXCEPT !.out = out] ELSE req[q]]

Fresh(r) == Key(r) \in DOMAIN derived /\ now < derived[Key(r)].until

Led(r) == \E q \in Requests \ {r} :
            req[q].pc \in {"sources", "genq", "generating"} /\ Key(q) = Key(r)

-----------------------------------------------------------------------------
(* serve_derived_tile and local_derived_output.                            *)

Step(r, x) == req' = [req EXCEPT ![r] = x]
To(r, pc) == [req[r] EXCEPT !.pc = pc]
Answer(r, out) == Step(r, [To(r, "done") EXCEPT !.out = out])

WireStatus(kind) ==
    CASE kind = "absent" -> 0 [] kind = "tile" -> 1 [] kind = "degraded" -> 2
WireKind(status) ==
    CASE status = 0 -> "absent" [] status = 1 -> "tile" [] status = 2 -> "degraded"

\* encode_derived_wire and decode_derived_wire
Decoded(out) == [out EXCEPT !.kind = WireKind(WireStatus(out.kind))]

\* The owner answers, or there is none, or it fails or answers nonsense.
Route(r) ==
    /\ req[r].pc = "new"
    /\ \/ /\ sc.owned
          /\ \E kind \in {"tile", "degraded", "absent"} :
               Answer(r, Decoded(Outcome(kind, kind = "degraded", now + 1)))
       \/ Step(r, To(r, "info"))
    /\ UNCHANGED <<sc, now, ptr, derived, dem, mlt, permits, orphans, faults, cancels>>

\* resolve_archive and load_tileset_info: no archive, no tile; either may fail.
Info(r) ==
    LET g == ptr[Home("center")]
    IN /\ req[r].pc = "info"
       /\ \/ /\ g = 0 /\ UNCHANGED faults
             /\ Answer(r, Outcome("absent", FALSE, now + NegativeTtl))
          \/ /\ g # 0 /\ UNCHANGED faults
             /\ Step(r, [To(r, "lookup") EXCEPT !.gen = g])
          \/ /\ faults < MaxFaults /\ faults' = faults + 1
             /\ Step(r, To(r, "error"))
       /\ UNCHANGED <<sc, now, ptr, derived, dem, mlt, permits, orphans, cancels>>

\* derived_tile_cache().try_get_with
LookupDerived(r) ==
    /\ req[r].pc = "lookup"
    /\ \/ /\ Fresh(r)
          /\ Step(r, [To(r, "have") EXCEPT !.out = derived[Key(r)]])
       \/ /\ ~Fresh(r) /\ Led(r)
          /\ Step(r, To(r, "await"))
       \/ /\ ~Fresh(r) /\ ~Led(r)
          /\ Step(r, [To(r, "sources") EXCEPT !.src = [s \in Sources |-> Src("todo", 0)]])
    /\ UNCHANGED <<sc, now, ptr, derived, dem, mlt, permits, orphans, faults, cancels>>

WithSrc(x, s, value) == [x EXCEPT !.src = [x.src EXCEPT ![s] = value]]
SetSrc(r, s, value) == Step(r, WithSrc(req[r], s, value))

\* fetch_source_tile: the tile of the generation the reader has admitted now.
FetchSource(r, s) ==
    /\ req[r].pc = "sources" /\ req[r].src[s].st = "todo"
    /\ \/ /\ faults < MaxFaults /\ faults' = faults + 1
          /\ SetSrc(r, s, Src("failed", 0))
       \/ /\ SetSrc(r, s, IF ptr[Home(s)] = 0 THEN Src("none", 0)
                          ELSE Src("raw", ptr[Home(s)]))
          /\ UNCHANGED faults
    /\ UNCHANGED <<sc, now, ptr, derived, dem, mlt, permits, orphans, cancels>>

\* load_decoded_dem: decoded already, being decoded, or to be decoded here.
DecodeSource(r, s) ==
    LET g == req[r].src[s].gen
    IN /\ req[r].pc = "sources" /\ req[r].src[s].st = "raw"
       /\ SetSrc(r, s,
            IF <<s, g>> \in dem THEN Src("have", g)
            ELSE IF \E q \in Requests \ {r} : Decodes(q, s) /\ req[q].src[s].gen = g
                 THEN Src("wait", g)
            ELSE IF Sheds THEN Src("failed", 0) ELSE Src("queued", g))
       /\ UNCHANGED <<sc, now, ptr, derived, dem, mlt, permits, orphans, faults, cancels>>

\* A queued job takes a permit and begins.
BeginDecode(r, s) ==
    /\ req[r].src[s].st = "queued" /\ permits > 0
    /\ SetSrc(r, s, Src("running", req[r].src[s].gen))
    /\ permits' = permits - 1
    /\ UNCHANGED <<sc, now, ptr, derived, dem, mlt, orphans, faults, cancels>>

\* The decode ends, for its request and for all that wait for it.
EndDecode(r, s) ==
    LET g == req[r].src[s].gen
        All(value) == req' = [q \in Requests |->
                        IF q = r \/ q \in DemWaiters(r, s)
                        THEN WithSrc(req[q], s, value) ELSE req[q]]
    IN /\ req[r].src[s].st = "running"
       /\ permits' = permits + 1
       /\ \/ dem' = dem \cup {<<s, g>>} /\ All(Src("have", g)) /\ UNCHANGED faults
          \/ /\ faults < MaxFaults /\ faults' = faults + 1
             /\ All(Src("failed", 0)) /\ UNCHANGED dem
       /\ UNCHANGED <<sc, now, ptr, derived, mlt, orphans, cancels>>

\* fetch_neighborhood: without the center there is no tile.
CenterFails(r) ==
    /\ req[r].pc = "sources" /\ req[r].src["center"].st = "failed"
    /\ FlightFails(r)
    /\ UNCHANGED <<sc, now, ptr, derived, dem, mlt, permits, faults, cancels>>

Settled(r) == \A s \in Sources : req[r].src[s].st \in {"have", "none", "failed"}

\* generate_tile after the fetch: an absent center is an outcome, a present
\* one is generated from if the gate admits it.
AdmitGeneration(r) ==
    /\ req[r].pc = "sources" /\ Settled(r)
    /\ \/ /\ req[r].src["center"].st = "none"
          /\ FlightEnds(r, Outcome("absent", FALSE, now + NegativeTtl))
          /\ UNCHANGED orphans
       \/ /\ req[r].src["center"].st = "have" /\ Sheds
          /\ FlightFails(r)
          /\ UNCHANGED derived
       \/ /\ req[r].src["center"].st = "have" /\ ~Sheds
          /\ Step(r, To(r, "genq"))
          /\ UNCHANGED <<derived, orphans>>
    /\ UNCHANGED <<sc, now, ptr, dem, mlt, permits, faults, cancels>>

BeginGeneration(r) ==
    /\ req[r].pc = "genq" /\ permits > 0
    /\ Step(r, To(r, "generating"))
    /\ permits' = permits - 1
    /\ UNCHANGED <<sc, now, ptr, derived, dem, mlt, orphans, faults, cancels>>

\* A complete tile does not expire, a degraded one soon does.
Generated(r) ==
    LET failed == req[r].src["neighbour"].st = "failed"
    IN Outcome(IF failed THEN "degraded" ELSE "tile", failed,
               IF failed THEN now + NegativeTtl ELSE Horizon + 1)

EndGeneration(r) ==
    /\ req[r].pc = "generating"
    /\ permits' = permits + 1
    /\ \/ FlightEnds(r, Generated(r)) /\ UNCHANGED <<orphans, faults>>
       \/ /\ faults < MaxFaults /\ faults' = faults + 1
          /\ FlightFails(r) /\ UNCHANGED derived
    /\ UNCHANGED <<sc, now, ptr, dem, mlt, cancels>>

-----------------------------------------------------------------------------
(* The representation of the answer.                                       *)

\* Mutant: a degraded tile is transcoded through the cache.
BypassesNever(out) == FALSE

\* TranscodeCachePolicy
Bypasses(out) == out.kind = "degraded"

MltLed(r) == \E q \in Requests \ {r} :
               /\ req[q].pc \in {"mltq", "transcoding"} /\ ~Bypasses(req[q].out)
               /\ Key(q) = Key(r)

\* mlt_response_bytes and transcoded_mlt, or the tile as it is.
Represent(r) ==
    LET out == req[r].out
    IN /\ req[r].pc = "have"
       /\ \/ /\ out.kind = "absent" \/ sc.format[r] = "stored"
             /\ Step(r, To(r, "done"))
          \/ /\ out.kind # "absent" /\ sc.format[r] = "mlt"
             /\ \/ /\ ~Bypasses(out) /\ Key(r) \in DOMAIN mlt
                   \* the cached bytes under this outcome's label
                   /\ Answer(r, [out EXCEPT !.failed = mlt[Key(r)].failed])
                \/ /\ Bypasses(out) \/ Key(r) \notin DOMAIN mlt
                   /\ Step(r, To(r, IF ~Bypasses(out) /\ MltLed(r) THEN "mltwait"
                                    ELSE IF Sheds THEN "error" ELSE "mltq"))
       /\ UNCHANGED <<sc, now, ptr, derived, dem, mlt, permits, orphans, faults, cancels>>

BeginTranscode(r) ==
    /\ req[r].pc = "mltq" /\ permits > 0
    /\ Step(r, To(r, "transcoding"))
    /\ permits' = permits - 1
    /\ UNCHANGED <<sc, now, ptr, derived, dem, mlt, orphans, faults, cancels>>

MltWaiters(r) ==
    {q \in Requests \ {r} :
       ~Bypasses(req[r].out) /\ req[q].pc = "mltwait" /\ Key(q) = Key(r)}

EndTranscode(r) ==
    LET out == req[r].out
        All(pc) == req' = [q \in Requests |->
                     IF q = r \/ q \in MltWaiters(r)
                     THEN [To(q, pc) EXCEPT !.out = [req[q].out EXCEPT !.failed = out.failed]]
                     ELSE req[q]]
    IN /\ req[r].pc = "transcoding"
       /\ permits' = permits + 1
       /\ \/ /\ All("done") /\ UNCHANGED faults
             /\ mlt' = IF Bypasses(out) THEN mlt ELSE Store(mlt, Key(r), out)
          \/ /\ faults < MaxFaults /\ faults' = faults + 1
             /\ All("error") /\ UNCHANGED mlt
       /\ UNCHANGED <<sc, now, ptr, derived, dem, orphans, cancels>>

-----------------------------------------------------------------------------
(* Clients that go away, replaced archives, time.                          *)

\* Mutant: those that wait for a generation are not woken when it is dropped.
DroppedSilently(r) ==
    [q \in Requests |-> IF q = r THEN Left(req[q], "gone") ELSE Released(r, q)]

\* The table when r's future is dropped: whoever waited for it tries again.
AfterDrop(r) ==
    [q \in Requests |->
       IF q = r THEN Left(req[q], "gone")
       ELSE IF req[r].pc \in {"sources", "genq", "generating"} /\ q \in Waiters(r)
            THEN [Released(r, q) EXCEPT !.pc = "lookup"]
       ELSE IF req[r].pc \in {"mltq", "transcoding"} /\ q \in MltWaiters(r)
            THEN [Released(r, q) EXCEPT !.pc = "have"]
       ELSE Released(r, q)]

\* Mutant: the permit is held by the request and not by its blocking job.
CancelFreesPermits(r) ==
    /\ req[r].pc \notin {"done", "error", "gone"} /\ cancels < MaxCancels
    /\ req' = AfterDrop(r)
    /\ orphans' = orphans + Cardinality(RunningOf(req[r]))
    /\ permits' = permits + Cardinality(RunningOf(req[r]))
    /\ cancels' = cancels + 1
    /\ UNCHANGED <<sc, now, ptr, derived, dem, mlt, faults>>

\* The client goes away: queued work is dropped, running jobs go on with
\* their permits, and their results are lost.
CancelRequest(r) ==
    /\ req[r].pc \notin {"done", "error", "gone"} /\ cancels < MaxCancels
    /\ req' = AfterDrop(r)
    /\ orphans' = orphans + Cardinality(RunningOf(req[r]))
    /\ cancels' = cancels + 1
    /\ UNCHANGED <<sc, now, ptr, derived, dem, mlt, permits, faults>>

EndOrphan ==
    /\ orphans > 0
    /\ orphans' = orphans - 1 /\ permits' = permits + 1
    /\ UNCHANGED <<sc, now, ptr, req, derived, dem, mlt, faults, cancels>>

\* The reader admits another generation of an archive.
ReplaceArchive(a) ==
    /\ ptr[a] < MaxGeneration
    /\ ptr' = [ptr EXCEPT ![a] = @ + 1]
    /\ UNCHANGED <<sc, now, req, derived, dem, mlt, permits, orphans, faults, cancels>>

Tick ==
    /\ now < Horizon /\ now' = now + 1
    /\ UNCHANGED <<sc, ptr, req, derived, dem, mlt, permits, orphans, faults, cancels>>

Work(r) ==
    \/ Route(r) \/ Info(r) \/ LookupDerived(r)
    \/ \E s \in Sources : \/ FetchSource(r, s) \/ DecodeSource(r, s)
                          \/ BeginDecode(r, s) \/ EndDecode(r, s)
    \/ CenterFails(r) \/ AdmitGeneration(r) \/ BeginGeneration(r) \/ EndGeneration(r)
    \/ Represent(r) \/ BeginTranscode(r) \/ EndTranscode(r)

DerivedNext ==
    \/ \E r \in Requests : Work(r) \/ CancelRequest(r)
    \/ EndOrphan \/ Tick
    \/ \E a \in Stores : ReplaceArchive(a)

\* Tasks are polled and blocking jobs run to their end.
DerivedSpec ==
    /\ DerivedInit /\ [][DerivedNext]_derivedVars
    /\ \A r \in Requests : WF_derivedVars(Work(r))
    /\ WF_derivedVars(EndOrphan)

-----------------------------------------------------------------------------
(* Properties.                                                             *)

\* CpuWorkPermit in spawn_blocking: however clients come and go, no more
\* blocking jobs run than cpu_work_concurrency, no permit is lost, and the jobs
\* that wait for one and those that hold one never exceed max_inflight.
CpuBounded ==
    /\ permits >= 0 /\ JobCount(Running) + orphans + permits = Concurrency
    /\ Inflight <= MaxInflight

\* DerivedOutcome::Degraded: a tile made without a neighbour that failed is
\* never answered as a complete one, whether it comes from the generator, the
\* derived cache, the MLT cache or a peer; otherwise public caches would keep
\* it for the lifetime of a complete tile.
DegradedLabelled ==
    \A r \in Requests :
      req[r].pc = "done" /\ req[r].out.failed => req[r].out.kind = "degraded"
=============================================================================
