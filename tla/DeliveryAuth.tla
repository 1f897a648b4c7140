------------------------------ MODULE DeliveryAuth ------------------------------
(***************************************************************************)
(* The registry snapshots delivery requests are authorized with            *)
(* (mmpf-auth/src/lib.rs), for one configured registry: a cached snapshot  *)
(* that is refreshed when a request finds it due, by one leader at a time, *)
(* kept when the refresh fails, and never replaced by an older revision.   *)
(***************************************************************************)
EXTENDS RegistrySnapshots

VARIABLE installed  \* installed_revisions: the version last installed, or 0

deliveryVars == <<readerVars, installed>>

DeliveryInit == ReaderInit /\ installed = 0

\* Mutant: the leader's guard wakes nobody.
LeaderEndsAlone(r, id, error) == Answer(r, id)

\* The leader ends: a follower gets the error, or looks again.
LeaderEnds(r, id, error) ==
    /\ req' = [q \in Requests |->
                 IF q = r THEN At("idle")
                 ELSE IF req[q].st = "follow" THEN At(IF error THEN "idle" ELSE "check")
                 ELSE req[q]]
    /\ Counted(id)

Authorize(r) == Arrive(r) /\ UNCHANGED installed

-----------------------------------------------------------------------------
(* snapshot.                                                               *)

Serve(r) ==
    /\ req[r].st = "check" /\ cached.due > now
    /\ Answer(r, cached.id)
    /\ UNCHANGED <<sc, now, registry, since, cached, retry, installed>>

Reject(r) ==
    /\ req[r].st = "check" /\ cached = Nothing /\ retry > now
    /\ Answer(r, 0)
    /\ UNCHANGED <<sc, now, registry, since, cached, retry, installed>>

FindDue(r) ==
    /\ req[r].st = "check" /\ cached.due <= now
    /\ cached = Nothing => retry <= now
    /\ Move(r, At("begin"))
    /\ UNCHANGED <<sc, now, registry, since, cached, retry, installed, last, served>>

\* SingleFlight::begin: nobody holds the registry's entry.
Leads == Refreshing = {}

\* The leader reads the cache again for its conditional GET.
Begin(r) ==
    /\ req[r].st = "begin"
    /\ Move(r, IF Leads THEN Task("get", cached.id, 0, now) ELSE At("follow"))
    /\ UNCHANGED <<sc, now, registry, since, cached, retry, installed, last, served>>

-----------------------------------------------------------------------------
(* The leader's refresh.                                                   *)

\* defer_failed_refresh: the last known good snapshot, if there is one.
DeferFailedRefresh(r) ==
    /\ cached' = IF cached = Nothing THEN Nothing
                 ELSE Snapshot(cached.id, now + Cooldown, TRUE)
    /\ retry' = IF cached = Nothing THEN now + Cooldown ELSE retry
    /\ LeaderEnds(r, cached.id, cached = Nothing)
    /\ UNCHANGED <<now, registry, since, installed>>

\* A 304 renews what was cached when the refresh began.
NotModified(r) ==
    /\ req[r].st = "get" /\ req[r].prev # 0 /\ req[r].prev = registry
    /\ cached' = Snapshot(req[r].prev, now + Interval, FALSE)
    /\ LeaderEnds(r, req[r].prev, FALSE)
    /\ UNCHANGED <<sc, now, registry, since, retry, installed>>

Get(r) ==
    /\ req[r].st = "get" /\ req[r].prev # registry
    /\ Read(r)
    /\ UNCHANGED installed

\* Mutant: the revision is compared with the cached snapshot, which an
\* eviction forgets.
SucceedsCached(id) ==
    /\ sc.versions[id].ok
    /\ Rev(id) >= Rev(cached.id)
    /\ cached.id # 0 /\ Rev(id) = Rev(cached.id) => id = cached.id

\* The body parses, and its revision does not go back or change its content.
Succeeds(id) ==
    /\ sc.versions[id].ok
    /\ Rev(id) >= Rev(installed)
    /\ installed # 0 /\ Rev(id) = Rev(installed) => id = installed

Install(r) ==
    LET id == req[r].got
    IN /\ req[r].st = "body" /\ Succeeds(id)
       /\ installed' = id
       /\ retry' = 0
       /\ cached' = Snapshot(id, now + Interval, FALSE)
       /\ LeaderEnds(r, id, FALSE)
       /\ UNCHANGED <<sc, now, registry, since>>

Refuse(r) ==
    /\ req[r].st = "body" /\ ~Succeeds(req[r].got)
    /\ DeferFailedRefresh(r)
    /\ UNCHANGED sc

\* No permit, a store error or a timeout.
Fail(r) ==
    /\ r \in Refreshing /\ sc.faults > 0
    /\ sc' = [sc EXCEPT !.faults = @ - 1]
    /\ DeferFailedRefresh(r)

\* A refresh that has taken its time is cut off.
Overdue(r) ==
    /\ r \in Refreshing /\ now >= req[r].began + Timeout
    /\ DeferFailedRefresh(r)
    /\ UNCHANGED sc

\* The caller goes away, with the leader's guard.
Cancel(r) ==
    /\ req[r].st # "idle" /\ sc.cancels > 0
    /\ sc' = [sc EXCEPT !.cancels = @ - 1]
    /\ IF r \in Refreshing THEN LeaderEnds(r, 0, FALSE) ELSE Answer(r, 0)
    /\ UNCHANGED <<now, registry, since, cached, retry, installed>>

Evict ==
    /\ cached # Nothing /\ sc.evictions > 0
    /\ sc' = [sc EXCEPT !.evictions = @ - 1]
    /\ cached' = Nothing
    /\ UNCHANGED <<now, registry, since, retry, installed, req, last, served>>

DeliveryStep(r) ==
    \/ Serve(r) \/ Reject(r) \/ FindDue(r) \/ Begin(r)
    \/ NotModified(r) \/ Get(r) \/ Install(r) \/ Refuse(r) \/ Overdue(r)

DeliveryNext ==
    \/ \E r \in Requests : Authorize(r) \/ DeliveryStep(r) \/ Fail(r) \/ Cancel(r)
    \/ Evict
    \/ (WriteRegistry \/ Elapse) /\ UNCHANGED installed

\* A request's future is polled when it can go on.
DeliverySpec ==
    /\ DeliveryInit /\ [][DeliveryNext]_deliveryVars
    /\ \A r \in Requests : WF_deliveryVars(DeliveryStep(r))
=============================================================================
