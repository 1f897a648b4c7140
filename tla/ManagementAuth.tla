----------------------------- MODULE ManagementAuth -----------------------------
(***************************************************************************)
(* The registry snapshot Abashiri authenticates management requests with   *)
(* (abashiri-core/src/auth.rs).  Unlike delivery it fails closed: a        *)
(* snapshot that is due and cannot be refreshed is not used.               *)
(***************************************************************************)
EXTENDS RegistrySnapshots

Fresh == now < cached.due
Deferred == now < retry

Authenticate(r) == Arrive(r)

\* snapshot up to the lock, and again under it.
Resolved(r, otherwise) ==
    /\ \/ Fresh /\ Answer(r, cached.id)
       \/ ~Fresh /\ Deferred /\ Answer(r, 0)
       \/ ~Fresh /\ ~Deferred /\ Move(r, otherwise) /\ UNCHANGED <<last, served>>
    /\ UNCHANGED <<sc, now, registry, since, cached, retry>>

Check(r) ==
    /\ req[r].st = "check"
    /\ Resolved(r, At("lock"))

\* Nobody holds the refresh mutex.
Unlocked == Refreshing = {}

Lock(r) ==
    /\ req[r].st = "lock" /\ Unlocked
    /\ Resolved(r, Task("get", 0, 0, now))

\* load_candidate has the object's bytes.
Load(r) ==
    /\ req[r].st = "get"
    /\ Read(r)

\* Mutant: a failed refresh goes on with the snapshot it has.
RefusedLeniently(r) ==
    /\ retry' = now + Cooldown
    /\ Answer(r, cached.id)
    /\ UNCHANGED <<now, registry, since, cached>>

Refused(r) ==
    /\ retry' = now + Cooldown
    /\ Answer(r, 0)
    /\ UNCHANGED <<now, registry, since, cached>>

ValidSuccessor(id) ==
    /\ sc.versions[id].ok
    /\ Rev(id) >= Rev(cached.id)
    /\ cached.id # 0 /\ Rev(id) = Rev(cached.id) => id = cached.id

InstallCandidate(r) ==
    LET id == req[r].got
    IN /\ req[r].st = "body" /\ ValidSuccessor(id)
       /\ cached' = Snapshot(id, now + Interval, FALSE)
       /\ retry' = 0
       /\ Answer(r, id)
       /\ UNCHANGED <<sc, now, registry, since>>

RefuseCandidate(r) ==
    /\ req[r].st = "body" /\ ~ValidSuccessor(req[r].got)
    /\ Refused(r)
    /\ UNCHANGED sc

LoadFails(r) ==
    /\ r \in Refreshing /\ sc.faults > 0
    /\ sc' = [sc EXCEPT !.faults = @ - 1]
    /\ Refused(r)

LoadTimesOut(r) ==
    /\ r \in Refreshing /\ now >= req[r].began + Timeout
    /\ Refused(r)
    /\ UNCHANGED sc

\* The caller goes away; the mutex guard goes with it.
CallerLeaves(r) ==
    /\ req[r].st # "idle" /\ sc.cancels > 0
    /\ sc' = [sc EXCEPT !.cancels = @ - 1]
    /\ Answer(r, 0)
    /\ UNCHANGED <<now, registry, since, cached, retry>>

ManagementStep(r) ==
    \/ Check(r) \/ Lock(r) \/ Load(r)
    \/ InstallCandidate(r) \/ RefuseCandidate(r) \/ LoadTimesOut(r)

ManagementNext ==
    \/ \E r \in Requests : Authenticate(r) \/ ManagementStep(r) \/ LoadFails(r) \/ CallerLeaves(r)
    \/ WriteRegistry \/ Elapse

\* A request's future is polled when it can go on.
ManagementSpec ==
    /\ ReaderInit /\ [][ManagementNext]_readerVars
    /\ \A r \in Requests : WF_readerVars(ManagementStep(r))
=============================================================================
