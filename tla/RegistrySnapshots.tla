--------------------------- MODULE RegistrySnapshots ---------------------------
(***************************************************************************)
(* What the two readers of an auth registry share (mmpf-auth/src/lib.rs    *)
(* for delivery, abashiri-core/src/auth.rs for management): the registry's *)
(* object, the cached snapshot of it with the time it is due, and the      *)
(* requests, one of which at a time refreshes the snapshot.                *)
(*                                                                         *)
(* The object goes through the versions of the scenario.  A version is its *)
(* revision and whether its body parses; its place in the sequence stands  *)
(* for its bytes, its digest and its ETag.  0 is none.                     *)
(***************************************************************************)
EXTENDS Integers, Sequences

CONSTANTS
    Requests,
    Registries, \* scenarios: versions, and what may happen how often
    Interval,   \* REFRESH_INTERVAL
    Cooldown,   \* REFRESH_FAILURE_COOLDOWN
    Timeout,    \* how long one refresh may take: its two operation timeouts
    Horizon     \* bound: the clock stops here

RegistryType ==
    [versions : Seq([rev : Nat, ok : BOOLEAN]),
     requests : Nat, faults : Nat, cancels : Nat, evictions : Nat]

ASSUME RegistryAssumption ==
    /\ Interval \in Nat /\ Cooldown \in Nat /\ Timeout \in Nat /\ Horizon \in Nat
    /\ \A s \in Registries : s \in RegistryType /\ Len(s.versions) >= 1

VARIABLES
    sc,       \* the scenario: versions, and what is left to happen
    now,
    registry, \* the version the registry's object holds
    since,    \* when each version was written, 0 before that
    cached,   \* the cached snapshot, or Nothing
    retry,    \* when a refresh may be tried after one that left nothing to use
    req,      \* each request
    last,     \* ghost: the version the last answer used, 0 for a refusal
    served    \* ghost: the greatest revision a request was answered with

readerVars == <<sc, now, registry, since, cached, retry, req, last, served>>

Rev(id) == IF id = 0 THEN 0 ELSE sc.versions[id].rev

\* A cached version, when it is due, and whether refreshes of it fail.
Snapshot(id, due, failing) == [id |-> id, due |-> due, failing |-> failing]
Nothing == Snapshot(0, 0, FALSE)

\* A request: where it is; the version its refresh found cached, the version it
\* read, and when the refresh began.
Task(st, prev, got, began) == [st |-> st, prev |-> prev, got |-> got, began |-> began]
At(st) == Task(st, 0, 0, 0)

ReaderInit ==
    /\ sc \in Registries
    /\ now = 1 /\ registry = 1
    /\ since = [i \in DOMAIN sc.versions |-> IF i = 1 THEN 1 ELSE 0]
    /\ cached = Nothing /\ retry = 0
    /\ req = [r \in Requests |-> At("idle")]
    /\ last = 0 /\ served = 0

\* The requests that refresh the snapshot.
Refreshing == {r \in Requests : req[r].st \in {"get", "body"}}

Move(r, task) == req' = [req EXCEPT ![r] = task]

Later(m, n) == IF m < n THEN n ELSE m

\* An answer with a version, or a refusal when it is 0.
Counted(id) == last' = id /\ served' = Later(served, Rev(id))
Answer(r, id) == Move(r, At("idle")) /\ Counted(id)

Arrive(r) ==
    /\ req[r].st = "idle" /\ sc.requests > 0
    /\ sc' = [sc EXCEPT !.requests = @ - 1]
    /\ Move(r, At("check"))
    /\ UNCHANGED <<now, registry, since, cached, retry, last, served>>

\* The object's bytes arrive.
Read(r) ==
    /\ Move(r, Task("body", req[r].prev, registry, req[r].began))
    /\ UNCHANGED <<sc, now, registry, since, cached, retry, last, served>>

WriteRegistry ==
    /\ registry < Len(sc.versions)
    /\ registry' = registry + 1
    /\ since' = [since EXCEPT ![registry + 1] = now]
    /\ UNCHANGED <<sc, now, cached, retry, req, last, served>>

\* Time passes; a refresh that has taken its time ends before it does.
Elapse ==
    /\ now < Horizon
    /\ \A r \in Refreshing : now < req[r].began + Timeout
    /\ now' = now + 1
    /\ UNCHANGED <<sc, registry, since, cached, retry, req, last, served>>

-----------------------------------------------------------------------------
(* Properties of both readers.                                             *)

Answered == last' # 0 /\ \E r \in Requests : req[r].st # "idle" /\ req'[r].st = "idle"

\* The version of the answer was replaced longer ago than one interval and one
\* refresh.
Outlived == last' < registry /\ since[last' + 1] + Interval + Timeout < now

\* Policy never goes back: no request is authorized with a revision older than
\* one an earlier answer used, whatever is written, evicted or cancelled
\* (refresh's installed_revisions and the test cache_eviction_does_not_forget_
\* the_installed_revision for delivery, snapshot's valid_successor for
\* management).
RevisionForward == [][Answered => Rev(last') >= served]_readerVars

\* A superseded policy is in use only while its refreshes are seen to fail: an
\* answer from an outlived version leaves refresh_failing_since set, which is
\* what the unvalidated_seconds metric reports (defer_failed_refresh;
\* auth-sketch.md: "that is exactly what unvalidated_seconds measures").
\* Management never sets it, so nobody is authenticated with an outlived version
\* there (the test expired_snapshot_is_not_used_when_refresh_fails).
StaleVisible == [][Answered /\ Outlived => cached'.failing]_readerVars

\* Every request is answered: a refresh that fails, is cut off or is dropped
\* leaves nobody waiting (SingleFlight and snapshot's loop for delivery, the
\* refresh mutex and its deadlines for management).
RequestsAnswered == \A r \in Requests : []<>(req[r].st = "idle")
=============================================================================
