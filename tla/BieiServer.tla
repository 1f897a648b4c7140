---- MODULE BieiServer ----
(***************************************************************************)
(* A Biei process from its first request to its exit: admission            *)
(* (http/ingress.rs, http/internal.rs, http/adapter.rs), the drain gate    *)
(* (drain.rs, mmpf-common/sync.rs) and the shutdown that runs within the   *)
(* platform's budget (runtime/run.rs, runtime/mod.rs, mmpf-http/serve.rs). *)
(*                                                                         *)
(* Every access to the gate's two atomics and to its Notify is a step.     *)
(* The clock counts seconds since the shutdown signal; timers fire on      *)
(* time, and the process's own steps between two waits take none.          *)
(***************************************************************************)
EXTENDS Integers, FiniteSets

CONSTANTS
  Requests,
  Scenarios,      \* of [kind, clustered]: see sc
  PublicLimit,    \* ingress concurrency limit
  ForwardLimit,   \* internal_forward_concurrency_limit
  ProcessBudget, DrainGrace, Reserve, PublishTimeout, HttpGrace  \* seconds

\* What the timeouts must satisfy: publishing the drain and then either
\* waiting for the listeners or for the requests leaves the reserve.  The
\* code's values are 21, 10, 2, 1 and 12 seconds.
TimeoutsFit ==
  /\ ProcessBudget \in Nat /\ DrainGrace \in Nat /\ Reserve \in Nat
  /\ PublishTimeout \in Nat /\ HttpGrace \in Nat
  /\ PublishTimeout + HttpGrace <= ProcessBudget - Reserve
  /\ PublishTimeout + DrainGrace <= ProcessBudget - Reserve

ASSUME TimeoutsAssumption == TimeoutsFit

VARIABLES
  sc,         \* kind: request -> "render", "preview" or "forward"; clustered:
              \* whether there are a membership and a second listener
  req,        \* request -> where its handler or its spawned render is
  conn,       \* requests whose client connection is open
  accepting, inFlight,  \* DrainState
  notify,     \* DrainState.idle, seen by its one waiter
  permits,    \* free permits of the two semaphores
  coord,      \* the shutdown coordinator task
  http,       \* the listeners
  main,       \* run(), once it serves
  clock, by   \* seconds since the signal; deadlines of the pending waits

gateVars == <<accepting, inFlight, notify>>
stopVars == <<coord, http, main, clock, by, sc>>
vars == <<sc, req, conn, accepting, inFlight, notify, permits, coord, http, main, clock, by>>

Kind == sc.kind
Clustered == sc.clustered
Pool(r) == IF Kind[r] = "forward" THEN "internal" ELSE "public"
Least(a, b) == IF a < b THEN a ELSE b
Alive == main # "exited"

Goto(r, pc) == req' = [req EXCEPT ![r] = pc]
TakePermit(r) == permits' = [permits EXCEPT ![Pool(r)] = @ - 1]
GivePermit(r) == permits' = [permits EXCEPT ![Pool(r)] = @ + 1]

(***************************************************************************)
(* Requests.                                                               *)
(***************************************************************************)
\* A request reaches its handler, which takes a concurrency permit or
\* answers 503.  A forwarded one then reads its body.
Arrive(r) ==
  /\ Alive /\ req[r] = "none" /\ http = "serving"
  /\ IF permits[Pool(r)] > 0
     THEN TakePermit(r) /\ Goto(r, IF Kind[r] = "forward" THEN "body" ELSE "check")
     ELSE Goto(r, "answered") /\ UNCHANGED permits
  /\ conn' = conn \cup {r}
  /\ UNCHANGED <<gateVars, stopVars>>

\* The body is read, or is too large, late or of another media type.
ReadBody(r) ==
  /\ Alive /\ req[r] = "body"
  /\ \/ Goto(r, "check") /\ UNCHANGED permits
     \/ Goto(r, "answered") /\ GivePermit(r)
  /\ UNCHANGED <<conn, gateVars, stopVars>>

\* try_acquire, first look.
TryAcquire(r) ==
  /\ Alive /\ req[r] = "check"
  /\ IF accepting
     THEN Goto(r, "add") /\ UNCHANGED permits
     ELSE Goto(r, "answered") /\ GivePermit(r)
  /\ UNCHANGED <<conn, gateVars, stopVars>>

AddInFlight(r) ==
  /\ Alive /\ req[r] = "add"
  /\ inFlight' = inFlight + 1
  /\ Goto(r, "recheck")
  /\ UNCHANGED <<conn, accepting, notify, permits, stopVars>>

\* Mutant: the gate is not looked at again.
RecheckNever(r) ==
  /\ Alive /\ req[r] = "recheck"
  /\ Goto(r, IF Kind[r] = "preview" THEN "preview" ELSE "render")
  /\ UNCHANGED <<conn, gateVars, permits, stopVars>>

\* Second look.  An admitted render, once its request is valid, is spawned
\* with both guards; a preview holds them in its handler.
Recheck(r) ==
  /\ Alive /\ req[r] = "recheck"
  /\ IF accepting
     THEN Goto(r, IF Kind[r] = "preview" THEN "preview" ELSE "render")
     ELSE Goto(r, "leave")
  /\ UNCHANGED <<conn, gateVars, permits, stopVars>>

\* The work ends, or the handler that holds the guards is dropped with its
\* connection; a spawned render outlives its connection.
Finish(r) ==
  /\ Alive /\ req[r] \in {"render", "preview"}
  /\ Goto(r, "leave")
  /\ UNCHANGED <<conn, gateVars, permits, stopVars>>

\* Drop of the guards, or try_acquire backing out: fetch_sub first.
SubInFlight(r) ==
  /\ Alive /\ req[r] = "leave"
  /\ inFlight' = inFlight - 1
  /\ Goto(r, IF inFlight = 1 THEN "wake" ELSE "answered")
  /\ GivePermit(r)
  /\ UNCHANGED <<conn, accepting, notify, stopVars>>

NotifyWaiters == notify' = [notify EXCEPT !.fired = notify.registered]

WakeWaiter(r) ==
  /\ Alive /\ req[r] = "wake"
  /\ NotifyWaiters
  /\ Goto(r, "answered")
  /\ UNCHANGED <<conn, accepting, inFlight, permits, stopVars>>

\* The client goes away, or has its answer.  Dropping a handler that is still
\* reading its body gives back its permit.
Disconnect(r) ==
  /\ Alive /\ r \in conn
  /\ conn' = conn \ {r}
  /\ CASE req[r] = "body" -> Goto(r, "answered") /\ GivePermit(r)
       [] req[r] = "preview" -> Goto(r, "leave") /\ UNCHANGED permits
       [] req[r] \in {"render", "answered"} -> UNCHANGED <<req, permits>>
       [] OTHER -> FALSE     \* the handler does not await here
  /\ UNCHANGED <<gateVars, stopVars>>

(***************************************************************************)
(* The shutdown coordinator: install_shutdown_handler.                     *)
(***************************************************************************)
reqVars == <<req, conn, permits, sc>>

\* The signal arrives; the process deadline is ProcessBudget from here.
Signal ==
  /\ Alive /\ coord = "await"
  /\ coord' = "close"
  /\ UNCHANGED <<reqVars, gateVars, http, main, clock, by>>

\* begin_draining closes the gate, then tells the cluster.
BeginDraining ==
  /\ Alive /\ coord = "close"
  /\ accepting' = FALSE
  /\ IF inFlight = 0 THEN NotifyWaiters ELSE UNCHANGED notify
  /\ coord' = IF Clustered THEN "publish" ELSE "stop"
  /\ by' = [by EXCEPT !.publish = Least(ProcessBudget, clock + PublishTimeout)]
  /\ UNCHANGED <<reqVars, inFlight, http, main, clock>>

\* set_draining returned, or its second is over.
Published ==
  /\ Alive /\ coord = "publish"
  /\ coord' = "stop"
  /\ UNCHANGED <<reqVars, gateVars, http, main, clock, by>>

\* serve_dual's force-drop timer; a single listener also heeds the deadline.
HttpDeadline == IF Clustered THEN clock + HttpGrace ELSE Least(ProcessBudget, clock + HttpGrace)

StopHttp ==
  /\ Alive /\ coord = "stop"
  /\ coord' = "look"
  /\ http' = IF http = "serving" THEN "stopping" ELSE http
  /\ by' = [by EXCEPT !.http = HttpDeadline, !.drain = Least(ProcessBudget, clock + DrainGrace)]
  /\ UNCHANGED <<reqVars, gateVars, main, clock>>

\* wait_idle without registering.
LookIdle ==
  /\ Alive /\ coord = "look"
  /\ coord' = IF inFlight = 0 THEN "drained" ELSE "register"
  /\ UNCHANGED <<reqVars, gateVars, http, main, clock, by>>

\* wait_for_change registers, then looks, then parks.
Register ==
  /\ Alive /\ coord = "register"
  /\ notify' = [registered |-> TRUE, fired |-> FALSE]
  /\ coord' = "check"
  /\ UNCHANGED <<reqVars, accepting, inFlight, http, main, clock, by>>

CheckIdle ==
  /\ Alive /\ coord = "check"
  /\ coord' = IF inFlight = 0 THEN "drained" ELSE "park"
  /\ UNCHANGED <<reqVars, gateVars, http, main, clock, by>>

Woken ==
  /\ Alive /\ coord = "park" /\ notify.fired
  /\ coord' = "register"
  /\ UNCHANGED <<reqVars, gateVars, http, main, clock, by>>

DrainTimeout ==
  /\ Alive /\ coord = "park" /\ clock >= by.drain
  /\ coord' = "late"
  /\ UNCHANGED <<reqVars, gateVars, http, main, clock, by>>

(***************************************************************************)
(* The listeners and run().                                                *)
(***************************************************************************)
HttpStopped ==
  /\ Alive /\ http = "stopping"
  /\ conn = {} \/ clock >= by.http
  /\ http' = "stopped"
  /\ UNCHANGED <<reqVars, gateVars, coord, main, clock, by>>

ListenerFails ==
  /\ Alive /\ http \in {"serving", "stopping"}
  /\ http' = "failed"
  /\ UNCHANGED <<reqVars, gateVars, coord, main, clock, by>>

ServeReturns ==
  /\ main = "serve" /\ http \in {"stopped", "failed"}
  /\ main' = "finish"
  /\ UNCHANGED <<reqVars, gateVars, coord, http, clock, by>>

CoordinatorDone == coord \in {"drained", "late"}

\* Mutant: nothing is reserved for the membership.
WorkerShutdownDeadlineAll == Least(ProcessBudget, clock + DrainGrace)

WorkerShutdownDeadline == Least(ProcessBudget - Reserve, clock + DrainGrace)

\* finish_shutdown: without a signal nothing is waited for; otherwise the
\* coordinator is, until the process deadline.
FinishShutdown ==
  /\ main = "finish"
  /\ CoordinatorDone \/ coord = "await" \/ clock >= ProcessBudget
  /\ coord' = IF CoordinatorDone THEN coord ELSE "aborted"
  /\ main' = "workers"
  /\ by' = [by EXCEPT !.workers = WorkerShutdownDeadline]
  /\ UNCHANGED <<reqVars, gateVars, http, clock>>

\* Node::shutdown joins the workers, or detaches the renders that remain.
WorkersShutdown ==
  /\ main = "workers"
  /\ (\A r \in Requests : req[r] # "render") \/ clock >= by.workers
  /\ main' = IF Clustered THEN "membership" ELSE "exited"
  /\ UNCHANGED <<reqVars, gateVars, coord, http, clock, by>>

MembershipShutdown ==
  /\ main = "membership"
  /\ main' = "exited"
  /\ UNCHANGED <<reqVars, gateVars, coord, http, clock, by>>

\* A second passes only where everything waits and no timer is due.
Tick ==
  /\ Alive
  /\ coord # "await" \/ main # "serve"
  /\ CASE coord = "publish" -> clock < by.publish
       [] coord = "park" -> ~notify.fired /\ clock < by.drain
       [] OTHER -> coord \in {"await", "drained", "late", "aborted"}
  /\ http = "stopping" => conn # {} /\ clock < by.http
  /\ CASE main = "serve" -> http \in {"serving", "stopping"}
       [] main = "finish" -> ~CoordinatorDone /\ coord # "await" /\ clock < ProcessBudget
       [] main = "workers" -> clock < by.workers /\ \E r \in Requests : req[r] = "render"
       [] main = "membership" -> clock < ProcessBudget
  /\ clock' = clock + 1
  /\ UNCHANGED <<reqVars, gateVars, coord, http, main, by>>

Init ==
  /\ sc \in Scenarios
  /\ req = [r \in Requests |-> "none"]
  /\ conn = {}
  /\ accepting = TRUE
  /\ inFlight = 0
  /\ notify = [registered |-> FALSE, fired |-> FALSE]
  /\ permits = [p \in {"public", "internal"} |-> IF p = "public" THEN PublicLimit ELSE ForwardLimit]
  /\ coord = "await"
  /\ http = "serving"
  /\ main = "serve"
  /\ clock = 0
  /\ by = [publish |-> 0, drain |-> 0, http |-> 0, workers |-> 0]

Handler(r) ==
  \/ Arrive(r) \/ ReadBody(r) \/ TryAcquire(r) \/ AddInFlight(r) \/ Recheck(r)
  \/ Finish(r) \/ SubInFlight(r) \/ WakeWaiter(r) \/ Disconnect(r)

Coordinator ==
  \/ BeginDraining \/ Published \/ StopHttp \/ LookIdle \/ Register \/ CheckIdle
  \/ Woken \/ DrainTimeout

Run ==
  \/ HttpStopped \/ ServeReturns \/ FinishShutdown \/ WorkersShutdown \/ MembershipShutdown

Next ==
  \/ Signal \/ Coordinator \/ ListenerFails \/ Run \/ Tick
  \/ \E r \in Requests : Handler(r)

\* Time passes and the process's own tasks run; nothing is assumed of
\* renders, clients or the signal.
Fairness == WF_vars(Coordinator) /\ WF_vars(Run) /\ WF_vars(Tick)

Spec == Init /\ [][Next]_vars /\ Fairness

----------------------------------------------------------------------------
(* Properties *)

\* drain.rs is a drain gate, although a permit is a counter and two looks at
\* a flag: a request is admitted only while the gate is open, and once
\* wait_idle has reported an idle node no request is in flight, nor ever
\* again, whatever try_acquire was in the middle of.
Gate == INSTANCE DrainGate WITH
          open <- accepting,
          holders <- {r \in Requests : req[r] \in {"render", "preview"}},
          idle <- coord = "drained"

GateSafe == Gate!Spec

\* wait_for_change loses no wakeup: the coordinator is parked only while
\* something is in flight, or the notification is on its way (drain.rs: "to
\* keep a fully-drained node from blocking for the whole timeout").
ParkedOnlyWhileBusy ==
  coord = "park" /\ ~notify.fired =>
    inFlight > 0 \/ \E r \in Requests : req[r] = "wake"

\* However long renders, clients and peers take, the process is gone within
\* its budget and the membership has its reserve of it.
StagesFit ==
  /\ Alive => clock <= ProcessBudget
  /\ main = "workers" => clock <= ProcessBudget - Reserve

\* The stages of run() fit (run.rs: "Finish application-owned work in 21
\* seconds"), and its drain waits only while requests are in flight.
ShutdownInBudget == StagesFit /\ ParkedOnlyWhileBusy

\* A process that was told to stop, or lost a listener, ends.
ShutdownEnds == []<>(~Alive \/ (coord = "await" /\ http = "serving"))
====
