-------------------------- MODULE BieiServerProofs --------------------------
(***************************************************************************)
(* Proofs about BieiServer, for any number of requests of any kind: the    *)
(* drain gate of drain.rs implements DrainGate, its waiter loses no        *)
(* wakeup, and the stages of the shutdown fit into the process budget;     *)
(* about ClusterViewCache, for any number of callers, any TTL and any      *)
(* number of gossip changes; and about RendererActor, for any number of    *)
(* slots and threads: its orphans are counted exactly.                     *)
(***************************************************************************)
EXTENDS BieiServer, ClusterViewCache, RendererActor, FiniteSetTheorems, TLAPS

USE Zenon

\* Requests between their fetch_add and their fetch_sub.
Counting == {"recheck", "render", "preview", "leave"}
Counted == {r \in Requests : req[r] \in Counting}

CoordPhases == {"await", "close", "publish", "stop", "look", "register", "check", "park",
                "drained", "late", "aborted"}

GateType ==
  /\ DOMAIN req = Requests
  /\ inFlight \in Nat
  /\ coord \in CoordPhases

\* in_flight counts the requests that hold a permit or are about to give one
\* back: the look in wait_idle cannot miss one.
CountExact == IsFiniteSet(Counted) /\ inFlight = Cardinality(Counted)

\* The coordinator looks at the count only after it has closed the gate.
ClosedFirst == coord \notin {"await", "close", "aborted"} => accepting = FALSE

\* An idle node stays idle.
DrainedIdle == coord = "drained" => \A r \in Requests : req[r] \notin {"render", "preview"}

\* A waiter is registered before it looks and parks.
RegisteredFirst ==
  /\ notify = [registered |-> notify.registered, fired |-> notify.fired]
  /\ coord \in {"check", "park"} => notify.registered = TRUE

GateInv ==
  /\ GateType /\ CountExact /\ ClosedFirst /\ DrainedIdle /\ RegisteredFirst
  /\ ParkedOnlyWhileBusy

-----------------------------------------------------------------------------

\* The phases in which a request is not counted.
LEMMA NotCounting ==
  /\ "none" \notin Counting /\ "body" \notin Counting /\ "check" \notin Counting
  /\ "add" \notin Counting /\ "wake" \notin Counting /\ "answered" \notin Counting
  BY DEF Counting

\* A request that starts or stops counting changes the cardinality by one.
LEMMA CountStep ==
  ASSUME GateType, CountExact, NEW r \in Requests, NEW pc, req' = [req EXCEPT ![r] = pc]
  PROVE  /\ (req[r] \in Counting <=> pc \in Counting) => Counted' = Counted
         /\ req[r] \notin Counting /\ pc \in Counting =>
              IsFiniteSet(Counted') /\ Cardinality(Counted') = inFlight + 1
         /\ req[r] \in Counting /\ pc \notin Counting =>
              /\ IsFiniteSet(Counted') /\ Cardinality(Counted') = inFlight - 1
              /\ inFlight > 0
<1>1. \A s \in Requests : req'[s] = IF s = r THEN pc ELSE req[s]
  BY DEF GateType
<1>2. (req[r] \in Counting <=> pc \in Counting) => Counted' = Counted
  BY <1>1 DEF Counted
<1>3. ASSUME req[r] \notin Counting, pc \in Counting
      PROVE  IsFiniteSet(Counted') /\ Cardinality(Counted') = inFlight + 1
  <2>1. Counted' = Counted \cup {r} /\ r \notin Counted
    BY <1>1, <1>3 DEF Counted
  <2> QED
    BY <2>1, FS_AddElement DEF CountExact
<1>4. ASSUME req[r] \in Counting, pc \notin Counting
      PROVE  /\ IsFiniteSet(Counted') /\ Cardinality(Counted') = inFlight - 1
             /\ inFlight > 0
  <2>1. Counted' = Counted \ {r} /\ r \in Counted
    BY <1>1, <1>4 DEF Counted
  <2>2. Cardinality(Counted) \in Nat /\ Cardinality(Counted) # 0
    BY <2>1, FS_CardinalityType, FS_EmptySet DEF CountExact
  <2> QED
    BY <2>1, <2>2, FS_RemoveElement, SMTT(30) DEF CountExact
<1> QED
  BY <1>2, <1>3, <1>4

\* A look that finds no request in flight finds no permit held.
LEMMA IdleNow ==
  ASSUME CountExact, inFlight = 0
  PROVE  \A r \in Requests : req[r] \notin {"render", "preview"}
<1>1. Counted = {}
  BY FS_EmptySet DEF CountExact
<1> QED
  BY <1>1 DEF Counted, Counting

\* The initial state of the gate.
LEMMA GateInit == Init => GateInv
<1> SUFFICES ASSUME Init PROVE GateInv
  OBVIOUS
<1>1. GateType /\ ClosedFirst /\ DrainedIdle /\ RegisteredFirst /\ ParkedOnlyWhileBusy
  BY DEF Init, GateType, ClosedFirst, DrainedIdle, RegisteredFirst, ParkedOnlyWhileBusy, CoordPhases
<1>2. Counted = {}
  BY DEF Init, Counted, Counting
<1>3. CountExact
  BY <1>2, FS_EmptySet DEF Init, CountExact
<1> QED
  BY <1>1, <1>3 DEF GateInv

\* The steps that touch neither requests nor the gate nor the coordinator.
GateIdle == UNCHANGED <<req, accepting, inFlight, notify, coord>>

\* The handlers of requests.
LEMMA HandlerStep ==
  ASSUME GateInv, NEW r \in Requests, Handler(r)
  PROVE  GateInv'
<1> USE DEF GateInv
<1>1. CASE \/ Arrive(r) \/ ReadBody(r) \/ TryAcquire(r)
  <2>1. PICK pc : req' = [req EXCEPT ![r] = pc] /\ pc \in {"body", "check", "add", "answered"}
    BY <1>1 DEF Arrive, ReadBody, TryAcquire, Goto
  <2>2. req[r] \in {"none", "body", "check"}
    BY <1>1 DEF Arrive, ReadBody, TryAcquire
  <2>3. UNCHANGED <<accepting, inFlight, notify, coord>>
    BY <1>1 DEF Arrive, ReadBody, TryAcquire, gateVars, stopVars
  <2>4. CountExact'
    BY <2>1, <2>2, <2>3, CountStep DEF CountExact, Counting
  <2>5. GateType' /\ ClosedFirst' /\ DrainedIdle' /\ RegisteredFirst'
    BY <2>1, <2>3 DEF GateType, ClosedFirst, DrainedIdle, RegisteredFirst
  <2>6. ParkedOnlyWhileBusy'
    BY <2>1, <2>2, <2>3 DEF GateType, ParkedOnlyWhileBusy
  <2> QED
    BY <2>4, <2>5, <2>6
<1>2. CASE AddInFlight(r)
  <2>1. req' = [req EXCEPT ![r] = "recheck"] /\ req[r] = "add" /\ inFlight' = inFlight + 1
    BY <1>2 DEF AddInFlight, Goto
  <2>2. UNCHANGED <<accepting, notify, coord>>
    BY <1>2 DEF AddInFlight, stopVars
  <2>3. CountExact'
    BY <2>1, CountStep DEF CountExact, Counting
  <2>4. GateType' /\ ClosedFirst' /\ DrainedIdle' /\ RegisteredFirst' /\ ParkedOnlyWhileBusy'
    BY <2>1, <2>2, SMTT(30) DEF GateType, ClosedFirst, DrainedIdle, RegisteredFirst, ParkedOnlyWhileBusy
  <2> QED
    BY <2>3, <2>4
<1>3. CASE Recheck(r)
  <2>1. PICK pc : req' = [req EXCEPT ![r] = pc] /\ pc \in {"render", "preview", "leave"}
                  /\ (pc # "leave" => accepting)
    BY <1>3 DEF Recheck, Goto
  <2>2. req[r] = "recheck" /\ UNCHANGED <<accepting, inFlight, notify, coord>>
    BY <1>3 DEF Recheck, gateVars, stopVars
  <2>3. CountExact'
    BY <2>1, <2>2, CountStep DEF CountExact, Counting
  <2>4. GateType' /\ ClosedFirst' /\ RegisteredFirst'
    BY <2>1, <2>2 DEF GateType, ClosedFirst, RegisteredFirst
  <2>5. DrainedIdle'
    BY <2>1, <2>2 DEF GateType, ClosedFirst, DrainedIdle
  <2>6. ParkedOnlyWhileBusy'
    BY <2>1, <2>2 DEF GateType, ParkedOnlyWhileBusy
  <2> QED
    BY <2>3, <2>4, <2>5, <2>6
<1>4. CASE Finish(r) \/ Disconnect(r)
  <2>1. \/ UNCHANGED req
        \/ req' = [req EXCEPT ![r] = "leave"] /\ req[r] \in {"render", "preview"}
        \/ req' = [req EXCEPT ![r] = "answered"] /\ req[r] = "body"
    BY <1>4 DEF Finish, Disconnect, Goto
  <2>2. UNCHANGED <<accepting, inFlight, notify, coord>>
    BY <1>4 DEF Finish, Disconnect, gateVars, stopVars
  <2>3. CountExact'
    <3>1. CASE UNCHANGED req
      BY <3>1, <2>2 DEF CountExact, Counted
    <3>2. CASE req' = [req EXCEPT ![r] = "leave"] /\ req[r] \in {"render", "preview"}
      BY <3>2, <2>2, CountStep DEF CountExact, Counting
    <3>3. CASE req' = [req EXCEPT ![r] = "answered"] /\ req[r] = "body"
      BY <3>3, <2>2, CountStep, NotCounting DEF CountExact
    <3> QED
      BY <2>1, <3>1, <3>2, <3>3
  <2>4. GateType' /\ ClosedFirst' /\ DrainedIdle' /\ RegisteredFirst'
    BY <2>1, <2>2 DEF GateType, ClosedFirst, DrainedIdle, RegisteredFirst
  <2>5. ParkedOnlyWhileBusy'
    BY <2>1, <2>2 DEF GateType, ParkedOnlyWhileBusy
  <2> QED
    BY <2>3, <2>4, <2>5
<1>5. CASE SubInFlight(r)
  <2>1. /\ req' = [req EXCEPT ![r] = IF inFlight = 1 THEN "wake" ELSE "answered"]
        /\ req[r] = "leave" /\ inFlight' = inFlight - 1
    BY <1>5 DEF SubInFlight, Goto
  <2>2. UNCHANGED <<accepting, notify, coord>>
    BY <1>5 DEF SubInFlight, stopVars
  <2>3. CountExact' /\ inFlight > 0
    <3>0. req[r] \in Counting
      BY <2>1 DEF Counting
    <3>1. CASE inFlight = 1
      BY <3>0, <3>1, <2>1, CountStep, NotCounting DEF CountExact
    <3>2. CASE inFlight # 1
      BY <3>0, <3>2, <2>1, CountStep, NotCounting DEF CountExact
    <3> QED
      BY <3>1, <3>2
  <2>4. GateType' /\ ClosedFirst' /\ DrainedIdle' /\ RegisteredFirst'
    BY <2>1, <2>2, <2>3, SMTT(30) DEF GateType, ClosedFirst, DrainedIdle, RegisteredFirst
  <2>5. ParkedOnlyWhileBusy'
    BY <2>1, <2>2, <2>3, SMTT(30) DEF GateType, ParkedOnlyWhileBusy
  <2> QED
    BY <2>3, <2>4, <2>5
<1>6. CASE WakeWaiter(r)
  <2>1. req' = [req EXCEPT ![r] = "answered"] /\ req[r] = "wake"
    BY <1>6 DEF WakeWaiter, Goto
  <2>2. UNCHANGED <<accepting, inFlight, coord>>
    BY <1>6 DEF WakeWaiter, stopVars
  <2>3. notify' = [registered |-> notify.registered, fired |-> notify.registered]
    BY <1>6 DEF WakeWaiter, NotifyWaiters, RegisteredFirst
  <2>4. CountExact'
    BY <2>1, <2>2, CountStep, NotCounting DEF CountExact
  <2>5. GateType' /\ ClosedFirst' /\ DrainedIdle'
    BY <2>1, <2>2 DEF GateType, ClosedFirst, DrainedIdle
  <2>6. RegisteredFirst' /\ ParkedOnlyWhileBusy'
    BY <2>2, <2>3 DEF RegisteredFirst, ParkedOnlyWhileBusy
  <2> QED
    BY <2>4, <2>5, <2>6
<1> QED
  BY <1>1, <1>2, <1>3, <1>4, <1>5, <1>6 DEF Handler

\* The coordinator's steps.
LEMMA CoordinatorStep ==
  ASSUME GateInv, Signal \/ Coordinator \/ FinishShutdown
  PROVE  GateInv'
<1> USE DEF GateInv
<1>1. UNCHANGED <<req, inFlight>>
  BY DEF Signal, Coordinator, FinishShutdown, BeginDraining, Published, StopHttp, LookIdle,
         Register, CheckIdle, Woken, DrainTimeout, reqVars, gateVars
<1>2. CountExact'
  BY <1>1 DEF CountExact, Counted
<1>3. CASE Signal \/ Published \/ StopHttp \/ Woken \/ DrainTimeout \/ FinishShutdown
  <2>1. UNCHANGED <<accepting, notify>>
    BY <1>3 DEF Signal, Published, StopHttp, Woken, DrainTimeout, FinishShutdown, gateVars
  <2>2. \/ coord = "await" /\ coord' = "close"
        \/ coord = "publish" /\ coord' = "stop"
        \/ coord = "stop" /\ coord' = "look"
        \/ coord = "park" /\ coord' \in {"register", "late"}
        \/ coord' \in {coord, "aborted"}
    BY <1>3 DEF Signal, Published, StopHttp, Woken, DrainTimeout, FinishShutdown
  <2>3. GateType' /\ ClosedFirst' /\ DrainedIdle'
    BY <1>1, <2>1, <2>2 DEF GateType, ClosedFirst, DrainedIdle, CoordPhases
  <2>4. RegisteredFirst' /\ ParkedOnlyWhileBusy'
    BY <1>1, <2>1, <2>2 DEF RegisteredFirst, ParkedOnlyWhileBusy
  <2> QED
    BY <1>2, <2>3, <2>4
<1>4. CASE BeginDraining
  <2>1. coord' \in {"publish", "stop"} /\ accepting' = FALSE
    BY <1>4 DEF BeginDraining
  <2>2. notify' = notify \/ notify' = [notify EXCEPT !.fired = notify.registered]
    BY <1>4 DEF BeginDraining, NotifyWaiters
  <2>3. GateType' /\ ClosedFirst' /\ DrainedIdle' /\ ParkedOnlyWhileBusy'
    BY <1>1, <2>1 DEF GateType, ClosedFirst, DrainedIdle, CoordPhases, ParkedOnlyWhileBusy
  <2>4. RegisteredFirst'
    BY <2>1, <2>2 DEF RegisteredFirst
  <2> QED
    BY <1>2, <2>3, <2>4
<1>5. CASE LookIdle \/ CheckIdle
  <2>1. /\ UNCHANGED <<accepting, notify>>
        /\ coord \in {"look", "check"}
        /\ \/ coord' = "drained" /\ inFlight = 0
           \/ coord' = "register"
           \/ coord = "check" /\ coord' = "park" /\ inFlight # 0
    BY <1>5 DEF LookIdle, CheckIdle, gateVars
  <2>2. DrainedIdle'
    BY <1>1, <2>1, IdleNow DEF DrainedIdle
  <2>3. GateType' /\ ClosedFirst'
    BY <1>1, <2>1 DEF GateType, ClosedFirst, CoordPhases
  <2>4. RegisteredFirst' /\ ParkedOnlyWhileBusy'
    BY <1>1, <2>1, SMTT(30) DEF GateType, RegisteredFirst, ParkedOnlyWhileBusy
  <2> QED
    BY <1>2, <2>2, <2>3, <2>4
<1>6. CASE Register
  <2>1. /\ coord = "register" /\ coord' = "check" /\ UNCHANGED accepting
        /\ notify' = [registered |-> TRUE, fired |-> FALSE]
    BY <1>6 DEF Register
  <2>2. GateType' /\ ClosedFirst' /\ DrainedIdle' /\ ParkedOnlyWhileBusy'
    BY <1>1, <2>1 DEF GateType, ClosedFirst, DrainedIdle, CoordPhases, ParkedOnlyWhileBusy
  <2>3. RegisteredFirst'
    BY <2>1 DEF RegisteredFirst
  <2> QED
    BY <1>2, <2>2, <2>3
<1> QED
  BY <1>3, <1>4, <1>5, <1>6 DEF Coordinator

\* Every step keeps the gate's invariant.
LEMMA GateStep == GateInv /\ [Next]_vars => GateInv'
<1> SUFFICES ASSUME GateInv, [Next]_vars PROVE GateInv'
  OBVIOUS
<1>1. ASSUME GateIdle PROVE GateInv'
  BY <1>1 DEF GateIdle, GateInv, GateType, CountExact, Counted, ClosedFirst, DrainedIdle,
              RegisteredFirst, ParkedOnlyWhileBusy
<1>2. CASE UNCHANGED vars
  BY <1>1, <1>2 DEF vars, GateIdle
<1>3. CASE HttpStopped \/ ServeReturns \/ WorkersShutdown \/ MembershipShutdown
           \/ ListenerFails \/ Tick
  BY <1>1, <1>3 DEF GateIdle, HttpStopped, ServeReturns, WorkersShutdown, MembershipShutdown,
                    ListenerFails, Tick, reqVars, gateVars
<1>4. CASE Signal \/ Coordinator \/ FinishShutdown
  BY <1>4, CoordinatorStep
<1>5. ASSUME NEW r \in Requests, Handler(r) PROVE GateInv'
  BY <1>5, HandlerStep
<1> QED
  BY <1>2, <1>3, <1>4, <1>5 DEF Next, Run

\* The gate's variables of DrainGate.
Holders == {r \in Requests : req[r] \in {"render", "preview"}}

\* A handler's step is an acquisition, a release or nothing to the gate.
LEMMA HandlerRefines ==
  ASSUME GateInv, NEW r \in Requests, Handler(r)
  PROVE  Gate!Next \/ UNCHANGED Gate!vars
<1>1. UNCHANGED <<accepting, coord>>
  BY DEF Handler, Arrive, ReadBody, TryAcquire, AddInFlight, Recheck, Finish, SubInFlight,
         WakeWaiter, Disconnect, gateVars, stopVars
<1>2. DOMAIN req = Requests
  BY DEF GateInv, GateType
<1>3. ASSUME NEW pc, req' = [req EXCEPT ![r] = pc], pc \notin {"render", "preview"},
             req[r] \notin {"render", "preview"}
      PROVE  UNCHANGED Gate!vars
  <2>1. Holders' = Holders
    BY <1>2, <1>3 DEF Holders
  <2> QED
    BY <2>1, <1>1 DEF Gate!vars, Holders
<1>4. ASSUME req' = [req EXCEPT ![r] = "leave"], req[r] \in {"render", "preview"}
      PROVE  Gate!Next
  <2>1. Holders' = Holders \ {r} /\ r \in Holders
    BY <1>2, <1>4 DEF Holders
  <2>2. Gate!Release(r)
    BY <2>1, <1>1 DEF Gate!Release, Holders
  <2> QED
    BY <2>2 DEF Gate!Next
<1>5. ASSUME NEW pc \in {"render", "preview"}, req' = [req EXCEPT ![r] = pc], accepting,
             req[r] = "recheck"
      PROVE  Gate!Next
  <2>1. Holders' = Holders \cup {r} /\ r \notin Holders
    BY <1>2, <1>5 DEF Holders
  <2>2. Gate!Acquire(r)
    BY <2>1, <1>1, <1>5 DEF Gate!Acquire, Holders
  <2> QED
    BY <2>2 DEF Gate!Next
<1>6. CASE UNCHANGED req
  BY <1>1, <1>6 DEF Gate!vars
<1>7. CASE Arrive(r) \/ ReadBody(r) \/ TryAcquire(r) \/ AddInFlight(r) \/ WakeWaiter(r)
  <2>1. PICK pc : /\ req' = [req EXCEPT ![r] = pc]
                  /\ pc \in {"body", "check", "add", "recheck", "answered"}
    BY <1>7 DEF Arrive, ReadBody, TryAcquire, AddInFlight, WakeWaiter, Goto
  <2>2. req[r] \in {"none", "body", "check", "add", "wake"}
    BY <1>7 DEF Arrive, ReadBody, TryAcquire, AddInFlight, WakeWaiter
  <2> QED
    BY <2>1, <2>2, <1>3
<1>8. CASE SubInFlight(r)
  <2>1. PICK pc : req' = [req EXCEPT ![r] = pc] /\ pc \in {"wake", "answered"}
    BY <1>8 DEF SubInFlight, Goto
  <2>2. req[r] = "leave"
    BY <1>8 DEF SubInFlight
  <2> QED
    BY <2>1, <2>2, <1>3
<1>9. CASE Recheck(r)
  <2>1. PICK pc : /\ req' = [req EXCEPT ![r] = pc]
                  /\ \/ accepting /\ pc \in {"render", "preview"}
                     \/ pc = "leave"
    BY <1>9 DEF Recheck, Goto
  <2>2. req[r] = "recheck"
    BY <1>9 DEF Recheck
  <2> QED
    BY <2>1, <2>2, <1>3, <1>5
<1>10. CASE Finish(r) \/ Disconnect(r)
  <2>1. \/ UNCHANGED req
        \/ req' = [req EXCEPT ![r] = "leave"] /\ req[r] \in {"render", "preview"}
        \/ req' = [req EXCEPT ![r] = "answered"] /\ req[r] = "body"
    BY <1>10 DEF Finish, Disconnect, Goto
  <2> QED
    BY <2>1, <1>3, <1>4, <1>6
<1> QED
  BY <1>7, <1>8, <1>9, <1>10 DEF Handler

\* A step of the coordinator closes the gate, reports an idle node or is
\* nothing to the gate.
LEMMA CoordinatorRefines ==
  ASSUME GateInv, Signal \/ Coordinator \/ FinishShutdown
  PROVE  Gate!Next \/ UNCHANGED Gate!vars
<1>1. UNCHANGED req
  BY DEF Signal, Coordinator, FinishShutdown, BeginDraining, Published, StopHttp, LookIdle,
         Register, CheckIdle, Woken, DrainTimeout, reqVars
<1>2. CASE BeginDraining
  <2>1. accepting' = FALSE /\ (coord = "drained") = FALSE /\ (coord' = "drained") = FALSE
    BY <1>2 DEF BeginDraining
  <2>2. Gate!Close
    BY <1>1, <2>1 DEF Gate!Close
  <2> QED
    BY <2>2 DEF Gate!Next
<1>3. CASE (LookIdle \/ CheckIdle) /\ inFlight = 0
  <2>1. UNCHANGED accepting /\ coord \in {"look", "check"} /\ coord' = "drained"
    BY <1>3 DEF LookIdle, CheckIdle, gateVars
  <2>2. accepting = FALSE
    BY <2>1 DEF GateInv, ClosedFirst
  <2>3. {r \in Requests : req[r] \in {"render", "preview"}} = {}
    BY <1>3, IdleNow DEF GateInv
  <2>4. Gate!ReportIdle
    BY <1>1, <2>1, <2>2, <2>3 DEF Gate!ReportIdle
  <2> QED
    BY <2>4 DEF Gate!Next
<1>4. CASE (LookIdle \/ CheckIdle) /\ inFlight # 0
  <2>1. UNCHANGED accepting /\ coord # "drained" /\ coord' # "drained"
    BY <1>4 DEF LookIdle, CheckIdle, gateVars
  <2> QED
    BY <1>1, <2>1 DEF Gate!vars
<1>5. CASE Signal \/ Published \/ StopHttp \/ Register \/ Woken \/ DrainTimeout
  <2>1. UNCHANGED accepting /\ coord # "drained" /\ coord' # "drained"
    BY <1>5 DEF Signal, Published, StopHttp, Register, Woken, DrainTimeout, gateVars
  <2> QED
    BY <1>1, <2>1 DEF Gate!vars
<1>6. CASE FinishShutdown
  <2>1. UNCHANGED accepting /\ (coord = "drained") = (coord' = "drained")
    BY <1>6 DEF FinishShutdown, CoordinatorDone, gateVars
  <2> QED
    BY <1>1, <2>1 DEF Gate!vars
<1> QED
  BY <1>2, <1>3, <1>4, <1>5, <1>6 DEF Coordinator

\* Every step of the process is a step of the abstract gate or leaves it alone.
LEMMA StepRefines == GateInv /\ [Next]_vars => [Gate!Next]_(Gate!vars)
<1> SUFFICES ASSUME GateInv, [Next]_vars PROVE [Gate!Next]_(Gate!vars)
  OBVIOUS
<1>1. ASSUME GateIdle PROVE UNCHANGED Gate!vars
  BY <1>1 DEF GateIdle, Gate!vars
<1>2. CASE UNCHANGED vars
  BY <1>1, <1>2 DEF vars, GateIdle
<1>3. CASE HttpStopped \/ ServeReturns \/ WorkersShutdown \/ MembershipShutdown
           \/ ListenerFails \/ Tick
  BY <1>1, <1>3 DEF GateIdle, HttpStopped, ServeReturns, WorkersShutdown, MembershipShutdown,
                    ListenerFails, Tick, reqVars, gateVars
<1>4. CASE Signal \/ Coordinator \/ FinishShutdown
  BY <1>4, CoordinatorRefines
<1>5. ASSUME NEW r \in Requests, Handler(r) PROVE [Gate!Next]_(Gate!vars)
  BY <1>5, HandlerRefines
<1> QED
  BY <1>2, <1>3, <1>4, <1>5 DEF Next, Run

\* The gate's invariant holds in every reachable state.
THEOREM GateInvariance == Spec => []GateInv
  BY GateInit, GateStep, PTL DEF Spec

\* drain.rs implements the abstract drain gate, for any number of requests:
\* the two looks of try_acquire around a counter admit no request once the
\* gate is closed and an idle node was reported.
THEOREM DrainImplementsGate == Spec => GateSafe
<1>1. Init => Gate!Init
  BY DEF Init, Gate!Init
<1> QED
  BY <1>1, StepRefines, GateInvariance, PTL DEF Spec, GateSafe, Gate!Spec

\* wait_for_change loses no wakeup: the coordinator is parked unnotified only
\* while a request is counted, or the one that left last is about to notify.
THEOREM DrainWaitsWhileBusy == Spec => []ParkedOnlyWhileBusy
<1>1. GateInv => ParkedOnlyWhileBusy
  BY DEF GateInv
<1> QED
  BY <1>1, GateInvariance, PTL

-----------------------------------------------------------------------------
(* The shutdown budget.                                                    *)

TimeType ==
  /\ clock \in Nat
  /\ by \in [publish : Int, drain : Int, http : Int, workers : Int]
  /\ coord \in CoordPhases

\* How far the clock can be at each stage of the coordinator.
CoordinatorOnTime ==
  /\ coord \in {"await", "close"} => clock = 0
  /\ coord = "publish" => clock <= by.publish /\ by.publish <= PublishTimeout
  /\ coord = "stop" => clock <= PublishTimeout
  /\ coord \in {"look", "register", "check", "park"} =>
       clock <= by.drain /\ by.drain <= PublishTimeout + DrainGrace

\* And of the listeners and run().
RunOnTime ==
  /\ http = "stopping" => clock <= by.http /\ by.http <= PublishTimeout + HttpGrace
  /\ main \in {"serve", "finish"} => clock <= ProcessBudget - Reserve
  /\ main = "workers" => clock <= by.workers /\ by.workers <= ProcessBudget - Reserve
  /\ main = "membership" => clock <= ProcessBudget

\* The listeners serve until the coordinator stops them, and run() goes on
\* only once the coordinator has ended.
StagesInOrder ==
  /\ main \in {"serve", "finish", "workers", "membership", "exited"}
  /\ main = "serve" /\ http = "serving" => coord \in {"await", "close", "publish", "stop"}
  /\ main \in {"serve", "finish"} => coord # "aborted"
  /\ main \in {"workers", "membership", "exited"} => coord \in {"drained", "late", "aborted"}

BudgetInv == TimeType /\ CoordinatorOnTime /\ RunOnTime /\ StagesInOrder

\* A second passes only where a timer still has one.
LEMMA TickStep ==
  ASSUME TimeoutsFit, BudgetInv, Tick
  PROVE  BudgetInv'
<1> USE DEF BudgetInv, TimeType, TimeoutsFit
<1>1. /\ UNCHANGED <<coord, http, main, by>> /\ clock' = clock + 1
      /\ main # "exited"
      /\ coord \in {"await", "publish", "park", "drained", "late", "aborted"}
      /\ coord = "publish" => clock < by.publish
      /\ coord = "park" => clock < by.drain
      /\ coord # "await" \/ main # "serve"
      /\ http = "stopping" => clock < by.http
    BY DEF Tick, Alive
<1>2. /\ main = "serve" => http \in {"serving", "stopping"}
      /\ main = "finish" => ~CoordinatorDone /\ coord # "await"
      /\ main = "workers" => clock < by.workers
      /\ main = "membership" => clock < ProcessBudget
  BY DEF Tick
<1>3. TimeType' /\ StagesInOrder'
  BY <1>1, SMTT(30) DEF StagesInOrder
<1>4. coord # "await"
  BY <1>1, <1>2 DEF StagesInOrder
<1>5. CoordinatorOnTime'
  BY <1>1, <1>4, SMTT(30) DEF CoordinatorOnTime
<1>6. main = "serve" => clock < ProcessBudget - Reserve
  <2> SUFFICES ASSUME main = "serve" PROVE clock < ProcessBudget - Reserve
    OBVIOUS
  <2>1. CASE http = "stopping"
    BY <2>1, <1>1, SMTT(30) DEF RunOnTime
  <2>2. CASE http = "serving"
    <3>1. coord = "publish"
      BY <2>2, <1>1, <1>4 DEF StagesInOrder
    <3> QED
      BY <3>1, <1>1, SMTT(30) DEF CoordinatorOnTime
  <2> QED
    BY <2>1, <2>2, <1>2
<1>7. main = "finish" => clock < ProcessBudget - Reserve
  <2> SUFFICES ASSUME main = "finish" PROVE clock < ProcessBudget - Reserve
    OBVIOUS
  <2>1. coord \in {"publish", "park"}
    BY <1>1, <1>2 DEF StagesInOrder, CoordinatorDone
  <2> QED
    BY <2>1, <1>1, SMTT(30) DEF CoordinatorOnTime
<1>8. RunOnTime'
  BY <1>1, <1>2, <1>6, <1>7, SMTT(30) DEF RunOnTime
<1> QED
  BY <1>3, <1>5, <1>8

\* The coordinator's deadlines are set from a clock that is early enough.
LEMMA CoordinatorInTime ==
  ASSUME TimeoutsFit, BudgetInv, Signal \/ Coordinator
  PROVE  BudgetInv'
<1> USE DEF BudgetInv, TimeType, TimeoutsFit
<1>1. UNCHANGED <<clock, main>> /\ main # "exited"
  BY DEF Signal, Coordinator, BeginDraining, Published, StopHttp, LookIdle, Register, CheckIdle,
         Woken, DrainTimeout, Alive
<1>2. CASE BeginDraining
  <2>1. /\ coord = "close" /\ coord' \in {"publish", "stop"} /\ UNCHANGED http
        /\ by' = [by EXCEPT !.publish = Least(ProcessBudget, clock + PublishTimeout)]
    BY <1>2 DEF BeginDraining
  <2>2. clock = 0
    BY <2>1 DEF CoordinatorOnTime
  <2>3. /\ Least(ProcessBudget, clock + PublishTimeout) = PublishTimeout
        /\ by'.publish = PublishTimeout /\ by'.http = by.http /\ by'.workers = by.workers
    BY <2>1, <2>2, SMTT(30) DEF Least
  <2>4. TimeType' /\ CoordinatorOnTime'
    BY <1>1, <2>1, <2>2, <2>3, SMTT(30) DEF CoordinatorOnTime, CoordPhases
  <2>5. RunOnTime'
    BY <1>1, <2>1, <2>3 DEF RunOnTime
  <2>6. StagesInOrder'
    BY <1>1, <2>1 DEF StagesInOrder
  <2> QED
    BY <2>4, <2>5, <2>6
<1>3. CASE StopHttp
  <2>1. /\ coord = "stop" /\ coord' = "look"
        /\ http' = IF http = "serving" THEN "stopping" ELSE http
        /\ by' = [by EXCEPT !.http = HttpDeadline, !.drain = Least(ProcessBudget, clock + DrainGrace)]
    BY <1>3 DEF StopHttp
  <2>2. clock <= PublishTimeout
    BY <2>1 DEF CoordinatorOnTime
  <2>3. /\ HttpDeadline \in Int /\ clock <= HttpDeadline
        /\ HttpDeadline <= PublishTimeout + HttpGrace
    BY <2>2, SMTT(30) DEF HttpDeadline, Least
  <2>4. /\ Least(ProcessBudget, clock + DrainGrace) \in Int
        /\ clock <= Least(ProcessBudget, clock + DrainGrace)
        /\ Least(ProcessBudget, clock + DrainGrace) <= PublishTimeout + DrainGrace
    BY <2>2, SMTT(30) DEF Least
  <2>5. /\ by'.http = HttpDeadline /\ by'.drain = Least(ProcessBudget, clock + DrainGrace)
        /\ by'.workers = by.workers
        /\ by' \in [publish : Int, drain : Int, http : Int, workers : Int]
    BY <2>1, <2>3, <2>4
  <2>6. TimeType' /\ CoordinatorOnTime'
    BY <1>1, <2>1, <2>4, <2>5 DEF CoordinatorOnTime, CoordPhases
  <2>7. RunOnTime'
    BY <1>1, <2>1, <2>3, <2>5 DEF RunOnTime
  <2>8. StagesInOrder'
    BY <1>1, <2>1 DEF StagesInOrder
  <2> QED
    BY <2>6, <2>7, <2>8
<1>4. CASE Signal \/ Published \/ LookIdle \/ Register \/ CheckIdle \/ Woken \/ DrainTimeout
  <2>1. UNCHANGED <<http, by>>
    BY <1>4 DEF Signal, Published, LookIdle, Register, CheckIdle, Woken, DrainTimeout
  <2>2. \/ coord = "await" /\ coord' = "close"
        \/ coord = "publish" /\ coord' = "stop"
        \/ /\ coord \in {"look", "register", "check", "park"}
           /\ coord' \in {"register", "check", "park", "drained", "late"}
    BY <1>4 DEF Signal, Published, LookIdle, Register, CheckIdle, Woken, DrainTimeout
  <2>3. TimeType' /\ CoordinatorOnTime'
    BY <1>1, <2>1, <2>2, SMTT(30) DEF CoordinatorOnTime, CoordPhases
  <2>4. RunOnTime'
    BY <1>1, <2>1 DEF RunOnTime
  <2>5. StagesInOrder'
    BY <1>1, <2>1, <2>2 DEF StagesInOrder
  <2> QED
    BY <2>3, <2>4, <2>5
<1> QED
  BY <1>2, <1>3, <1>4 DEF Coordinator

\* The listeners and the stages of run().
LEMMA RunInTime ==
  ASSUME TimeoutsFit, BudgetInv, Run \/ ListenerFails
  PROVE  BudgetInv'
<1> USE DEF BudgetInv, TimeType, TimeoutsFit
<1>1. UNCHANGED clock
  BY DEF Run, HttpStopped, ServeReturns, FinishShutdown, WorkersShutdown, MembershipShutdown,
         ListenerFails
<1>2. CASE HttpStopped \/ ListenerFails \/ ServeReturns
  <2>1. /\ UNCHANGED <<coord, by>>
        /\ \/ http' \in {"stopped", "failed"} /\ UNCHANGED main
           \/ UNCHANGED http /\ http # "serving" /\ main = "serve" /\ main' = "finish"
    BY <1>2 DEF HttpStopped, ListenerFails, ServeReturns
  <2>2. TimeType' /\ CoordinatorOnTime'
    BY <1>1, <2>1 DEF CoordinatorOnTime
  <2>3. RunOnTime'
    BY <1>1, <2>1 DEF RunOnTime
  <2>4. StagesInOrder'
    BY <2>1 DEF StagesInOrder
  <2> QED
    BY <2>2, <2>3, <2>4
<1>3. CASE FinishShutdown
  <2>1. /\ main = "finish" /\ main' = "workers" /\ UNCHANGED http
        /\ coord' \in {"drained", "late", "aborted"}
        /\ by' = [by EXCEPT !.workers = WorkerShutdownDeadline]
    BY <1>3 DEF FinishShutdown, CoordinatorDone
  <2>2. clock <= ProcessBudget - Reserve
    BY <2>1 DEF RunOnTime
  <2>3. /\ WorkerShutdownDeadline \in Int /\ clock <= WorkerShutdownDeadline
        /\ WorkerShutdownDeadline <= ProcessBudget - Reserve
    BY <2>2, SMTT(30) DEF WorkerShutdownDeadline, Least
  <2>4. /\ by'.workers = WorkerShutdownDeadline /\ by'.http = by.http
        /\ by' \in [publish : Int, drain : Int, http : Int, workers : Int]
    BY <2>1, <2>3
  <2>5. TimeType' /\ CoordinatorOnTime'
    BY <1>1, <2>1, <2>4 DEF CoordinatorOnTime, CoordPhases
  <2>6. RunOnTime'
    BY <1>1, <2>1, <2>3, <2>4 DEF RunOnTime
  <2>7. StagesInOrder'
    BY <2>1 DEF StagesInOrder
  <2> QED
    BY <2>5, <2>6, <2>7
<1>4. CASE WorkersShutdown \/ MembershipShutdown
  <2>1. /\ UNCHANGED <<coord, http, by>>
        /\ \/ main = "workers" /\ main' \in {"membership", "exited"}
           \/ main = "membership" /\ main' = "exited"
    BY <1>4 DEF WorkersShutdown, MembershipShutdown
  <2>2. TimeType' /\ CoordinatorOnTime'
    BY <1>1, <2>1 DEF CoordinatorOnTime
  <2>3. RunOnTime'
    BY <1>1, <2>1, SMTT(30) DEF RunOnTime
  <2>4. StagesInOrder'
    BY <2>1 DEF StagesInOrder
  <2> QED
    BY <2>2, <2>3, <2>4
<1> QED
  BY <1>2, <1>3, <1>4 DEF Run

\* However long renders, clients and peers take, the process is gone within
\* its budget and the membership has its reserve of it (finish_shutdown), and
\* the drain waits only while requests are in flight, for any timeouts that fit.
THEOREM ShutdownFits == Spec => []ShutdownInBudget
<1> USE TimeoutsAssumption
<1>1. Init => BudgetInv
  BY SMTT(30) DEF Init, BudgetInv, TimeType, CoordinatorOnTime, RunOnTime, StagesInOrder, CoordPhases,
         TimeoutsFit
<1>2. BudgetInv /\ [Next]_vars => BudgetInv'
  <2> SUFFICES ASSUME BudgetInv, [Next]_vars PROVE BudgetInv'
    OBVIOUS
  <2>1. ASSUME UNCHANGED <<coord, http, main, clock, by>> PROVE BudgetInv'
    BY <2>1, ZenonT(30) DEF BudgetInv, TimeType, CoordinatorOnTime, RunOnTime, StagesInOrder
  <2>2. CASE UNCHANGED vars
    BY <2>1, <2>2 DEF vars
  <2>3. ASSUME NEW r \in Requests, Handler(r) PROVE BudgetInv'
    BY <2>1, <2>3 DEF Handler, Arrive, ReadBody, TryAcquire, AddInFlight, Recheck, Finish,
                      SubInFlight, WakeWaiter, Disconnect, stopVars
  <2> QED
    BY <2>2, <2>3, TickStep, CoordinatorInTime, RunInTime DEF Next
<1>3. BudgetInv => StagesFit
  BY SMTT(30) DEF BudgetInv, TimeType, RunOnTime, StagesInOrder, StagesFit, Alive, TimeoutsFit
<1> QED
  BY <1>1, <1>2, <1>3, DrainWaitsWhileBusy, PTL DEF Spec, ShutdownInBudget

-----------------------------------------------------------------------------
(* The cluster view cache.                                                 *)

LoadPhases == {"begin", "load", "verify", "complete"}
EndPhases == {"announce", "retry", "dropped"}
ViewPhases == {"idle", "look", "lock", "wait", "done"} \cup LoadPhases \cup EndPhases

CallerType == [pc : ViewPhases, start : Nat, label : Nat, view : Int, age : Nat, changed : BOOLEAN]

ViewTyped ==
  /\ epoch \in Nat
  /\ cached \in [epoch : Int, view : Int, age : Nat]
  /\ loading \in BOOLEAN
  /\ caller \in [Callers -> CallerType]

\* Epochs a caller has read are in the past, a view is loaded after its label
\* is read, and the label after the call began.
LabelledBefore ==
  /\ cached.epoch <= cached.view
  /\ \A c \in Callers :
       /\ caller[c].start <= epoch /\ caller[c].label <= epoch
       /\ caller[c].pc \in {"load", "verify", "complete", "announce"} =>
            caller[c].start <= caller[c].label
       /\ caller[c].pc \in {"verify", "complete", "announce"} =>
            caller[c].label <= caller[c].view

\* At most one caller loads, and the flag says whether one does.
OneLoader ==
  /\ \A c, d \in Callers :
       caller[c].pc \in LoadPhases /\ caller[d].pc \in LoadPhases => c = d
  /\ loading <=> \E c \in Callers : caller[c].pc \in LoadPhases

\* A waiter has seen a change, or a load is going on or about to be announced.
WaiterNotified ==
  \A c \in Callers :
    caller[c].pc = "wait" /\ ~caller[c].changed =>
      \E d \in Callers : caller[d].pc \in LoadPhases \cup EndPhases

ViewInv == ViewTyped /\ LabelledBefore /\ OneLoader /\ WaiterNotified /\ ViewCurrent

-----------------------------------------------------------------------------

\* The phases by name.
LEMMA PhaseNames ==
  /\ "idle" \in ViewPhases /\ "look" \in ViewPhases /\ "lock" \in ViewPhases /\ "wait" \in ViewPhases
  /\ "done" \in ViewPhases /\ "begin" \in ViewPhases /\ "load" \in ViewPhases
  /\ "verify" \in ViewPhases /\ "complete" \in ViewPhases /\ "announce" \in ViewPhases
  /\ "retry" \in ViewPhases /\ "dropped" \in ViewPhases
  BY DEF ViewPhases, LoadPhases, EndPhases

\* The records that steps leave a caller with.
LEMMA IdleType == Idle \in CallerType
  BY PhaseNames, SMTT(30) DEF Idle, CallerType

LEMMA CallerTypes ==
  ASSUME NEW r \in CallerType, NEW pc \in ViewPhases, NEW n \in Nat, NEW v \in Int
  PROVE  /\ [r EXCEPT !.pc = pc] \in CallerType
         /\ [r EXCEPT !.changed = TRUE] \in CallerType
         /\ [r EXCEPT !.pc = pc, !.changed = FALSE] \in CallerType
         /\ [r EXCEPT !.pc = pc, !.label = n] \in CallerType
         /\ [r EXCEPT !.pc = pc, !.view = v] \in CallerType
         /\ [r EXCEPT !.pc = pc, !.start = n] \in CallerType
         /\ [r EXCEPT !.pc = pc, !.start = n, !.view = v] \in CallerType
  BY DEF CallerType

LEMMA ReturnType ==
  ASSUME NEW n \in Nat, NEW v \in Int, NEW g \in Nat
  PROVE  [Idle EXCEPT !.pc = "done", !.start = n, !.view = v, !.age = g] \in CallerType
<1> HIDE DEF Idle
<1> QED
  BY IdleType, PhaseNames DEF CallerType

\* The initial state: nothing is cached and nobody calls.
LEMMA InvInit == Ttl \in Nat \ {0} /\ ViewInit => ViewInv
<1> SUFFICES ASSUME Ttl \in Nat \ {0}, ViewInit PROVE ViewInv
  OBVIOUS
<1>1. ViewTyped
  <2>1. Nothing \in [epoch : Int, view : Int, age : Nat]
    BY SMTT(30) DEF Nothing, MaxAge
  <2> QED
    BY <2>1, IdleType DEF ViewInit, ViewTyped
<1> USE DEF ViewInit, Idle, Nothing, MaxAge
<1>2. LabelledBefore
  BY SMTT(30) DEF LabelledBefore
<1>3. OneLoader
  BY DEF OneLoader, LoadPhases
<1>4. WaiterNotified /\ ViewCurrent
  BY DEF WaiterNotified, ViewCurrent
<1> QED
  BY <1>1, <1>2, <1>3, <1>4 DEF ViewInv

\* What is returned from the cache is of the current epoch and young enough.
LEMMA UsableSound ==
  ASSUME Ttl \in Nat \ {0}, ViewTyped, LabelledBefore, Usable
  PROVE  cached.view >= epoch /\ cached.age < MaxAge
  BY SMTT(30) DEF ViewTyped, LabelledBefore, Usable, MaxAge

\* Every step keeps the types.
LEMMA TypeStep ==
  ASSUME ViewTyped, [ViewNext]_viewVars PROVE ViewTyped'
<1> DEFINE All == [Callers -> CallerType]
<1>a. ASSUME NEW c \in Callers, NEW r \in CallerType PROVE [caller EXCEPT ![c] = r] \in All
  BY DEF ViewTyped
<1>b. /\ epoch \in Nat /\ cached.view \in Int /\ cached.age \in Nat
      /\ cached \in [epoch : Int, view : Int, age : Nat]
  BY DEF ViewTyped
<1>c. ASSUME NEW c \in Callers
      PROVE  caller[c] \in CallerType /\ caller[c].start \in Nat /\ caller[c].label \in Nat
             /\ caller[c].view \in Int
  BY DEF ViewTyped, CallerType
<1>d. ASSUME NEW c \in Callers, NEW pc \in ViewPhases PROVE [caller EXCEPT ![c].pc = pc] \in All
  <2>1. [caller[c] EXCEPT !.pc = pc] \in CallerType
    BY <1>c, CallerTypes
  <2> QED
    BY <2>1, <1>a
<1> HIDE DEF All
<1>t. ASSUME caller' \in All, epoch' \in Nat, loading' \in BOOLEAN,
             cached' \in [epoch : Int, view : Int, age : Nat]
      PROVE  ViewTyped'
  BY <1>t DEF All, ViewTyped
<1>u. loading \in BOOLEAN /\ caller \in All
  BY DEF ViewTyped, All
<1>1. CASE UNCHANGED viewVars
  BY <1>1 DEF viewVars, ViewTyped
<1>2. CASE GossipChanges
  BY <1>2, <1>b, <1>t, <1>u, SMTT(30) DEF GossipChanges
<1>3. CASE Age
  BY <1>3, <1>b, <1>t, <1>u, SMTT(30) DEF Age
<1>4. ASSUME NEW c \in Callers, Start(c) PROVE ViewTyped'
  <2>1. [Idle EXCEPT !.pc = "look", !.start = epoch] \in CallerType
    BY <1>b, PhaseNames, IdleType, CallerTypes
  <2> QED
    BY <2>1, <1>4, <1>a, <1>b, <1>t, <1>u DEF Start
<1>5. ASSUME NEW c \in Callers, Return(c, cached.view, cached.age) PROVE caller' \in All
  BY <1>5, <1>a, <1>b, <1>c, ReturnType DEF Return
<1>6. ASSUME NEW c \in Callers, Look(c) PROVE ViewTyped'
  <2>1. [caller[c] EXCEPT !.pc = "lock", !.changed = FALSE] \in CallerType
    BY <1>c, PhaseNames, CallerTypes
  <2>2. caller' \in All
    <3>1. CASE Return(c, cached.view, cached.age)
      BY <3>1, <1>5
    <3>2. CASE caller' = [caller EXCEPT ![c].pc = "lock", ![c].changed = FALSE]
      BY <3>2, <2>1, <1>a
    <3> QED
      BY <3>1, <3>2, <1>6, Zenon DEF Look
  <2> QED
    BY <2>2, <1>6, <1>b, <1>t, <1>u DEF Look
<1>7. ASSUME NEW c \in Callers, Elect(c) PROVE ViewTyped'
  <2>1. "wait" \in ViewPhases /\ "begin" \in ViewPhases
    BY PhaseNames
  <2>2. caller' \in All
    BY <1>d, <1>5, <1>7, <2>1, Zenon DEF Elect, MoveTo
  <2> QED
    BY <2>2, <1>7, <1>b, <1>t, <1>u DEF Elect
<1>8. ASSUME NEW c \in Callers, BeginLoad(c) PROVE ViewTyped'
  <2>1. [caller[c] EXCEPT !.pc = "load", !.label = epoch] \in CallerType
    BY <1>c, <1>b, PhaseNames, CallerTypes
  <2> QED
    BY <2>1, <1>8, <1>a, <1>b, <1>t, <1>u, ZenonT(30) DEF BeginLoad
<1>9. ASSUME NEW c \in Callers, ViewLoaded(c) PROVE ViewTyped'
  <2>0. epoch \in Int
    BY <1>b, SMTT(30)
  <2>1. [caller[c] EXCEPT !.pc = "verify", !.view = epoch] \in CallerType
    BY <2>0, <1>c, PhaseNames, CallerTypes
  <2> QED
    BY <2>1, <1>9, <1>a, <1>b, <1>t, <1>u, ZenonT(30) DEF ViewLoaded
<1>10. ASSUME NEW c \in Callers, LoadAbandoned(c) \/ Verify(c) \/ Wake(c) PROVE ViewTyped'
  <2>1. caller' \in All
    BY <1>d, <1>10, PhaseNames, Zenon DEF LoadAbandoned, Verify, Wake, MoveTo
  <2> QED
    BY <2>1, <1>10, <1>b, <1>t, <1>u DEF LoadAbandoned, Verify, Wake
<1>11. ASSUME NEW c \in Callers, Complete(c) PROVE ViewTyped'
  <2>1. caller' \in All
    BY <1>d, <1>11, PhaseNames, Zenon DEF Complete, MoveTo
  <2>2. cached' \in [epoch : Int, view : Int, age : Nat]
    BY <1>11, <1>c, SMTT(30) DEF Complete
  <2> QED
    BY <2>1, <2>2, <1>11, <1>b, <1>t DEF Complete
<1>12. ASSUME NEW c \in Callers, WaitAbandoned(c) PROVE ViewTyped'
  BY IdleType, <1>12, <1>a, <1>b, <1>t, <1>u DEF WaitAbandoned
<1>13. ASSUME NEW c \in Callers, Announce(c) PROVE ViewTyped'
  <2>1. ASSUME NEW r \in CallerType, Changed(c, r) PROVE caller' \in All
    <3>1. \A d \in Callers : [caller[d] EXCEPT !.changed = TRUE] \in CallerType
      BY <1>c DEF CallerType
    <3> QED
      BY <3>1, <2>1 DEF Changed, All
  <2>2. [caller[c] EXCEPT !.pc = "look"] \in CallerType
    BY <1>c, PhaseNames, CallerTypes
  <2>3. [Idle EXCEPT !.pc = "done", !.start = caller[c].start, !.view = caller[c].view]
          \in CallerType
    BY <1>c, PhaseNames, IdleType, CallerTypes
  <2>4. caller' \in All
    BY <2>1, <2>2, <2>3, <1>13, IdleType DEF Announce
  <2> QED
    BY <2>4, <1>13, <1>b, <1>t, <1>u DEF Announce
<1> QED
  BY <1>1, <1>2, <1>3, <1>4, <1>6, <1>7, <1>8, <1>9, <1>10, <1>11, <1>12, <1>13, ZenonT(30) DEF ViewNext, Proceed

\* A returning caller: only its own record changes.
LEMMA ReturnEffect ==
  ASSUME ViewTyped, NEW c \in Callers, NEW v \in Int, NEW g \in Nat, Return(c, v, g)
  PROVE  /\ caller'[c].pc = "done" /\ caller'[c].start = caller[c].start
         /\ caller'[c].label = 0 /\ caller'[c].view = v /\ caller'[c].age = g
         /\ \A d \in Callers \ {c} : caller'[d] = caller[d]
  BY DEF ViewTyped, Return, Idle

\* A call that begins or is given up: only its own record changes.
LEMMA ResetEffect ==
  ASSUME ViewTyped, NEW c \in Callers, Start(c) \/ WaitAbandoned(c)
  PROVE  /\ caller'[c].pc \in {"look", "idle"}
         /\ \A d \in Callers \ {c} : caller'[d] = caller[d]
<1>1. CASE Start(c)
  BY <1>1 DEF ViewTyped, Start, Idle
<1>2. CASE WaitAbandoned(c)
  BY <1>2 DEF ViewTyped, WaitAbandoned, Idle
<1> QED
  BY <1>1, <1>2

\* A first look that does not find a usable view only subscribes.
LEMMA LookEffect ==
  ASSUME ViewTyped, NEW c \in Callers, Look(c)
  PROVE  /\ caller[c].pc = "look" /\ caller'[c].pc \in {"done", "lock"}
         /\ \A d \in Callers \ {c} : caller'[d] = caller[d]
<1>1. CASE Return(c, cached.view, cached.age)
  <2>1. cached.view \in Int /\ cached.age \in Nat
    BY DEF ViewTyped
  <2> QED
    BY <1>1, <2>1, ReturnEffect DEF Look
<1>2. CASE caller' = [caller EXCEPT ![c].pc = "lock", ![c].changed = FALSE]
  <2>1. caller'[c] = [caller[c] EXCEPT !.pc = "lock", !.changed = FALSE]
    BY <1>2 DEF ViewTyped
  <2>2. caller'[c].pc = "lock"
    BY <2>1 DEF ViewTyped, CallerType
  <2> QED
    BY <1>2, <2>2 DEF ViewTyped, Look
<1> QED
  BY <1>1, <1>2 DEF Look

\* An announced end of a load: the others only see a change.
LEMMA AnnounceEffect ==
  ASSUME ViewTyped, NEW c \in Callers, Announce(c)
  PROVE  /\ caller[c].pc = "announce" =>
              /\ caller'[c].pc = "done" /\ caller'[c].start = caller[c].start
              /\ caller'[c].label = 0 /\ caller'[c].age = 0
              /\ caller'[c].view = caller[c].view
         /\ caller[c].pc = "retry" =>
              /\ caller'[c].pc = "look" /\ caller'[c].start = caller[c].start
              /\ caller'[c].label = caller[c].label
         /\ caller[c].pc = "dropped" => caller'[c] = Idle
         /\ caller'[c].pc \in {"done", "look", "idle"}
         /\ \A d \in Callers \ {c} :
              /\ caller'[d].pc = caller[d].pc /\ caller'[d].start = caller[d].start
              /\ caller'[d].label = caller[d].label /\ caller'[d].view = caller[d].view
              /\ caller'[d].age = caller[d].age /\ caller'[d].changed
<1>1. ASSUME NEW r, Changed(c, r)
      PROVE  /\ caller'[c] = r
             /\ \A d \in Callers \ {c} : caller'[d] = [caller[d] EXCEPT !.changed = TRUE]
  BY <1>1 DEF Changed
<1>2. PICK r : Changed(c, r)
  BY DEF Announce
<1>3. \A d \in Callers \ {c} :
        /\ caller'[d].pc = caller[d].pc /\ caller'[d].start = caller[d].start
        /\ caller'[d].label = caller[d].label /\ caller'[d].view = caller[d].view
        /\ caller'[d].age = caller[d].age /\ caller'[d].changed
  <2> TAKE d \in Callers \ {c}
  <2>1. caller'[d] = [caller[d] EXCEPT !.changed = TRUE] /\ caller[d] \in CallerType
    BY <1>1, <1>2 DEF ViewTyped
  <2>2. caller'[d].changed = TRUE
    BY <2>1 DEF CallerType
  <2> QED
    BY <2>1, <2>2, ZenonT(30) DEF CallerType
<1>4. CASE caller[c].pc = "announce"
  <2>1. caller'[c] = [Idle EXCEPT !.pc = "done", !.start = caller[c].start, !.view = caller[c].view]
    BY <1>1, <1>4 DEF Announce
  <2> QED
    BY <2>1, <1>3, <1>4, SMTT(30) DEF Idle
<1>5. CASE caller[c].pc = "retry"
  <2>1. caller'[c] = [caller[c] EXCEPT !.pc = "look"]
    BY <1>1, <1>5 DEF Announce
  <2> QED
    BY <2>1, <1>3, <1>5, SMTT(30) DEF ViewTyped, CallerType
<1>6. CASE caller[c].pc = "dropped"
  <2>1. caller'[c] = Idle
    BY <1>1, <1>6 DEF Announce
  <2> QED
    BY <2>1, <1>3, <1>6, SMTT(30) DEF Idle
<1> QED
  BY <1>4, <1>5, <1>6 DEF Announce

\* Labels stay older than views, and answers no older than calls.
LEMMA LabelStep ==
  ASSUME Ttl \in Nat \ {0}, ViewTyped, LabelledBefore, ViewCurrent, [ViewNext]_viewVars
  PROVE  LabelledBefore' /\ ViewCurrent'
<1> USE DEF LabelledBefore, ViewCurrent, ViewTyped, CallerType
<1>1. CASE UNCHANGED viewVars
  BY <1>1 DEF viewVars
<1>2. CASE GossipChanges
  BY <1>2, SMTT(30) DEF GossipChanges
<1>3. CASE Age
  BY <1>3 DEF Age
<1>4. ASSUME NEW c \in Callers, Start(c) PROVE LabelledBefore' /\ ViewCurrent'
  BY <1>4, SMTT(30) DEF Start, Idle
<1>5. ASSUME NEW c \in Callers, Usable, Return(c, cached.view, cached.age), UNCHANGED <<epoch, cached>>
      PROVE  LabelledBefore' /\ ViewCurrent'
  BY <1>5, UsableSound, ReturnEffect, SMTT(30)
<1>6. ASSUME NEW c \in Callers, Look(c) PROVE LabelledBefore' /\ ViewCurrent'
  BY <1>5, <1>6, SMTT(30) DEF Look
<1>7. ASSUME NEW c \in Callers, Elect(c) PROVE LabelledBefore' /\ ViewCurrent'
  BY <1>5, <1>7, SMTT(30) DEF Elect, MoveTo
<1>8. ASSUME NEW c \in Callers, BeginLoad(c) PROVE LabelledBefore' /\ ViewCurrent'
  BY <1>8, SMTT(30) DEF BeginLoad
<1>9. ASSUME NEW c \in Callers, ViewLoaded(c) PROVE LabelledBefore' /\ ViewCurrent'
  BY <1>9, ZenonT(30) DEF ViewLoaded
<1>10. ASSUME NEW c \in Callers, LoadAbandoned(c) \/ Wake(c) PROVE LabelledBefore' /\ ViewCurrent'
  BY <1>10, SMTT(30) DEF LoadAbandoned, Wake, MoveTo
<1>11. ASSUME NEW c \in Callers, Verify(c) PROVE LabelledBefore' /\ ViewCurrent'
  BY <1>11, SMTT(30) DEF Verify, MoveTo
<1>12. ASSUME NEW c \in Callers, Complete(c) PROVE LabelledBefore' /\ ViewCurrent'
  BY <1>12, ZenonT(30) DEF Complete, MoveTo
<1>13. ASSUME NEW c \in Callers, WaitAbandoned(c) PROVE LabelledBefore' /\ ViewCurrent'
  BY <1>13, SMTT(30) DEF WaitAbandoned, Idle
<1>14. ASSUME NEW c \in Callers, Announce(c) PROVE LabelledBefore' /\ ViewCurrent'
  <2>1. /\ caller'[c].pc = "done" =>
             caller'[c].view >= caller'[c].start /\ caller'[c].age < MaxAge
        /\ caller'[c].pc \in {"done", "look", "idle"}
        /\ caller'[c].start <= epoch /\ caller'[c].label <= epoch
    <3>1. CASE caller[c].pc = "announce"
      BY <3>1, <1>14, AnnounceEffect, SMTT(30) DEF MaxAge
    <3>2. CASE caller[c].pc = "retry"
      BY <3>2, <1>14, AnnounceEffect
    <3>3. CASE caller[c].pc = "dropped"
      BY <3>3, <1>14, AnnounceEffect, SMTT(30) DEF Idle
    <3> QED
      BY <3>1, <3>2, <3>3, <1>14 DEF Announce
  <2> QED
    BY <2>1, <1>14, AnnounceEffect, ZenonT(30) DEF Announce
<1> QED
  BY <1>1, <1>2, <1>3, <1>4, <1>6, <1>7, <1>8, <1>9, <1>10, <1>11, <1>12, <1>13, <1>14, ZenonT(30)
     DEF ViewNext, Proceed

\* The election and the ends of a load keep one loader.
LEMMA LoaderStep ==
  ASSUME ViewTyped, OneLoader, [ViewNext]_viewVars
  PROVE  OneLoader'
<1> USE DEF OneLoader, ViewTyped, CallerType, LoadPhases
<1>1. CASE UNCHANGED viewVars \/ GossipChanges \/ Age
  BY <1>1, SMTT(30) DEF viewVars, GossipChanges, Age
<1>2. ASSUME NEW c \in Callers, Start(c) \/ WaitAbandoned(c) PROVE OneLoader'
  BY <1>2, ResetEffect, SMTT(30) DEF Start, WaitAbandoned
<1>3. ASSUME NEW c \in Callers, Look(c) PROVE OneLoader'
  BY <1>3, LookEffect, SMTT(30) DEF Look
<1>4. ASSUME NEW c \in Callers, Elect(c) PROVE OneLoader'
  <2>1. CASE Return(c, cached.view, cached.age) /\ UNCHANGED loading
    BY <2>1, <1>4, ReturnEffect, SMTT(30) DEF Elect
  <2>2. CASE loading /\ MoveTo(c, "wait") /\ UNCHANGED loading
    BY <2>2, <1>4, ZenonT(30) DEF Elect, MoveTo
  <2>3. CASE ~loading /\ MoveTo(c, "begin") /\ loading' = TRUE
    BY <2>3, <1>4, SMTT(30) DEF Elect, MoveTo
  <2> QED
    BY <2>1, <2>2, <2>3, <1>4 DEF Elect
<1>5. ASSUME NEW c \in Callers, BeginLoad(c) \/ ViewLoaded(c) PROVE OneLoader'
  BY <1>5, SMTT(30) DEF BeginLoad, ViewLoaded
<1>6. ASSUME NEW c \in Callers, LoadAbandoned(c) \/ Complete(c) PROVE OneLoader'
  BY <1>6, SMTT(30) DEF LoadAbandoned, Complete, MoveTo
<1>7. ASSUME NEW c \in Callers, Verify(c) PROVE OneLoader'
  BY <1>7, SMTT(30) DEF Verify, MoveTo
<1>8. ASSUME NEW c \in Callers, Wake(c) PROVE OneLoader'
  BY <1>8, SMTT(30) DEF Wake, MoveTo
<1>9. ASSUME NEW c \in Callers, Announce(c) PROVE OneLoader'
  <2>1. caller[c].pc \notin LoadPhases /\ caller'[c].pc \notin LoadPhases
    BY <1>9, AnnounceEffect DEF Announce
  <2>2. \A d \in Callers : caller'[d].pc \in LoadPhases <=> caller[d].pc \in LoadPhases
    BY <2>1, <1>9, AnnounceEffect, SMTT(30)
  <2>3. loading' = loading
    BY <1>9 DEF Announce
  <2> HIDE DEF LoadPhases, ViewTyped, CallerType
  <2> QED
    BY <2>2, <2>3
<1> QED
  BY <1>1, <1>2, <1>3, <1>4, <1>5, <1>6, <1>7, <1>8, <1>9, ZenonT(30) DEF ViewNext, Proceed

\* Whoever ends a load leaves every waiter with a change to see.
LEMMA WaiterStep ==
  ASSUME ViewTyped, OneLoader, WaiterNotified, [ViewNext]_viewVars
  PROVE  WaiterNotified'
<1> USE DEF WaiterNotified, ViewTyped, CallerType, LoadPhases, EndPhases
<1>1. CASE UNCHANGED viewVars \/ GossipChanges \/ Age
  BY <1>1 DEF viewVars, GossipChanges, Age
<1>2. ASSUME NEW c \in Callers, Start(c) \/ WaitAbandoned(c) PROVE WaiterNotified'
  BY <1>2, ResetEffect DEF Start, WaitAbandoned
<1>3. ASSUME NEW c \in Callers, Look(c) PROVE WaiterNotified'
  BY <1>3, LookEffect DEF Look
<1>4. ASSUME NEW c \in Callers, Elect(c) PROVE WaiterNotified'
  <2>1. CASE Return(c, cached.view, cached.age) /\ UNCHANGED loading
    BY <2>1, <1>4, ReturnEffect, SMTT(30) DEF Elect
  <2>2. CASE loading /\ MoveTo(c, "wait") /\ UNCHANGED loading
    BY <2>2, <1>4 DEF OneLoader, Elect, MoveTo
  <2>3. CASE ~loading /\ MoveTo(c, "begin") /\ loading' = TRUE
    BY <2>3, <1>4, SMTT(30) DEF Elect, MoveTo
  <2> QED
    BY <2>1, <2>2, <2>3, <1>4 DEF Elect
<1>5. ASSUME NEW c \in Callers, BeginLoad(c) \/ ViewLoaded(c) PROVE WaiterNotified'
  BY <1>5, SMTT(30) DEF BeginLoad, ViewLoaded
<1>6. ASSUME NEW c \in Callers, LoadAbandoned(c) \/ Complete(c) PROVE WaiterNotified'
  BY <1>6, SMTT(30) DEF LoadAbandoned, Complete, MoveTo
<1>7. ASSUME NEW c \in Callers, Verify(c) PROVE WaiterNotified'
  BY <1>7, SMTT(30) DEF Verify, MoveTo
<1>8. ASSUME NEW c \in Callers, Wake(c) PROVE WaiterNotified'
  BY <1>8 DEF Wake, MoveTo
<1>9. ASSUME NEW c \in Callers, Announce(c) PROVE WaiterNotified'
  BY <1>9, AnnounceEffect DEF Announce
<1> QED
  BY <1>1, <1>2, <1>3, <1>4, <1>5, <1>6, <1>7, <1>8, <1>9, ZenonT(30) DEF ViewNext, Proceed

\* The inductive invariant holds in every reachable state.
THEOREM ViewInvariance == ViewSpec => []ViewInv
<1>1. ViewInit => ViewInv
  BY InvInit, ViewCacheAssumption
<1>2. ViewInv /\ [ViewNext]_viewVars => ViewInv'
  BY TypeStep, LabelStep, LoaderStep, WaiterStep, ViewCacheAssumption DEF ViewInv
<1> QED
  BY <1>1, <1>2, PTL DEF ViewSpec

\* No call is answered with a view of an epoch that had passed when it was
\* made, nor with one older than the TTL and the equal grace of a refresh
\* (get_or_load), for any number of overlapping calls.
THEOREM CurrentViews == ViewSpec => []ViewCurrent
<1>1. ViewInv => ViewCurrent
  BY DEF ViewInv
<1> QED
  BY <1>1, ViewInvariance, PTL

\* Gossip is read by one caller at a time (the loading flag).
THEOREM SingleLoader == ViewSpec => []OneLoader
<1>1. ViewInv => OneLoader
  BY DEF ViewInv
<1> QED
  BY <1>1, ViewInvariance, PTL

\* A caller that parks can count on a wakeup: it has already seen a change,
\* or a load has yet to announce its end (subscribe before the second look).
THEOREM NoLostWakeup == ViewSpec => []WaiterNotified
<1>1. ViewInv => WaiterNotified
  BY DEF ViewInv
<1> QED
  BY <1>1, ViewInvariance, PTL

-----------------------------------------------------------------------------
(* RendererActor.  A slot keeps its orphan count by itself: the invariant  *)
(* speaks of one slot's record, its actors and its count.                  *)

Pcs == {"idle", "send", "call", "check", "reserve", "swap", "join", "install",
        "dropping", "detached", "dropped"}
Commands == {"run", "retire", "shutdown"}
SlotType == [pc : Pcs, then : {"idle", "send"}, cur : Actors, retiring : BOOLEAN, avail : BOOLEAN]
ActorType == [handle : BOOLEAN, status : {"running", "orphaned", "finished"},
              thread : {"none", "idle", "native", "exiting", "releasing", "done"},
              cmds : Seq(Commands)]

ActorsTyped ==
    /\ worker \in [Workers -> SlotType]
    /\ actor \in [Workers -> [Actors -> ActorType]]
    /\ orphaned \in [Workers -> Nat]

\* Past these a renderer is dropped, which counts only after it detached.
Past == {"detached", "dropped"}

\* An orphan lives until it has given its room back, and a dead thread has said
\* that it finished.
ActorOK(x) ==
    /\ Detached(x) => Live(x)
    /\ x.thread \in {"releasing", "done"} => x.status = "finished"

\* Of the actors a slot does not hold only one may live, as an orphan.  The one
\* it holds was detached if and only if its handle was taken.
ThreadsOK(s, f) ==
    /\ \A a \in Actors : ActorOK(f[a])
    /\ \A a \in Actors \ {s.cur} : Live(f[a]) => Detached(f[a])
    /\ \A a, b \in Actors \ {s.cur} : Live(f[a]) /\ Live(f[b]) => a = b
    /\ f[s.cur].thread # "none"
    /\ Live(f[s.cur]) /\ ~f[s.cur].handle => Detached(f[s.cur])
    /\ f[s.cur].handle /\ s.pc \notin Past => ~Detached(f[s.cur])

\* Where the replacement is.
PlaceOK(s, f) ==
    /\ s.pc = "install" => ~f[s.cur].handle \/ ~Live(f[s.cur])
    /\ s.pc \in {"reserve", "swap", "join"} => f[s.cur].handle

\* The count is one for the only orphan, or for the reservation when there is none.
CountOK(s, f, n) ==
    s.pc \notin Past =>
       \/ n = (IF s.pc = "swap" THEN 1 ELSE 0) /\ \A a \in Actors : ~Detached(f[a])
       \/ /\ s.pc # "swap" /\ n = 1
          /\ \E a \in Actors : Detached(f[a]) /\ \A b \in Actors : Detached(f[b]) => b = a

SlotOK(s, f, n) == ThreadsOK(s, f) /\ PlaceOK(s, f) /\ CountOK(s, f, n)

ActorsInv ==
    ActorsTyped /\ \A w \in Workers : SlotOK(worker[w], actor[w], orphaned[w])

\* The other slots do not notice.
Elsewhere(w) ==
    \A v \in Workers \ {w} :
       worker'[v] = worker[v] /\ actor'[v] = actor[v] /\ orphaned'[v] = orphaned[v]

\* A step of one slot.
LEMMA OneSlot ==
    ASSUME ActorsInv, NEW w \in Workers, ActorsTyped', Elsewhere(w),
           SlotOK(worker'[w], actor'[w], orphaned'[w])
    PROVE  ActorsInv'
<1> SUFFICES ASSUME NEW v \in Workers
             PROVE  SlotOK(worker[v], actor[v], orphaned[v])'
    BY DEF ActorsInv
<1>1. CASE v = w
    BY <1>1, ZenonT(30) DEF SlotOK, ThreadsOK, PlaceOK, CountOK, ActorOK, Detached, Live
<1>2. CASE v # w
    <2>1. worker'[v] = worker[v] /\ actor'[v] = actor[v] /\ orphaned'[v] = orphaned[v]
        BY <1>2 DEF Elsewhere
    <2>2. SlotOK(worker'[v], actor'[v], orphaned'[v])
        BY <2>1 DEF ActorsInv
    <2> QED
        BY <2>2 DEF SlotOK, ThreadsOK, PlaceOK, CountOK, ActorOK, Detached, Live
<1> QED
    BY <1>1, <1>2

\* The slot moves on.
LEMMA MovesEffect ==
    ASSUME ActorsTyped, NEW w \in Workers, NEW pc \in Pcs, Moves(w, pc)
    PROVE  /\ worker' \in [Workers -> SlotType]
           /\ worker'[w].pc = pc /\ worker'[w].cur = worker[w].cur
           /\ \A v \in Workers \ {w} : worker'[v] = worker[v]
<1>1. worker[w] \in SlotType
    BY DEF ActorsTyped
<1>2. PICK s : s = [worker[w] EXCEPT !.pc = pc]
    OBVIOUS
<1>3. s \in SlotType /\ s.pc = pc /\ s.cur = worker[w].cur
    BY <1>1, <1>2 DEF SlotType
<1>4. worker' = [worker EXCEPT ![w] = s]
    BY <1>2 DEF Moves
<1> QED
    BY <1>3, <1>4 DEF ActorsTyped

\* The slot becomes another.
LEMMA BecomesEffect ==
    ASSUME ActorsTyped, NEW w \in Workers, NEW s \in SlotType, Becomes(w, s)
    PROVE  /\ worker' \in [Workers -> SlotType] /\ worker'[w] = s
           /\ \A v \in Workers \ {w} : worker'[v] = worker[v]
    BY DEF Becomes, ActorsTyped

\* The fields of a slot.
LEMMA SlotTyped ==
    ASSUME NEW pc \in Pcs, NEW then \in {"idle", "send"}, NEW cur \in Actors,
           NEW retiring \in BOOLEAN, NEW avail \in BOOLEAN
    PROVE  Slot(pc, then, cur, retiring, avail) \in SlotType
    BY DEF Slot, SlotType

\* One actor changes.
LEMMA SetsEffect ==
    ASSUME ActorsTyped, NEW w \in Workers, NEW a \in Actors, NEW x \in ActorType, Sets(w, a, x)
    PROVE  /\ actor' \in [Workers -> [Actors -> ActorType]] /\ actor'[w][a] = x
           /\ \A b \in Actors \ {a} : actor'[w][b] = actor[w][b]
           /\ \A v \in Workers \ {w} : actor'[v] = actor[v]
<1>1. actor[w] \in [Actors -> ActorType]
    BY DEF ActorsTyped
<1>2. PICK f : f = [actor[w] EXCEPT ![a] = x]
    OBVIOUS
<1>3. f \in [Actors -> ActorType] /\ f[a] = x /\ \A b \in Actors \ {a} : f[b] = actor[w][b]
    BY <1>1, <1>2
<1>4. actor' = [actor EXCEPT ![w] = f]
    BY <1>2 DEF Sets
<1> QED
    BY <1>3, <1>4 DEF ActorsTyped

\* The fields of an actor.
LEMMA ActorTyped ==
    ASSUME NEW handle \in BOOLEAN, NEW status \in {"running", "orphaned", "finished"},
           NEW thread \in {"none", "idle", "native", "exiting", "releasing", "done"},
           NEW cmds \in Seq(Commands)
    PROVE  Actor(handle, status, thread, cmds) \in ActorType
    BY DEF Actor, ActorType

\* What is known of a slot.
LEMMA SlotFacts ==
    ASSUME ActorsInv, NEW w \in Workers
    PROVE  /\ worker[w] \in SlotType /\ worker[w].cur \in Actors /\ worker[w].pc \in Pcs
           /\ worker[w].then \in {"idle", "send"} /\ worker[w].retiring \in BOOLEAN
           /\ worker[w].avail \in BOOLEAN
           /\ actor[w] \in [Actors -> ActorType] /\ orphaned[w] \in Nat
           /\ Cur(w) = actor[w][worker[w].cur] /\ Cur(w) \in ActorType
           /\ SlotOK(worker[w], actor[w], orphaned[w])
<1>1. worker[w] \in SlotType /\ actor[w] \in [Actors -> ActorType] /\ orphaned[w] \in Nat
    BY DEF ActorsInv, ActorsTyped
<1>2. /\ worker[w].cur \in Actors /\ worker[w].pc \in Pcs
      /\ worker[w].then \in {"idle", "send"} /\ worker[w].retiring \in BOOLEAN
      /\ worker[w].avail \in BOOLEAN
    BY <1>1 DEF SlotType
<1>3. Cur(w) = actor[w][worker[w].cur]
    BY DEF Cur
<1>4. Cur(w) \in ActorType
    BY <1>1, <1>2, <1>3
<1> QED
    BY <1>1, <1>2, <1>3, <1>4 DEF ActorsInv

\* Changes of an actor that its slot's books do not tell apart.
SameKind(x, y) ==
    /\ y.handle = x.handle /\ y.status = x.status
    /\ \/ y.thread = x.thread
       \/ x.thread \in {"idle", "native", "exiting"} /\ y.thread \in {"idle", "native", "exiting"}

\* They leave the actor as alive, as detached and as sound as it was.
LEMMA KindKept ==
    ASSUME NEW x, NEW y, SameKind(x, y), ActorOK(x)
    PROVE  /\ Live(y) <=> Live(x)
           /\ Detached(y) <=> Detached(x)
           /\ ActorOK(y) /\ y.handle = x.handle
           /\ y.thread = "none" <=> x.thread = "none"
    BY SMTT(30) DEF SameKind, ActorOK, Live, Detached

\* A step that detaches, ends and starts no thread.
Calm(s, f, t, g) ==
    /\ t.cur = s.cur
    /\ \A a \in Actors : SameKind(f[a], g[a])
    /\ s.pc \in Past => t.pc \in Past
    /\ t.pc = "swap" <=> s.pc = "swap"
    /\ t.pc = "install" => ~f[s.cur].handle \/ ~Live(f[s.cur])
    /\ t.pc \in {"reserve", "swap", "join"} => f[s.cur].handle

\* It leaves the books in order.
LEMMA CalmSlot ==
    ASSUME NEW s, NEW f, NEW n, SlotOK(s, f, n), s.cur \in Actors,
           NEW t, NEW g, Calm(s, f, t, g)
    PROVE  SlotOK(t, g, n)
<1>1. \A a \in Actors : ActorOK(f[a])
    BY DEF SlotOK, ThreadsOK
<1>2. \A a \in Actors : /\ Live(g[a]) <=> Live(f[a])
                        /\ Detached(g[a]) <=> Detached(f[a])
                        /\ ActorOK(g[a]) /\ g[a].handle = f[a].handle
                        /\ g[a].thread = "none" <=> f[a].thread = "none"
    BY <1>1, KindKept DEF Calm
<1>3. ThreadsOK(t, g)
    BY <1>2, ZenonT(30) DEF SlotOK, ThreadsOK, Calm
<1>4. PlaceOK(t, g)
    BY <1>2 DEF PlaceOK, Calm
<1>5. CountOK(t, g, n)
    BY <1>2 DEF SlotOK, CountOK, Calm
<1> QED
    BY <1>3, <1>4, <1>5 DEF SlotOK

\* An unchanged actor is of the same kind.
LEMMA KindReflexive == \A x : SameKind(x, x)
    BY DEF SameKind

\* Sending a command.
LEMMA SentKind ==
    ASSUME NEW x \in ActorType, NEW cmd \in Commands
    PROVE  Sent(x, cmd) \in ActorType /\ SameKind(x, Sent(x, cmd))
<1>1. CASE x.thread \in {"idle", "native"}
    <2>1. x.cmds \in Seq(Commands)
        BY DEF ActorType
    <2>2. Append(x.cmds, cmd) \in Seq(Commands)
        BY <2>1, SMTT(30)
    <2>3. Sent(x, cmd) = [x EXCEPT !.cmds = Append(x.cmds, cmd)]
        BY <1>1 DEF Sent
    <2> QED
        BY <2>2, <2>3 DEF ActorType, SameKind
<1>2. CASE x.thread \notin {"idle", "native"}
    BY <1>2, KindReflexive DEF Sent
<1> QED
    BY <1>1, <1>2

\* Sending a command in a slot.
LEMMA SendEffect ==
    ASSUME ActorsInv, NEW w \in Workers, NEW cmd \in Commands, Send(w, cmd)
    PROVE  /\ actor' \in [Workers -> [Actors -> ActorType]]
           /\ \A a \in Actors : SameKind(actor[w][a], actor'[w][a])
           /\ \A v \in Workers \ {w} : actor'[v] = actor[v]
<1>1. PICK x : x = Sent(Cur(w), cmd)
    OBVIOUS
<1>2. worker[w].cur \in Actors /\ Cur(w) = actor[w][worker[w].cur] /\ Cur(w) \in ActorType
    BY SlotFacts
<1>3. x \in ActorType /\ SameKind(Cur(w), x)
    BY <1>1, <1>2, SentKind
<1>4. /\ actor' \in [Workers -> [Actors -> ActorType]] /\ actor'[w][worker[w].cur] = x
      /\ \A b \in Actors \ {worker[w].cur} : actor'[w][b] = actor[w][b]
      /\ \A v \in Workers \ {w} : actor'[v] = actor[v]
    <2>1. Sets(w, worker[w].cur, x) /\ ActorsTyped
        BY <1>1 DEF Send, ActorsInv
    <2> QED
        BY <1>2, <1>3, <2>1, SetsEffect
<1> QED
    BY <1>2, <1>3, <1>4, KindReflexive

\* A calm step of a slot.
LEMMA CalmStep ==
    ASSUME ActorsInv, NEW w \in Workers,
           worker' \in [Workers -> SlotType], worker'[w].cur = worker[w].cur,
           \A v \in Workers \ {w} : worker'[v] = worker[v],
           actor' \in [Workers -> [Actors -> ActorType]],
           \A a \in Actors : SameKind(actor[w][a], actor'[w][a]),
           \A v \in Workers \ {w} : actor'[v] = actor[v],
           orphaned' = orphaned,
           worker[w].pc \in Past => worker'[w].pc \in Past,
           worker'[w].pc = "swap" <=> worker[w].pc = "swap",
           worker'[w].pc = "install" => ~Cur(w).handle \/ ~Live(Cur(w)),
           worker'[w].pc \in {"reserve", "swap", "join"} => Cur(w).handle
    PROVE  ActorsInv'
<1>1. /\ worker[w].cur \in Actors /\ Cur(w) = actor[w][worker[w].cur]
      /\ SlotOK(worker[w], actor[w], orphaned[w])
    BY SlotFacts
<1>2. SlotOK(worker'[w], actor'[w], orphaned[w])
    <2>1. Calm(worker[w], actor[w], worker'[w], actor'[w])
        BY <1>1 DEF Calm
    <2> QED
        BY <1>1, <2>1, CalmSlot
<1>3. ActorsTyped' /\ Elsewhere(w)
    BY DEF ActorsTyped, ActorsInv, Elsewhere
<1> QED
    BY <1>2, <1>3, OneSlot

\* Where a call may lead before a replacement does anything.
LEMMA CallSteps ==
    ASSUME ActorsInv, NEW w \in Workers, Call(w) \/ Repair(w)
    PROVE  ActorsInv'
<1>1. /\ worker[w].pc = "idle" /\ UNCHANGED <<actor, orphaned>>
      /\ \/ IsAlive(w) /\ Moves(w, "send")
         \/ \E then \in {"idle", "send"} : (worker[w].retiring \/ ~IsAlive(w)) /\ Replace(w, then)
    BY DEF Call, Repair
<1>2. /\ actor' \in [Workers -> [Actors -> ActorType]]
      /\ \A a \in Actors : SameKind(actor[w][a], actor'[w][a])
      /\ \A v \in Workers \ {w} : actor'[v] = actor[v]
    BY <1>1, KindReflexive DEF ActorsInv, ActorsTyped
<1>3. /\ "send" \in Pcs /\ "check" \in Pcs /\ "install" \in Pcs
      /\ "send" \notin {"swap", "install", "reserve", "join"}
      /\ "check" \notin {"swap", "install", "reserve", "join"}
      /\ "install" \notin {"swap", "reserve", "join"} /\ "idle" \notin Past /\ "idle" # "swap"
    BY SMTT(30) DEF Pcs, Past
<1>4. CASE IsAlive(w) /\ Moves(w, "send")
    <2>1. /\ worker' \in [Workers -> SlotType]
          /\ worker'[w].pc = "send" /\ worker'[w].cur = worker[w].cur
          /\ \A v \in Workers \ {w} : worker'[v] = worker[v]
        BY <1>3, <1>4, MovesEffect DEF ActorsInv
    <2> QED
        BY <1>1, <1>2, <1>3, <2>1, CalmStep
<1>5. CASE \E then \in {"idle", "send"} : (worker[w].retiring \/ ~IsAlive(w)) /\ Replace(w, then)
    <2>1. PICK then \in {"idle", "send"} : (worker[w].retiring \/ ~IsAlive(w)) /\ Replace(w, then)
        BY <1>5
    <2>2. PICK t : t = Slot(IF worker[w].retiring THEN "check" ELSE "install", then,
                            worker[w].cur, worker[w].retiring, worker[w].avail)
        OBVIOUS
    <2>3. /\ worker[w].cur \in Actors /\ worker[w].retiring \in BOOLEAN /\ worker[w].avail \in BOOLEAN
          /\ Cur(w) \in ActorType
        BY SlotFacts
    <2>4. t \in SlotType
        BY <1>3, <2>2, <2>3, SlotTyped
    <2>5. t.cur = worker[w].cur /\ t.pc = IF worker[w].retiring THEN "check" ELSE "install"
        BY <2>2 DEF Slot
    <2>6. /\ worker' \in [Workers -> SlotType] /\ worker'[w] = t
          /\ \A v \in Workers \ {w} : worker'[v] = worker[v]
        BY <2>1, <2>2, <2>4, BecomesEffect DEF Replace, ActorsInv
    <2>7. ~worker[w].retiring => ~Cur(w).handle \/ ~Live(Cur(w))
        BY <2>1 DEF IsAlive, Live
    <2> QED
        BY <1>1, <1>2, <1>3, <2>5, <2>6, <2>7, CalmStep, ZenonT(30)
<1> QED
    BY <1>1, <1>4, <1>5

\* Commands are sent.
LEMMA SendSteps ==
    ASSUME ActorsInv, NEW w \in Workers,
           SendCommand(w) \/ RetireAfterCurrent(w) \/ DropActor(w)
    PROVE  ActorsInv'
<1>1. worker[w].pc \in {"send", "call", "idle"} /\ UNCHANGED orphaned
    BY DEF SendCommand, RetireAfterCurrent, DropActor
<1>2. PICK cmd \in Commands : Send(w, cmd)
    BY DEF SendCommand, RetireAfterCurrent, DropActor, Commands
<1>3. /\ actor' \in [Workers -> [Actors -> ActorType]]
      /\ \A a \in Actors : SameKind(actor[w][a], actor'[w][a])
      /\ \A v \in Workers \ {w} : actor'[v] = actor[v]
    BY <1>2, SendEffect
<1>4. /\ {"call", "idle", "check", "dropping", "dropped"} \subseteq Pcs
      /\ {"send", "call", "idle"} \cap Past = {}
      /\ {"send", "call", "idle", "check", "dropping", "dropped"}
            \cap {"swap", "install", "reserve", "join"} = {}
    BY SMTT(30) DEF Pcs, Past
<1>5. /\ worker' \in [Workers -> SlotType] /\ worker'[w].cur = worker[w].cur
      /\ worker'[w].pc \in {"call", "idle", "check", "dropping", "dropped"}
      /\ \A v \in Workers \ {w} : worker'[v] = worker[v]
    <2>1. CASE RetireAfterCurrent(w)
        <3>1. PICK t : t = Slot("check", "idle", worker[w].cur, TRUE, worker[w].avail)
            OBVIOUS
        <3>2. worker[w].cur \in Actors /\ worker[w].avail \in BOOLEAN
            BY SlotFacts
        <3>3. t \in SlotType
            BY <1>4, <3>1, <3>2, SlotTyped
        <3>4. t.cur = worker[w].cur /\ t.pc = "check"
            BY <3>1 DEF Slot
        <3>5. /\ worker' \in [Workers -> SlotType] /\ worker'[w] = t
              /\ \A v \in Workers \ {w} : worker'[v] = worker[v]
            BY <2>1, <3>1, <3>3, BecomesEffect DEF RetireAfterCurrent, ActorsInv
        <3> QED
            BY <3>4, <3>5
    <2>2. CASE SendCommand(w) \/ DropActor(w)
        <3>1. PICK pc \in {"call", "idle", "dropping", "dropped"} : Moves(w, pc)
            BY <2>2 DEF SendCommand, DropActor
        <3>2. pc \in Pcs
            BY <1>4
        <3> QED
            BY <3>1, <3>2, MovesEffect DEF ActorsInv
    <2> QED
        BY <2>1, <2>2
<1>6. worker'[w].pc \notin {"swap", "install", "reserve", "join"} /\ worker[w].pc \notin Past
    BY <1>1, <1>4, <1>5
<1>7. worker[w].pc # "swap"
    BY <1>1, <1>4
<1> QED
    BY <1>1, <1>3, <1>5, <1>6, <1>7, CalmStep, ZenonT(30)

\* The look of try_abandon.
LEMMA CheckSteps ==
    ASSUME ActorsInv, NEW w \in Workers, AbandonCheck(w) \/ AbandonJoin(w)
    PROVE  ActorsInv'
<1>1. /\ "reserve" \in Pcs /\ "install" \in Pcs /\ "check" \notin Past /\ "join" \notin Past
      /\ "check" # "swap" /\ "join" # "swap"
      /\ "reserve" \notin {"swap", "install"} /\ "install" \notin {"reserve", "swap", "join"}
      /\ "install" \notin Past
    BY SMTT(30) DEF Pcs, Past
<1>2. worker[w].pc \in {"check", "join"} /\ UNCHANGED orphaned
    BY DEF AbandonCheck, AbandonJoin
<1>3. CASE AbandonCheck(w) /\ IsAlive(w)
    <2>1. Moves(w, "reserve") /\ UNCHANGED actor /\ Cur(w).handle
        BY <1>3 DEF AbandonCheck, IsAlive
    <2>2. /\ actor' \in [Workers -> [Actors -> ActorType]]
          /\ \A a \in Actors : SameKind(actor[w][a], actor'[w][a])
          /\ \A v \in Workers \ {w} : actor'[v] = actor[v]
        BY <2>1, KindReflexive DEF ActorsInv, ActorsTyped
    <2>3. /\ worker' \in [Workers -> SlotType]
          /\ worker'[w].pc = "reserve" /\ worker'[w].cur = worker[w].cur
          /\ \A v \in Workers \ {w} : worker'[v] = worker[v]
        BY <1>1, <2>1, MovesEffect DEF ActorsInv
    <2>4. worker[w].pc \notin Past /\ worker[w].pc # "swap"
        BY <1>1, <1>2
    <2> QED
        BY <1>1, <1>2, <2>1, <2>2, <2>3, <2>4, CalmStep, ZenonT(30)
<1>4. CASE (AbandonCheck(w) /\ ~IsAlive(w)) \/ AbandonJoin(w)
    <2>1. Moves(w, "install") /\ TakeHandle(w) /\ ~IsAlive(w)
        BY <1>4 DEF AbandonCheck, AbandonJoin, IsAlive
    <2>2. PICK c : c = worker[w].cur
        OBVIOUS
    <2>3. /\ c \in Actors /\ Cur(w) = actor[w][c] /\ Cur(w) \in ActorType
          /\ SlotOK(worker[w], actor[w], orphaned[w]) /\ worker[w] \in SlotType
        BY <2>2, SlotFacts
    <2>4. PICK x : x = [Cur(w) EXCEPT !.handle = FALSE]
        OBVIOUS
    <2>5. /\ x \in ActorType /\ x.handle = FALSE /\ x.status = Cur(w).status
          /\ x.thread = Cur(w).thread
        BY <2>3, <2>4 DEF ActorType
    <2>6. /\ actor' \in [Workers -> [Actors -> ActorType]] /\ actor'[w][c] = x
          /\ \A b \in Actors \ {c} : actor'[w][b] = actor[w][b]
          /\ \A v \in Workers \ {w} : actor'[v] = actor[v]
        <3>1. Sets(w, c, x) /\ ActorsTyped
            BY <2>1, <2>2, <2>4 DEF TakeHandle, ActorsInv
        <3> QED
            BY <2>3, <2>5, <3>1, SetsEffect
    <2>7. /\ worker' \in [Workers -> SlotType]
          /\ worker'[w].pc = "install" /\ worker'[w].cur = c
          /\ \A v \in Workers \ {w} : worker'[v] = worker[v]
        BY <1>1, <2>1, <2>2, MovesEffect DEF ActorsInv
    <2>8. /\ Live(x) <=> Live(Cur(w))
          /\ Detached(x) <=> Detached(Cur(w))
          /\ ActorOK(x) <=> ActorOK(Cur(w))
        BY <2>5 DEF Live, Detached, ActorOK
    <2>9. Live(x) => Detached(x)
        <3>1. CASE Cur(w).handle
            <4>1. Cur(w).thread = "done"
                BY <2>1, <3>1 DEF IsAlive
            <4> QED
                BY <2>5, <4>1 DEF Live
        <3>2. CASE ~Cur(w).handle
            BY <2>2, <2>3, <2>8, <3>2 DEF SlotOK, ThreadsOK
        <3> QED
            BY <3>1, <3>2
    <2>10. \A a \in Actors : /\ Live(actor'[w][a]) <=> Live(actor[w][a])
                             /\ Detached(actor'[w][a]) <=> Detached(actor[w][a])
                             /\ ActorOK(actor'[w][a]) <=> ActorOK(actor[w][a])
        BY <2>3, <2>6, <2>8
    <2>11. ThreadsOK(worker'[w], actor'[w])
        <3>1. x.thread # "none"
            BY <2>2, <2>3, <2>5 DEF SlotOK, ThreadsOK
        <3> QED
            BY <2>2, <2>3, <2>5, <2>6, <2>7, <2>9, <2>10, <3>1, ZenonT(30) DEF SlotOK, ThreadsOK
    <2>12. PlaceOK(worker'[w], actor'[w])
        BY <1>1, <2>5, <2>6, <2>7 DEF PlaceOK
    <2>13. CountOK(worker'[w], actor'[w], orphaned'[w])
        <3>1. worker[w].pc \notin Past /\ worker[w].pc # "swap"
            BY <1>1, <1>2
        <3>2. \/ orphaned[w] = 0 /\ \A a \in Actors : ~Detached(actor[w][a])
              \/ /\ orphaned[w] = 1
                 /\ \E a \in Actors : /\ Detached(actor[w][a])
                                      /\ \A b \in Actors : Detached(actor[w][b]) => b = a
            BY <2>3, <3>1 DEF SlotOK, CountOK
        <3> QED
            BY <1>1, <1>2, <2>7, <2>10, <3>2, ZenonT(30) DEF CountOK
    <2>14. ActorsTyped' /\ Elsewhere(w)
        BY <1>2, <2>6, <2>7 DEF ActorsTyped, ActorsInv, Elsewhere
    <2> QED
        BY <2>11, <2>12, <2>13, <2>14, OneSlot DEF SlotOK
<1> QED
    BY <1>3, <1>4 DEF AbandonCheck

\* The slot is lost for now.
LEMMA LostSteps ==
    ASSUME ActorsInv, NEW w \in Workers, worker[w].pc \in {"reserve", "install"}, Lost(w),
           UNCHANGED <<actor, orphaned>>
    PROVE  ActorsInv'
<1>1. PICK t : t = Slot("idle", worker[w].then, worker[w].cur, worker[w].retiring, FALSE)
    OBVIOUS
<1>2. /\ worker[w].cur \in Actors /\ worker[w].then \in {"idle", "send"}
      /\ worker[w].retiring \in BOOLEAN
    BY SlotFacts
<1>3. /\ "idle" \in Pcs /\ "idle" \notin {"swap", "install", "reserve", "join"}
      /\ "reserve" \notin Past /\ "install" \notin Past /\ "reserve" # "swap" /\ "install" # "swap"
    BY SMTT(30) DEF Pcs, Past
<1>4. t \in SlotType /\ t.pc = "idle" /\ t.cur = worker[w].cur
    <2>1. t \in SlotType
        BY <1>1, <1>2, <1>3, SlotTyped
    <2> QED
        BY <1>1, <2>1 DEF Slot
<1>5. /\ worker' \in [Workers -> SlotType] /\ worker'[w] = t
      /\ \A v \in Workers \ {w} : worker'[v] = worker[v]
    BY <1>1, <1>4, BecomesEffect DEF Lost, ActorsInv
<1>6. /\ actor' \in [Workers -> [Actors -> ActorType]]
      /\ \A a \in Actors : SameKind(actor[w][a], actor'[w][a])
      /\ \A v \in Workers \ {w} : actor'[v] = actor[v]
    BY KindReflexive DEF ActorsInv, ActorsTyped
<1>7. worker[w].pc \notin Past /\ worker[w].pc # "swap"
    BY <1>3
<1> QED
    BY <1>3, <1>4, <1>5, <1>6, <1>7, CalmStep

\* The reservation.
LEMMA ReserveStep ==
    ASSUME ActorsInv, NEW w \in Workers, AbandonReserve(w)
    PROVE  ActorsInv'
<1>1. worker[w].pc = "reserve" /\ UNCHANGED actor
    BY DEF AbandonReserve
<1>2. CASE ~HasOrphanRoom(w)
    BY <1>1, <1>2, LostSteps DEF AbandonReserve
<1>3. CASE HasOrphanRoom(w)
    <2>1. /\ orphaned[w] = 0 /\ orphaned' = [orphaned EXCEPT ![w] = @ + 1] /\ Moves(w, "swap")
        BY <1>3 DEF AbandonReserve, HasOrphanRoom
    <2>2. /\ "swap" \in Pcs /\ "swap" # "install" /\ "reserve" \notin Past /\ "reserve" # "swap"
          /\ 0 + 1 = 1 /\ 1 \in Nat /\ 0 # 1
        BY SMTT(30) DEF Pcs, Past
    <2>3. /\ worker' \in [Workers -> SlotType]
          /\ worker'[w].pc = "swap" /\ worker'[w].cur = worker[w].cur
          /\ \A v \in Workers \ {w} : worker'[v] = worker[v]
        BY <2>1, <2>2, MovesEffect DEF ActorsInv
    <2>4. /\ orphaned' \in [Workers -> Nat] /\ orphaned'[w] = 1
          /\ \A v \in Workers \ {w} : orphaned'[v] = orphaned[v]
        <3>1. orphaned' = [orphaned EXCEPT ![w] = 1]
            BY <2>1, <2>2
        <3> QED
            BY <2>2, <3>1 DEF ActorsInv, ActorsTyped
    <2>5. SlotOK(worker[w], actor[w], orphaned[w])
        BY SlotFacts
    <2>6. actor[w][worker[w].cur].handle /\ \A a \in Actors : ~Detached(actor[w][a])
        BY <1>1, <2>1, <2>2, <2>5 DEF SlotOK, PlaceOK, CountOK
    <2>7. ThreadsOK(worker'[w], actor'[w])
        BY <1>1, <2>2, <2>3, <2>5, <2>6 DEF SlotOK, ThreadsOK
    <2>8. PlaceOK(worker'[w], actor'[w]) /\ CountOK(worker'[w], actor'[w], orphaned'[w])
        BY <1>1, <2>2, <2>3, <2>4, <2>6 DEF PlaceOK, CountOK
    <2>9. ActorsTyped' /\ Elsewhere(w)
        BY <1>1, <2>3, <2>4 DEF ActorsTyped, ActorsInv, Elsewhere
    <2> QED
        BY <2>7, <2>8, <2>9, OneSlot DEF SlotOK
<1> QED
    BY <1>2, <1>3

\* The count goes down.
LEMMA ReleaseEffect ==
    ASSUME ActorsInv, NEW w \in Workers, ReleaseOrphan(w)
    PROVE  /\ orphaned' \in [Workers -> Nat]
           /\ orphaned[w] = 1 => orphaned'[w] = 0
           /\ \A v \in Workers \ {w} : orphaned'[v] = orphaned[v]
<1>1. orphaned[w] \in Nat
    BY SlotFacts
<1>2. PICK n : n = IF orphaned[w] > 0 THEN orphaned[w] - 1 ELSE 0
    OBVIOUS
<1>3. n \in Nat /\ (orphaned[w] = 1 => n = 0)
    BY <1>1, <1>2, SMTT(30)
<1>4. orphaned' = [orphaned EXCEPT ![w] = n]
    BY <1>2 DEF ReleaseOrphan
<1> QED
    BY <1>3, <1>4 DEF ActorsInv, ActorsTyped

\* The exchange of RUNNING for ORPHANED, and the thread that was faster.
LEMMA SwapStep ==
    ASSUME ActorsInv, NEW w \in Workers, AbandonSwap(w)
    PROVE  ActorsInv'
<1>1. worker[w].pc = "swap"
    BY DEF AbandonSwap
<1>2. PICK c : c = worker[w].cur
    OBVIOUS
<1>3. /\ c \in Actors /\ Cur(w) = actor[w][c] /\ Cur(w) \in ActorType
      /\ SlotOK(worker[w], actor[w], orphaned[w])
    BY <1>2, SlotFacts
<1>4. /\ "swap" \notin Past /\ "install" \notin Past /\ "join" \notin Past
      /\ "install" \in Pcs /\ "join" \in Pcs
      /\ "install" \notin {"reserve", "swap", "join"} /\ "join" \notin {"install", "swap"}
      /\ "finished" # "orphaned" /\ "running" # "finished" /\ 0 # 1
    BY SMTT(30) DEF Pcs, Past
<1>5. orphaned[w] = 1 /\ actor[w][c].handle /\ \A a \in Actors : ~Detached(actor[w][a])
    BY <1>1, <1>2, <1>3, <1>4 DEF SlotOK, PlaceOK, CountOK
<1>6. \A a \in Actors \ {c} : ~Live(actor[w][a])
    BY <1>2, <1>3, <1>5 DEF SlotOK, ThreadsOK
<1>7. CASE Cur(w).status = "running" /\ UNCHANGED orphaned /\ Moves(w, "install")
            /\ Sets(w, c, Actor(FALSE, "orphaned", Cur(w).thread, Cur(w).cmds))
    <2>1. PICK x : x = Actor(FALSE, "orphaned", Cur(w).thread, Cur(w).cmds)
        OBVIOUS
    <2>2. /\ x.handle = FALSE /\ x.status = "orphaned" /\ x.thread = Cur(w).thread
          /\ x \in ActorType
        <3>1. /\ Cur(w).thread \in {"none", "idle", "native", "exiting", "releasing", "done"}
              /\ Cur(w).cmds \in Seq(Commands)
            BY <1>3 DEF ActorType
        <3>2. x \in ActorType
            BY <2>1, <3>1, ActorTyped
        <3> QED
            BY <2>1, <3>2 DEF Actor
    <2>3. /\ actor' \in [Workers -> [Actors -> ActorType]] /\ actor'[w][c] = x
          /\ \A b \in Actors \ {c} : actor'[w][b] = actor[w][b]
          /\ \A v \in Workers \ {w} : actor'[v] = actor[v]
        BY <1>3, <1>7, <2>1, <2>2, SetsEffect DEF ActorsInv
    <2>4. /\ worker' \in [Workers -> SlotType]
          /\ worker'[w].pc = "install" /\ worker'[w].cur = c
          /\ \A v \in Workers \ {w} : worker'[v] = worker[v]
        BY <1>2, <1>4, <1>7, MovesEffect DEF ActorsInv
    <2>5. Cur(w).thread \notin {"none", "releasing", "done"}
        BY <1>2, <1>3, <1>4, <1>7, ZenonT(30) DEF SlotOK, ThreadsOK, ActorOK
    <2>6. Live(x) /\ Detached(x) /\ ActorOK(x) /\ x.thread # "none"
        BY <2>2, <2>5 DEF Live, Detached, ActorOK
    <2>7. ThreadsOK(worker'[w], actor'[w])
        <3>1. \A a \in Actors : ActorOK(actor'[w][a])
            BY <1>3, <2>3, <2>6 DEF SlotOK, ThreadsOK
        <3> QED
            BY <1>6, <2>2, <2>3, <2>4, <2>6, <3>1 DEF ThreadsOK
    <2>8. PlaceOK(worker'[w], actor'[w])
        BY <1>4, <2>2, <2>3, <2>4 DEF PlaceOK
    <2>9. CountOK(worker'[w], actor'[w], orphaned'[w])
        <3>1. Detached(actor'[w][c]) /\ \A b \in Actors : Detached(actor'[w][b]) => b = c
            BY <1>5, <2>3, <2>6
        <3>2. worker'[w].pc # "swap" /\ orphaned'[w] = 1
            BY <1>4, <1>5, <1>7, <2>4
        <3> QED
            BY <1>3, <3>1, <3>2 DEF CountOK
    <2>10. ActorsTyped' /\ Elsewhere(w)
        BY <1>7, <2>3, <2>4, ZenonT(30) DEF ActorsTyped, ActorsInv, Elsewhere
    <2> QED
        BY <2>7, <2>8, <2>9, <2>10, OneSlot DEF SlotOK
<1>8. CASE FinishedMeanwhile(w)
    <2>1. ReleaseOrphan(w) /\ Moves(w, "join") /\ UNCHANGED actor
        BY <1>8 DEF FinishedMeanwhile
    <2>2. /\ orphaned' \in [Workers -> Nat] /\ orphaned'[w] = 0
          /\ \A v \in Workers \ {w} : orphaned'[v] = orphaned[v]
        BY <1>5, <2>1, ReleaseEffect
    <2>3. /\ worker' \in [Workers -> SlotType]
          /\ worker'[w].pc = "join" /\ worker'[w].cur = c
          /\ \A v \in Workers \ {w} : worker'[v] = worker[v]
        BY <1>2, <1>4, <2>1, MovesEffect DEF ActorsInv
    <2>4. ThreadsOK(worker'[w], actor'[w])
        BY <1>2, <1>3, <1>4, <1>5, <2>1, <2>3, ZenonT(30) DEF SlotOK, ThreadsOK
    <2>5. PlaceOK(worker'[w], actor'[w]) /\ CountOK(worker'[w], actor'[w], orphaned'[w])
        BY <1>4, <1>5, <2>1, <2>2, <2>3 DEF PlaceOK, CountOK
    <2>6. ActorsTyped' /\ Elsewhere(w)
        BY <2>1, <2>2, <2>3 DEF ActorsTyped, ActorsInv, Elsewhere
    <2> QED
        BY <2>4, <2>5, <2>6, OneSlot DEF SlotOK
<1> QED
    BY <1>2, <1>7, <1>8 DEF AbandonSwap

\* A replacement is installed.
LEMMA InstallStep ==
    ASSUME ActorsInv, NEW w \in Workers, SpawnAndInstall(w)
    PROVE  ActorsInv'
<1>1. worker[w].pc = "install" /\ UNCHANGED orphaned
    BY DEF SpawnAndInstall
<1>2. CASE Lost(w) /\ UNCHANGED actor
    BY <1>1, <1>2, LostSteps, ZenonT(30)
<1>3. CASE ~(Lost(w) /\ UNCHANGED actor)
    <2>1. PICK a : a = CHOOSE x \in Free(w) : TRUE
        OBVIOUS
    <2>2. PICK c : c = worker[w].cur
        OBVIOUS
    <2>3. PICK y : y = Settled(FALSE, Sent(Cur(w), "shutdown"))
        OBVIOUS
    <2>4. PICK t : t = Slot(worker[w].then, worker[w].then, a, FALSE, TRUE)
        OBVIOUS
    <2>5. /\ Free(w) # {} /\ Becomes(w, t)
          /\ actor' = [actor EXCEPT ![w] = [[@ EXCEPT ![c] = y] EXCEPT ![a] = FreshActor]]
        BY <1>3, <2>1, <2>2, <2>3, <2>4 DEF SpawnAndInstall
    <2>6. a \in Free(w)
        BY <2>1, <2>5
    <2>7. a \in Actors /\ a # c /\ ~Live(actor[w][a])
        BY <2>2, <2>6 DEF Free
    <2>8. /\ c \in Actors /\ Cur(w) = actor[w][c] /\ Cur(w) \in ActorType
          /\ SlotOK(worker[w], actor[w], orphaned[w]) /\ worker[w].then \in {"idle", "send"}
          /\ actor[w] \in [Actors -> ActorType]
        BY <2>2, SlotFacts
    <2>9. /\ {"idle", "send"} \subseteq Pcs /\ "install" \notin Past /\ "install" # "swap"
          /\ {"idle", "send"} \cap {"swap", "install", "reserve", "join"} = {}
          /\ {"idle", "send"} \cap Past = {}
        BY SMTT(30) DEF Pcs, Past
    <2>10. <<>> \in Seq(Commands) /\ "shutdown" \in Commands
        BY SMTT(30) DEF Commands
    <2>11. t \in SlotType /\ t.cur = a /\ t.pc \in {"idle", "send"}
        <3>1. t \in SlotType
            BY <2>4, <2>7, <2>8, <2>9, SlotTyped, ZenonT(30)
        <3> QED
            BY <2>4, <2>8, <3>1 DEF Slot
    <2>12. /\ worker' \in [Workers -> SlotType] /\ worker'[w] = t
           /\ \A v \in Workers \ {w} : worker'[v] = worker[v]
        BY <2>5, <2>11, BecomesEffect DEF ActorsInv
    <2>13. NoActor \in ActorType /\ FreshActor \in ActorType
        BY <2>10, ActorTyped DEF NoActor, FreshActor
    <2>14. /\ FreshActor.handle = TRUE /\ FreshActor.thread = "idle" /\ FreshActor.status = "running"
           /\ NoActor.thread = "none" /\ NoActor.status = "running"
        BY DEF FreshActor, NoActor, Actor
    <2>15. /\ ActorOK(FreshActor) /\ ~Detached(FreshActor)
           /\ ActorOK(NoActor) /\ ~Detached(NoActor) /\ ~Live(NoActor)
        BY <2>14 DEF ActorOK, Detached, Live
    <2>16. /\ y \in ActorType /\ ActorOK(y) /\ (Live(y) => Detached(y))
           /\ Detached(y) <=> Detached(Cur(w))
        <3>1. PICK x : x = Sent(Cur(w), "shutdown")
            OBVIOUS
        <3>2. x \in ActorType /\ SameKind(Cur(w), x) /\ ActorOK(Cur(w))
            BY <2>8, <2>10, <3>1, SentKind DEF SlotOK, ThreadsOK
        <3>3. /\ Live(x) <=> Live(Cur(w))
              /\ Detached(x) <=> Detached(Cur(w))
              /\ ActorOK(x)
            BY <3>2, KindKept
        <3>4. Live(Cur(w)) => Detached(Cur(w))
            BY <1>1, <2>2, <2>8 DEF SlotOK, ThreadsOK, PlaceOK
        <3>5. CASE x.thread = "done"
            <4>1. y = NoActor
                BY <2>3, <3>1, <3>5 DEF Settled
            <4>2. ~Live(x)
                BY <3>5 DEF Live
            <4> QED
                BY <2>13, <2>15, <3>3, <3>2, <4>1, <4>2, ZenonT(30) DEF ActorOK
        <3>6. CASE x.thread # "done"
            <4>1. y = x
                BY <2>3, <3>1, <3>6 DEF Settled
            <4> QED
                BY <3>2, <3>3, <3>4, <4>1
        <3> QED
            BY <3>5, <3>6
    <2>17. /\ actor' \in [Workers -> [Actors -> ActorType]]
           /\ actor'[w][a] = FreshActor /\ actor'[w][c] = y
           /\ \A b \in Actors \ {a, c} : actor'[w][b] = actor[w][b]
           /\ \A v \in Workers \ {w} : actor'[v] = actor[v]
        <3>1. PICK f : f = [actor[w] EXCEPT ![c] = y]
            OBVIOUS
        <3>2. /\ f \in [Actors -> ActorType] /\ f[c] = y
              /\ \A b \in Actors \ {c} : f[b] = actor[w][b]
            BY <2>8, <2>16, <3>1
        <3>3. PICK g : g = [f EXCEPT ![a] = FreshActor]
            OBVIOUS
        <3>4. /\ g \in [Actors -> ActorType] /\ g[a] = FreshActor /\ g[c] = y
              /\ \A b \in Actors \ {a, c} : g[b] = actor[w][b]
            BY <2>7, <2>8, <2>13, <3>2, <3>3, ZenonT(30)
        <3>5. actor' = [actor EXCEPT ![w] = g]
            BY <2>5, <3>1, <3>3
        <3> QED
            BY <3>4, <3>5 DEF ActorsInv, ActorsTyped
    <2>18. \A b \in Actors : Detached(actor'[w][b]) <=> Detached(actor[w][b])
        <3>1. ~Detached(actor[w][a])
            BY <2>7, <2>8 DEF SlotOK, ThreadsOK, ActorOK
        <3> QED
            BY <2>8, <2>15, <2>16, <2>17, <3>1, ZenonT(30)
    <2>19. \A b \in Actors \ {a} : Live(actor'[w][b]) => Detached(actor'[w][b])
        <3>1. \A b \in Actors \ {c} : Live(actor[w][b]) => Detached(actor[w][b])
            BY <2>2, <2>8 DEF SlotOK, ThreadsOK
        <3> QED
            BY <2>16, <2>17, <3>1
    <2>20. \/ orphaned[w] = 0 /\ \A b \in Actors : ~Detached(actor[w][b])
           \/ /\ orphaned[w] = 1
              /\ \E d \in Actors : /\ Detached(actor[w][d])
                                   /\ \A b \in Actors : Detached(actor[w][b]) => b = d
        BY <1>1, <2>8, <2>9 DEF SlotOK, CountOK
    <2>21. \A b, d \in Actors : Detached(actor[w][b]) /\ Detached(actor[w][d]) => b = d
        BY <2>20
    <2>22. ThreadsOK(worker'[w], actor'[w])
        <3>1. \A b \in Actors : ActorOK(actor'[w][b])
            BY <2>8, <2>15, <2>16, <2>17, ZenonT(30) DEF SlotOK, ThreadsOK
        <3>2. \A b, d \in Actors \ {a} : Live(actor'[w][b]) /\ Live(actor'[w][d]) => b = d
            BY <2>18, <2>19, <2>21
        <3> QED
            BY <2>11, <2>12, <2>14, <2>15, <2>17, <2>19, <3>1, <3>2, ZenonT(30) DEF ThreadsOK
    <2>23. t.pc \notin {"swap", "install", "reserve", "join"} /\ t.pc \notin Past
        BY <2>9, <2>11
    <2>24. PlaceOK(worker'[w], actor'[w])
        BY <2>12, <2>23 DEF PlaceOK
    <2>25. CountOK(worker'[w], actor'[w], orphaned'[w])
        BY <1>1, <2>12, <2>18, <2>20, <2>23, ZenonT(30) DEF CountOK
    <2>26. ActorsTyped' /\ Elsewhere(w)
        BY <1>1, <2>12, <2>17 DEF ActorsTyped, ActorsInv, Elsewhere
    <2> QED
        BY <2>22, <2>24, <2>25, <2>26, OneSlot DEF SlotOK
<1> QED
    BY <1>2, <1>3

\* The renderer is dropped.
LEMMA DropSteps ==
    ASSUME ActorsInv, NEW w \in Workers, DropJoin(w) \/ DropDetach(w) \/ DropReserve(w)
    PROVE  ActorsInv'
<1>1. /\ "dropped" \in Pcs /\ "detached" \in Pcs /\ "dropped" \in Past /\ "detached" \in Past
      /\ "dropping" \notin Past /\ "finished" # "running"
      /\ {"detached", "dropped"} \cap {"swap", "install", "reserve", "join"} = {}
      /\ "dropping" # "swap"
    BY SMTT(30) DEF Pcs, Past
<1>2. PICK c : c = worker[w].cur
    OBVIOUS
<1>3. /\ c \in Actors /\ Cur(w) = actor[w][c] /\ Cur(w) \in ActorType
      /\ SlotOK(worker[w], actor[w], orphaned[w]) /\ orphaned[w] \in Nat
    BY <1>2, SlotFacts
<1>4. PICK pc \in {"detached", "dropped"} : Moves(w, pc)
    BY DEF DropJoin, DropDetach, DropReserve
<1>5. pc \in Pcs /\ pc \in Past /\ pc \notin {"swap", "install", "reserve", "join"}
    BY <1>1
<1>6. /\ worker' \in [Workers -> SlotType]
      /\ worker'[w].pc = pc /\ worker'[w].cur = c
      /\ \A v \in Workers \ {w} : worker'[v] = worker[v]
    BY <1>2, <1>4, <1>5, MovesEffect DEF ActorsInv
<1>7. PlaceOK(worker'[w], actor'[w]) /\ CountOK(worker'[w], actor'[w], orphaned'[w])
    BY <1>5, <1>6 DEF PlaceOK, CountOK
<1>8. CASE DropJoin(w) \/ DropReserve(w)
    <2>1. UNCHANGED actor
        BY <1>8 DEF DropJoin, DropReserve
    <2>2. /\ orphaned' \in [Workers -> Nat]
          /\ \A v \in Workers \ {w} : orphaned'[v] = orphaned[v]
        <3>1. CASE UNCHANGED orphaned
            BY <3>1 DEF ActorsInv, ActorsTyped
        <3>2. CASE orphaned' = [orphaned EXCEPT ![w] = @ + 1]
            <4>1. orphaned[w] + 1 \in Nat
                BY <1>3, SMTT(30)
            <4> QED
                BY <3>2, <4>1 DEF ActorsInv, ActorsTyped
        <3> QED
            BY <1>8, <3>1, <3>2 DEF DropJoin, DropReserve
    <2>3. ThreadsOK(worker'[w], actor'[w])
        BY <1>2, <1>3, <1>5, <1>6, <2>1, ZenonT(30) DEF SlotOK, ThreadsOK
    <2>4. ActorsTyped' /\ Elsewhere(w)
        BY <1>6, <2>1, <2>2, ZenonT(30) DEF ActorsTyped, ActorsInv, Elsewhere
    <2> QED
        BY <1>7, <2>3, <2>4, OneSlot DEF SlotOK
<1>9. CASE DropDetach(w)
    <2>1. PICK x : x = [Cur(w) EXCEPT !.status = "orphaned"]
        OBVIOUS
    <2>2. /\ x \in ActorType /\ x.handle = Cur(w).handle /\ x.status = "orphaned"
          /\ x.thread = Cur(w).thread
        BY <1>3, <2>1 DEF ActorType
    <2>3. Cur(w).status = "running" /\ Sets(w, c, x) /\ UNCHANGED orphaned
        BY <1>2, <1>9, <2>1 DEF DropDetach
    <2>4. /\ actor' \in [Workers -> [Actors -> ActorType]] /\ actor'[w][c] = x
          /\ \A b \in Actors \ {c} : actor'[w][b] = actor[w][b]
          /\ \A v \in Workers \ {w} : actor'[v] = actor[v]
        BY <1>3, <2>2, <2>3, SetsEffect DEF ActorsInv
    <2>5. Cur(w).thread \notin {"none", "releasing", "done"}
        BY <1>1, <1>2, <1>3, <2>3, ZenonT(30) DEF SlotOK, ThreadsOK, ActorOK
    <2>6. Live(x) /\ Detached(x) /\ ActorOK(x) /\ x.thread # "none"
        BY <2>2, <2>5 DEF Live, Detached, ActorOK
    <2>7. ThreadsOK(worker'[w], actor'[w])
        <3>1. \A a \in Actors : ActorOK(actor'[w][a])
            BY <1>3, <2>4, <2>6 DEF SlotOK, ThreadsOK
        <3>2. /\ \A a \in Actors \ {c} : Live(actor'[w][a]) => Detached(actor'[w][a])
              /\ \A a, b \in Actors \ {c} : Live(actor'[w][a]) /\ Live(actor'[w][b]) => a = b
            BY <1>2, <1>3, <2>4 DEF SlotOK, ThreadsOK
        <3> QED
            BY <1>5, <1>6, <2>4, <2>6, <3>1, <3>2, ZenonT(30) DEF ThreadsOK
    <2>8. ActorsTyped' /\ Elsewhere(w)
        BY <1>6, <2>3, <2>4 DEF ActorsTyped, ActorsInv, Elsewhere
    <2> QED
        BY <1>7, <2>7, <2>8, OneSlot DEF SlotOK
<1> QED
    BY <1>8, <1>9

\* A thread goes on, returns or unwinds.
LEMMA RunningThreadSteps ==
    ASSUME ActorsInv, NEW w \in Workers, NEW a \in Actors,
           ThreadTakes(w, a) \/ NativeReturns(w, a) \/ ThreadDies(w, a)
    PROVE  ActorsInv'
<1>1. actor[w][a] \in ActorType
    BY SlotFacts
<1>2. PICK x \in ActorType : Sets(w, a, x) /\ SameKind(actor[w][a], x)
    <2>1. CASE ThreadTakes(w, a)
        <3>1. PICK x : x = Actor(actor[w][a].handle, actor[w][a].status,
                                 IF Head(actor[w][a].cmds) = "run" THEN "native" ELSE "exiting",
                                 Tail(actor[w][a].cmds))
            OBVIOUS
        <3>2. /\ actor[w][a].thread = "idle" /\ actor[w][a].cmds # <<>> /\ Sets(w, a, x)
            BY <2>1, <3>1 DEF ThreadTakes
        <3>3. /\ actor[w][a].handle \in BOOLEAN /\ actor[w][a].cmds \in Seq(Commands)
              /\ actor[w][a].status \in {"running", "orphaned", "finished"}
            BY <1>1 DEF ActorType
        <3>4. Tail(actor[w][a].cmds) \in Seq(Commands)
            BY <3>2, <3>3, SMTT(30)
        <3>5. x \in ActorType
            BY <3>1, <3>3, <3>4, ActorTyped
        <3>6. /\ x.handle = actor[w][a].handle /\ x.status = actor[w][a].status
              /\ x.thread \in {"native", "exiting"}
            BY <3>1 DEF Actor
        <3>7. SameKind(actor[w][a], x)
            BY <3>2, <3>6 DEF SameKind
        <3> QED
            BY <3>2, <3>5, <3>7
    <2>2. CASE NativeReturns(w, a)
        <3>1. PICK x : x = [actor[w][a] EXCEPT !.thread = "idle"]
            OBVIOUS
        <3>2. x \in ActorType /\ x.handle = actor[w][a].handle /\ x.status = actor[w][a].status
              /\ x.thread = "idle"
            BY <1>1, <3>1 DEF ActorType
        <3>3. Sets(w, a, x) /\ actor[w][a].thread = "native"
            BY <2>2, <3>1 DEF NativeReturns
        <3> QED
            BY <3>2, <3>3 DEF SameKind
    <2>3. CASE ThreadDies(w, a)
        <3>1. PICK x : x = [actor[w][a] EXCEPT !.thread = "exiting"]
            OBVIOUS
        <3>2. x \in ActorType /\ x.handle = actor[w][a].handle /\ x.status = actor[w][a].status
              /\ x.thread = "exiting"
            BY <1>1, <3>1 DEF ActorType
        <3>3. Sets(w, a, x) /\ actor[w][a].thread = "idle"
            BY <2>3, <3>1 DEF ThreadDies
        <3> QED
            BY <3>2, <3>3 DEF SameKind
    <2> QED
        BY <2>1, <2>2, <2>3
<1>3. /\ actor' \in [Workers -> [Actors -> ActorType]] /\ actor'[w][a] = x
      /\ \A b \in Actors \ {a} : actor'[w][b] = actor[w][b]
      /\ \A v \in Workers \ {w} : actor'[v] = actor[v]
    BY <1>2, SetsEffect DEF ActorsInv
<1>4. \A b \in Actors : SameKind(actor[w][b], actor'[w][b])
    BY <1>2, <1>3, KindReflexive
<1>5. orphaned' = orphaned
    BY DEF ThreadTakes, NativeReturns, ThreadDies
<1>6. UNCHANGED worker \/ (worker[w].pc = "call" /\ Moves(w, "idle"))
    BY DEF ThreadTakes, NativeReturns, ThreadDies, Reply
<1>7. /\ "idle" \in Pcs /\ "idle" \notin {"swap", "install", "reserve", "join"}
      /\ "call" \notin Past /\ "call" # "swap"
    BY SMTT(30) DEF Pcs, Past
<1>8. /\ worker' \in [Workers -> SlotType] /\ worker'[w].cur = worker[w].cur
      /\ \A v \in Workers \ {w} : worker'[v] = worker[v]
      /\ worker'[w].pc = worker[w].pc \/ (worker[w].pc = "call" /\ worker'[w].pc = "idle")
    <2>1. CASE UNCHANGED worker
        BY <2>1 DEF ActorsInv, ActorsTyped
    <2>2. CASE worker[w].pc = "call" /\ Moves(w, "idle")
        BY <1>7, <2>2, MovesEffect DEF ActorsInv
    <2> QED
        BY <1>6, <2>1, <2>2
<1>9. /\ worker[w].pc = "install" => ~Cur(w).handle \/ ~Live(Cur(w))
      /\ worker[w].pc \in {"reserve", "swap", "join"} => Cur(w).handle
    BY SlotFacts DEF SlotOK, PlaceOK
<1>10. CASE worker'[w].pc = worker[w].pc
    BY <1>3, <1>4, <1>5, <1>8, <1>9, <1>10, CalmStep, ZenonT(30)
<1>11. CASE worker[w].pc = "call" /\ worker'[w].pc = "idle"
    BY <1>3, <1>4, <1>5, <1>7, <1>8, <1>11, CalmStep, ZenonT(30)
<1> QED
    BY <1>8, <1>10, <1>11

\* A thread says that it finished, and learns whether it was an orphan.
LEMMA ExitSwapStep ==
    ASSUME ActorsInv, NEW w \in Workers, NEW a \in Actors, ExitSwap(w, a)
    PROVE  ActorsInv'
<1>1. /\ actor[w][a] \in ActorType /\ SlotOK(worker[w], actor[w], orphaned[w])
      /\ worker[w].cur \in Actors
    BY SlotFacts
<1>2. PICK x : x = Actor(actor[w][a].handle, "finished",
                         IF actor[w][a].status = "orphaned" THEN "releasing" ELSE "done", <<>>)
    OBVIOUS
<1>3. actor[w][a].thread = "exiting" /\ Sets(w, a, x) /\ UNCHANGED <<worker, orphaned>>
    BY <1>2 DEF ExitSwap
<1>4. /\ x.handle = actor[w][a].handle /\ x.status = "finished"
      /\ x.thread = IF actor[w][a].status = "orphaned" THEN "releasing" ELSE "done"
    BY <1>2 DEF Actor
<1>5. x \in ActorType
    <2>1. actor[w][a].handle \in BOOLEAN
        BY <1>1 DEF ActorType
    <2>2. <<>> \in Seq(Commands)
        BY SMTT(30)
    <2> QED
        BY <1>2, <2>1, <2>2, ActorTyped
<1>6. /\ actor' \in [Workers -> [Actors -> ActorType]] /\ actor'[w][a] = x
      /\ \A b \in Actors \ {a} : actor'[w][b] = actor[w][b]
      /\ \A v \in Workers \ {w} : actor'[v] = actor[v]
    BY <1>3, <1>5, SetsEffect, ZenonT(30) DEF ActorsInv
<1>7. /\ Detached(x) <=> Detached(actor[w][a])
      /\ Live(x) => Detached(x)
      /\ Live(actor[w][a]) /\ ActorOK(x) /\ x.thread # "none"
    BY <1>3, <1>4, SMTT(30) DEF Detached, Live, ActorOK
<1>8. \A b \in Actors : /\ Detached(actor'[w][b]) <=> Detached(actor[w][b])
                        /\ Live(actor'[w][b]) => Live(actor[w][b])
                        /\ ActorOK(actor'[w][b]) /\ actor'[w][b].handle = actor[w][b].handle
    BY <1>1, <1>4, <1>6, <1>7 DEF SlotOK, ThreadsOK
<1>9. actor'[w][worker[w].cur].thread # "none"
    BY <1>1, <1>6, <1>7 DEF SlotOK, ThreadsOK
<1>10. ThreadsOK(worker'[w], actor'[w])
    BY <1>1, <1>3, <1>8, <1>9 DEF SlotOK, ThreadsOK
<1>11. PlaceOK(worker'[w], actor'[w]) /\ CountOK(worker'[w], actor'[w], orphaned'[w])
    BY <1>1, <1>3, <1>8, ZenonT(30) DEF SlotOK, PlaceOK, CountOK
<1>12. ActorsTyped' /\ Elsewhere(w)
    BY <1>3, <1>6 DEF ActorsTyped, ActorsInv, Elsewhere
<1> QED
    BY <1>10, <1>11, <1>12, OneSlot DEF SlotOK

\* An orphan gives its room back.
LEMMA ExitReleaseStep ==
    ASSUME ActorsInv, NEW w \in Workers, NEW a \in Actors, ExitRelease(w, a)
    PROVE  ActorsInv'
<1>1. /\ actor[w][a] \in ActorType /\ SlotOK(worker[w], actor[w], orphaned[w])
      /\ worker[w].cur \in Actors
    BY SlotFacts
<1>2. PICK z : z = [actor[w][a] EXCEPT !.thread = "done"]
    OBVIOUS
<1>3. PICK x : x = Settled(worker[w].cur = a, z)
    OBVIOUS
<1>4. /\ actor[w][a].thread = "releasing" /\ Sets(w, a, x) /\ ReleaseOrphan(w)
      /\ UNCHANGED worker
    BY <1>2, <1>3 DEF ExitRelease
<1>5. /\ z \in ActorType /\ z.thread = "done" /\ z.handle = actor[w][a].handle
      /\ z.status = actor[w][a].status
    BY <1>1, <1>2 DEF ActorType
<1>6. z.status = "finished" /\ Detached(actor[w][a])
    BY <1>1, <1>4, <1>5 DEF SlotOK, ThreadsOK, ActorOK, Detached
<1>7. NoActor \in ActorType /\ NoActor.thread = "none" /\ NoActor.status = "running"
    <2>1. <<>> \in Seq(Commands)
        BY SMTT(30)
    <2>2. NoActor \in ActorType
        BY <2>1, ActorTyped DEF NoActor
    <2> QED
        BY <2>2 DEF NoActor, Actor
<1>8. (worker[w].cur = a => x = z) /\ (worker[w].cur # a => x = NoActor)
    BY <1>3, <1>5 DEF Settled
<1>9. x \in ActorType /\ ~Live(x) /\ ~Detached(x) /\ ActorOK(x)
    <2>1. ~Live(z) /\ ~Detached(z) /\ ActorOK(z)
        BY <1>5, <1>6, SMTT(30) DEF Live, Detached, ActorOK
    <2>2. ~Live(NoActor) /\ ~Detached(NoActor) /\ ActorOK(NoActor)
        BY <1>7, SMTT(30) DEF Live, Detached, ActorOK
    <2> QED
        BY <1>5, <1>7, <1>8, <2>1, <2>2, ZenonT(30)
<1>10. /\ actor' \in [Workers -> [Actors -> ActorType]] /\ actor'[w][a] = x
       /\ \A b \in Actors \ {a} : actor'[w][b] = actor[w][b]
       /\ \A v \in Workers \ {w} : actor'[v] = actor[v]
    BY <1>4, <1>9, SetsEffect DEF ActorsInv
<1>11. \A b \in Actors : /\ Detached(actor'[w][b]) => Detached(actor[w][b]) /\ b # a
                         /\ Live(actor'[w][b]) => /\ Live(actor[w][b])
                                                  /\ Detached(actor[w][b]) => Detached(actor'[w][b])
                         /\ ActorOK(actor'[w][b])
    BY <1>1, <1>9, <1>10 DEF SlotOK, ThreadsOK
<1>12. /\ actor'[w][worker[w].cur].thread # "none"
       /\ actor'[w][worker[w].cur].handle = actor[w][worker[w].cur].handle
    BY <1>1, <1>5, <1>8, <1>10 DEF SlotOK, ThreadsOK
<1>13. ThreadsOK(worker'[w], actor'[w])
    BY <1>1, <1>4, <1>11, <1>12 DEF SlotOK, ThreadsOK
<1>14. PlaceOK(worker'[w], actor'[w])
    BY <1>1, <1>4, <1>11, <1>12 DEF SlotOK, PlaceOK
<1>15. /\ orphaned' \in [Workers -> Nat]
       /\ orphaned[w] = 1 => orphaned'[w] = 0
       /\ \A v \in Workers \ {w} : orphaned'[v] = orphaned[v]
    BY <1>4, ReleaseEffect
<1>16. CountOK(worker'[w], actor'[w], orphaned'[w])
    <2> SUFFICES ASSUME worker[w].pc \notin Past
                 PROVE  /\ orphaned'[w] = 0 /\ worker[w].pc # "swap"
                        /\ \A b \in Actors : ~Detached(actor'[w][b])
        BY <1>4 DEF CountOK
    <2>1. /\ worker[w].pc # "swap" /\ orphaned[w] = 1
          /\ \A b \in Actors : Detached(actor[w][b]) => b = a
        BY <1>1, <1>6 DEF SlotOK, CountOK
    <2> QED
        BY <1>11, <1>15, <2>1
<1>17. ActorsTyped' /\ Elsewhere(w)
    BY <1>4, <1>10, <1>15 DEF ActorsTyped, ActorsInv, Elsewhere
<1> QED
    BY <1>13, <1>14, <1>16, <1>17, OneSlot, ZenonT(30) DEF SlotOK

\* The renderers start with one thread each.
LEMMA ActorsStart == ActorInit => ActorsInv
<1> SUFFICES ASSUME ActorInit
             PROVE  ActorsInv
    OBVIOUS
<1>1. PICK first \in Actors : first = CHOOSE a \in Actors : TRUE
    BY ActorsAssumption
<1>2. "idle" \in Pcs /\ "idle" \notin Past /\ "idle" \notin {"swap", "install", "reserve", "join"}
      /\ 0 \in Nat /\ <<>> \in Seq(Commands)
    BY SMTT(30) DEF Pcs, Past
<1>3. PICK s : s = Slot("idle", "idle", first, FALSE, TRUE)
    OBVIOUS
<1>4. s \in SlotType /\ s.pc = "idle" /\ s.cur = first
    <2>1. s \in SlotType
        BY <1>2, <1>3, SlotTyped
    <2> QED
        BY <1>3, <2>1 DEF Slot
<1>5. NoActor \in ActorType /\ FreshActor \in ActorType
    BY <1>2, ActorTyped DEF NoActor, FreshActor
<1>6. /\ FreshActor.handle = TRUE /\ FreshActor.thread = "idle" /\ FreshActor.status = "running"
      /\ NoActor.thread = "none" /\ NoActor.status = "running"
    BY DEF FreshActor, NoActor, Actor
<1>7. /\ ActorOK(FreshActor) /\ ~Detached(FreshActor) /\ FreshActor.thread # "none"
      /\ ActorOK(NoActor) /\ ~Detached(NoActor) /\ ~Live(NoActor)
    BY <1>6, SMTT(30) DEF ActorOK, Detached, Live
<1>8. PICK f : f = [a \in Actors |-> IF a = first THEN FreshActor ELSE NoActor]
    OBVIOUS
<1>9. /\ f \in [Actors -> ActorType] /\ f[first] = FreshActor
      /\ \A a \in Actors \ {first} : f[a] = NoActor
    BY <1>5, <1>8
<1>10. ThreadsOK(s, f)
    BY <1>4, <1>6, <1>7, <1>9 DEF ThreadsOK
<1>11. PlaceOK(s, f) /\ CountOK(s, f, 0)
    BY <1>2, <1>4, <1>7, <1>9 DEF PlaceOK, CountOK
<1>12. /\ worker = [w \in Workers |-> s] /\ actor = [w \in Workers |-> f]
       /\ orphaned = [w \in Workers |-> 0]
    BY <1>1, <1>3, <1>8 DEF ActorInit
<1>13. ActorsTyped
    BY <1>2, <1>4, <1>9, <1>12 DEF ActorsTyped
<1>14. \A w \in Workers : SlotOK(worker[w], actor[w], orphaned[w])
    BY <1>10, <1>11, <1>12 DEF SlotOK
<1> QED
    BY <1>13, <1>14 DEF ActorsInv

\* The renderer threads' invariant is inductive.
LEMMA ActorsStep ==
    ASSUME ActorsInv, [ActorNext]_actorVars
    PROVE  ActorsInv'
<1>1. CASE UNCHANGED actorVars
    BY <1>1 DEF actorVars, ActorsInv, ActorsTyped
<1>2. CASE ActorNext
    <2>1. PICK w \in Workers :
             \/ Call(w) \/ SendCommand(w) \/ RetireAfterCurrent(w) \/ Repair(w)
             \/ Replacement(w)
             \/ DropActor(w) \/ Dropping(w)
             \/ \E a \in Actors : Thread(w, a) \/ NativeReturns(w, a) \/ ThreadDies(w, a)
        BY <1>2 DEF ActorNext
    <2>2. CASE Call(w) \/ Repair(w)
        BY <2>2, CallSteps
    <2>3. CASE SendCommand(w) \/ RetireAfterCurrent(w) \/ DropActor(w)
        BY <2>3, SendSteps
    <2>4. CASE Replacement(w)
        BY <2>4, CheckSteps, ReserveStep, SwapStep, InstallStep, ZenonT(30) DEF Replacement
    <2>5. CASE Dropping(w)
        BY <2>5, DropSteps DEF Dropping
    <2>6. CASE \E a \in Actors : Thread(w, a) \/ NativeReturns(w, a) \/ ThreadDies(w, a)
        BY <2>6, RunningThreadSteps, ExitSwapStep, ExitReleaseStep DEF Thread
    <2> QED
        BY <2>1, <2>2, <2>3, <2>4, <2>5, <2>6, ZenonT(30)
<1> QED
    BY <1>1, <1>2

\* The sets behind the invariant have as many elements as it says.
LEMMA OrphansFollow == ActorsInv => OrphansExact
<1> SUFFICES ASSUME ActorsInv
             PROVE  OrphansExact
    OBVIOUS
<1>1. ASSUME NEW w \in Workers, worker[w].pc \notin {"detached", "dropped"}
      PROVE  orphaned[w] = Cardinality(OrphanThreads(w)) + (IF worker[w].pc = "swap" THEN 1 ELSE 0)
    <2>1. CountOK(worker[w], actor[w], orphaned[w])
        BY SlotFacts DEF SlotOK
    <2>2. CASE orphaned[w] = (IF worker[w].pc = "swap" THEN 1 ELSE 0)
               /\ \A a \in Actors : ~Detached(actor[w][a])
        <3>1. OrphanThreads(w) = {}
            BY <2>2 DEF OrphanThreads
        <3>2. Cardinality(OrphanThreads(w)) = 0
            BY <3>1, FS_EmptySet
        <3> QED
            BY <2>2, <3>2, SMTT(30)
    <2>3. CASE /\ worker[w].pc # "swap" /\ orphaned[w] = 1
               /\ \E a \in Actors : Detached(actor[w][a])
                                    /\ \A b \in Actors : Detached(actor[w][b]) => b = a
        <3>1. PICK a \in Actors : Detached(actor[w][a])
                                  /\ \A b \in Actors : Detached(actor[w][b]) => b = a
            BY <2>3
        <3>2. OrphanThreads(w) = {a}
            BY <3>1 DEF OrphanThreads
        <3>3. Cardinality(OrphanThreads(w)) = 1
            BY <3>2, FS_Singleton
        <3> QED
            BY <2>3, <3>3, SMTT(30)
    <2> QED
        BY <1>1, <2>1, <2>2, <2>3 DEF CountOK, Past
<1>2. ASSUME NEW w \in Workers
      PROVE  Cardinality(Threads(w)) <= 2
    <2>1. PICK c \in Actors : c = worker[w].cur
        BY SlotFacts
    <2>2. \A a, b \in Actors \ {c} : Live(actor[w][a]) /\ Live(actor[w][b]) => a = b
        BY <2>1, SlotFacts DEF SlotOK, ThreadsOK
    <2>3. PICK d \in Actors : \A a \in Actors \ {c} : Live(actor[w][a]) => a = d
        <3>1. CASE \E a \in Actors \ {c} : Live(actor[w][a])
            BY <2>2, <3>1
        <3>2. CASE ~\E a \in Actors \ {c} : Live(actor[w][a])
            BY <2>1, <3>2
        <3> QED
            BY <3>1, <3>2
    <2>4. Threads(w) \subseteq {c} \cup {d}
        BY <2>3 DEF Threads
    <2>5. IsFiniteSet({c} \cup {d}) /\ Cardinality({c} \cup {d}) <= 2
        <3>1. /\ IsFiniteSet({c}) /\ Cardinality({c}) = 1
              /\ IsFiniteSet({d}) /\ Cardinality({d}) = 1
            BY FS_Singleton
        <3>2. CASE c = d
            <4>1. {c} \cup {d} = {c}
                BY <3>2
            <4> QED
                BY <3>1, <4>1, SMTT(30)
        <3>3. CASE c # d
            <4>1. /\ IsFiniteSet({c} \cup {d})
                  /\ Cardinality({c} \cup {d}) = Cardinality({c}) + 1
                BY <3>1, <3>3, FS_AddElement
            <4> QED
                BY <3>1, <4>1, SMTT(30)
        <3> QED
            BY <3>2, <3>3
    <2>6. /\ Cardinality(Threads(w)) <= Cardinality({c} \cup {d})
          /\ Cardinality(Threads(w)) \in Nat /\ Cardinality({c} \cup {d}) \in Nat
        BY <2>4, <2>5, FS_Subset, FS_CardinalityType
    <2> QED
        BY <2>5, <2>6, SMTT(30)
<1> QED
    BY <1>1, <1>2 DEF OrphansExact, ThreadsBounded

\* The supervisor's count of a slot's orphans is exact, and a slot has at most two
\* threads, for any number of slots, wedged calls, deaths and failed spawns, and
\* whichever of try_abandon and ActorThreadExit is faster.
THEOREM OrphansStayExact == ActorSpec => []OrphansExact
<1>1. ActorInit => ActorsInv
    BY ActorsStart
<1>2. ActorsInv /\ [ActorNext]_actorVars => ActorsInv'
    BY ActorsStep
<1>3. ActorsInv => OrphansExact
    BY OrphansFollow
<1> QED
    BY <1>1, <1>2, <1>3, PTL DEF ActorSpec
=============================================================================
