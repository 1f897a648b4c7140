------------------------------- MODULE BieiNode -------------------------------
(***************************************************************************)
(* Biei's request path across nodes: Node::handle_incoming and             *)
(* handle_forwarded (biei-core/src/node.rs), the dispatcher that routes a  *)
(* task (biei-core/src/dispatcher.rs) and the HTTP forwarding between      *)
(* nodes (servers/biei/src/http/internal.rs).                              *)
(*                                                                         *)
(* A handler is a pair <<t, k>>: k = 0 is the ingress handler of task t on *)
(* its entry node, k > 0 the handler of its k-th forwarding attempt.  The  *)
(* render output cache (RenderCache) and the worker pool (WorkerPool) of a *)
(* node are abstracted to what a handler sees of them: a cached flag and a *)
(* flight per key, and one renderer slot with a bounded queue.  All tasks  *)
(* need the same worker profile, so a slot is fresh, warm or holds another *)
(* profile.                                                                *)
(***************************************************************************)
EXTENDS Integers, Sequences, FiniteSets

CONSTANTS
    Nodes,       \* renderer nodes, the members of every cluster view
    Tasks,       \* render tasks
    Keys,        \* render output cache keys
    KeyOf,       \* KeyOf[t]: the key of task t
    None,        \* no flight leader
    Rank,        \* the nodes in HRW order of the profile
    BLCapacity,  \* soft queue limit of a slot
    QueueCapacity,\* hard queue limit of a slot
    DrainMaxQueue,\* queue depth below which tier 3 may evict a profile
    Scenarios     \* initial situations: entry nodes of the tasks, slots, load,
                  \* nodes that do not use the output cache, and a bound on
                  \* the changes the nodes make on their own

\* DEFAULT_FORWARD_CANDIDATES
ForwardCandidates == 2

Handlers == Tasks \X (0..ForwardCandidates)
Ingress(t) == <<t, 0>>
IsForwarded(h) == h[2] > 0

Loaded == {"fresh", "warm", "other"}

VARIABLES
    \* nodes
    healthy,  \* render_admission: the supervisor lets renders start
    slot,     \* the profile the slot is committed to
    load,     \* commands of other requests in the slot's queue
    pool,     \* handlers whose command is queued or runs on the slot
    accepts,  \* StyleCatalog::accepts_revision for the tasks' revision
    uncached, \* nodes that bypass the output cache
    gossip,   \* the state each node published last
    flight,   \* leader of the flight of each key
    cached,   \* keys with a rendered output
    \* handlers
    pc,       \* where a handler is
    at,       \* the node it runs on
    outcome,  \* its TaskOutcome
    \* forwarding loop of a task
    cands,    \* remaining forwarding candidates
    tried,    \* attempts made
    seen,     \* what failed attempts reported
    \* history and bounds
    native,   \* handlers whose native render started
    changes    \* health, catalog, gossip and load changes still to come

nodeVars == <<healthy, slot, load, accepts, uncached, gossip>>
forwardVars == <<cands, tried, seen>>
vars == <<nodeVars, pool, flight, cached, pc, at, outcome, forwardVars, native,
          changes>>

Phases == {"absent", "new", "wait", "woken", "view", "local", "prepare", "pool",
           "forward", "sent", "overflow", "overflowPool", "posted", "lost", "done"}

\* is_retryable_at_forward: rejections another node may not repeat.  No code
\* rejects a request with DrainTooSlow yet.
Retryable == {"queueFull", "noCapacity", "degraded", "drainTooSlow"}

Rejections == Retryable \cup {"unknownStyle", "forwardFailed", "deadlineTooClose",
                              "deadlineExceeded"}

Outcomes == Rejections \cup {"none", "completed", "failed"}

NoReports == [rejection |-> "none", unconverged |-> FALSE, transport |-> FALSE]

Key(h) == KeyOf[h[1]]

InPool(h) == pc[h] \in {"pool", "overflowPool"}

-----------------------------------------------------------------------------
(* Admission                                                               *)

Depth(n) == load[n] + Cardinality(pool[n])

\* A slot is hidden while a native call goes on after its response deadline.
SlotOpen(n) == \A h \in pool[n] : h \in native => InPool(h)

\* Node::can_start_render
CanStart(n) == healthy[n] /\ SlotOpen(n)

\* WorkerPool::process reserves a place in the queue of an available slot.
HasRoom(n) == SlotOpen(n) /\ Depth(n) < QueueCapacity

LocalState(n) == [accepting |-> CanStart(n), depth |-> Depth(n), loaded |-> slot[n]]

\* What the publisher sends: health, not the availability of the slot.
PublishedState(n) == [LocalState(n) EXCEPT !.accepting = healthy[n]]

-----------------------------------------------------------------------------
(* The dispatcher                                                          *)

\* DispatchView: the gossiped states with the local one in place of its own.
ViewAt(n) == [gossip EXCEPT ![n] = LocalState(n)]

Below(state, limit) == state.accepting /\ state.depth < limit

Prefix(s, k) == SubSeq(s, 1, IF Len(s) < k THEN Len(s) ELSE k)

\* top_hrw_candidates
TopHrw(view, limit, without) ==
    LET Eligible(m) == m \notin without /\ Below(view[m], limit)
    IN  Prefix(SelectSeq(Rank, Eligible), ForwardCandidates)

\* select_warm_target and the one HRW fallback behind it.  The target is drawn
\* at random among the warm nodes.
Tier1(view) ==
    {<<m>> \o Prefix(TopHrw(view, BLCapacity, {m}), ForwardCandidates - 1) :
        m \in {n \in Nodes : /\ view[n].loaded = "warm"
                             /\ Below(view[n], BLCapacity)}}

\* tier3_candidates_view: slots that may be drained for another profile.  Which
\* of them meet the deadline, and their order, depend on costs and on the
\* profiles loaded elsewhere: any choice.
Tier3(view) ==
    LET Evictable == {m \in Nodes : /\ Below(view[m], DrainMaxQueue)
                                    /\ view[m].loaded # "warm"}
    IN  {<<m>> : m \in Evictable}
        \cup {s \in Evictable \X Evictable : s[1] # s[2]}

Tier4(view) == TopHrw(view, QueueCapacity, {})

\* decide_view: the candidate lists the dispatcher may come up with; the empty
\* list is a rejection.
CandidateLists(view) ==
    LET tier2 == TopHrw(view, BLCapacity, {})
    IN  IF Tier1(view) # {} THEN Tier1(view)
        ELSE IF tier2 # <<>> THEN {tier2}
        ELSE Tier3(view) \cup {Tier4(view)}

\* materialize_candidates: the entry node never forwards to itself.
Remote(list, n) == SelectSeq(list, LAMBDA m : m # n)

-----------------------------------------------------------------------------
(* Leaving a handler                                                       *)

Leads(h) == flight[at[h]][Key(h)] = h

Followers(h) == {f \in Handlers : /\ pc[f] = "wait" /\ at[f] = at[h]
                                  /\ Key(f) = Key(h)}

\* A handler that ends with outcome o: the leader of a flight inserts a
\* completed output, drops its leadership and wakes the followers.
Finish(h, o) ==
    /\ outcome' = [outcome EXCEPT ![h] = o]
    /\ IF Leads(h)
       THEN /\ flight' = [flight EXCEPT ![at[h]][Key(h)] = None]
            /\ cached' = IF o = "completed"
                         THEN [cached EXCEPT ![at[h]] = @ \cup {Key(h)}]
                         ELSE cached
            /\ pc' = [f \in Handlers |-> IF f = h THEN "done"
                                         ELSE IF f \in Followers(h) THEN "woken"
                                         ELSE pc[f]]
       ELSE /\ pc' = [pc EXCEPT ![h] = "done"]
            /\ UNCHANGED <<flight, cached>>

Goto(h, phase) ==
    /\ pc' = [pc EXCEPT ![h] = phase]
    /\ UNCHANGED <<flight, cached, outcome>>

-----------------------------------------------------------------------------
(* The output cache                                                        *)

\* Where a handler goes on after it missed the cache: a forwarded one must
\* render here.
AfterMiss(h) == IF IsForwarded(h) THEN "prepare" ELSE "view"

MustShed(h) == IsForwarded(h) /\ ~CanStart(at[h])

\* acquire_render_output_cache up to its first wait
Acquire(h) ==
    LET n == at[h] IN
    CASE n \in uncached ->
            IF MustShed(h) THEN Finish(h, "degraded") ELSE Goto(h, AfterMiss(h))
      [] n \notin uncached /\ Key(h) \in cached[n] ->
            Finish(h, "completed")
      [] n \notin uncached /\ Key(h) \notin cached[n] /\ flight[n][Key(h)] # None ->
            Goto(h, "wait")
      [] OTHER ->
            IF MustShed(h) THEN Finish(h, "degraded")
            ELSE /\ flight' = [flight EXCEPT ![n][Key(h)] = h]
                 /\ pc' = [pc EXCEPT ![h] = AfterMiss(h)]
                 /\ UNCHANGED <<cached, outcome>>

\* A follower re-checks cache and flight when its flight ends.
FollowerWakes(h) ==
    /\ pc[h] = "woken"
    /\ Acquire(h)
    /\ UNCHANGED <<nodeVars, pool, at, forwardVars, native, changes>>

-----------------------------------------------------------------------------
(* Ingress: handle_incoming                                                *)

\* A public request enters the node.
HandleIncoming(h) ==
    /\ ~IsForwarded(h) /\ pc[h] = "new"
    /\ Acquire(h)
    /\ UNCHANGED <<nodeVars, pool, at, forwardVars, native, changes>>

\* After the cluster view is loaded the dispatcher decides: the candidate list
\* starts with this node (local route), with a peer, or is empty.
Dispatch(h) ==
    LET t == h[1] IN
    /\ pc[h] = "view"
    /\ \E list \in CandidateLists(ViewAt(at[h])) :
          /\ cands' = [cands EXCEPT ![t] = Remote(list, at[h])]
          /\ IF list = <<>>
             THEN Finish(h, IF CanStart(at[h]) THEN "noCapacity" ELSE "degraded")
             ELSE Goto(h, IF list[1] = at[h] THEN "local" ELSE "forward")
    /\ UNCHANGED <<nodeVars, pool, at, tried, seen, native, changes>>

\* process_local_route before profile preparation: health may have changed.
LocalRoute(h) ==
    /\ pc[h] = "local"
    /\ IF CanStart(at[h]) THEN Goto(h, "prepare")
       ELSE IF cands[h[1]] # <<>> THEN Goto(h, "forward")
       ELSE Finish(h, "degraded")
    /\ UNCHANGED <<nodeVars, pool, at, forwardVars, native, changes>>

-----------------------------------------------------------------------------
(* Local rendering: prepare_local_profile, process_local_task              *)

\* The rejection of a task whose candidates are exhausted.
ExhaustionReason(t) ==
    IF seen[t].rejection # "none" THEN seen[t].rejection
    ELSE IF seen[t].unconverged THEN "noCapacity"
    ELSE IF seen[t].transport THEN "forwardFailed"
    ELSE "noCapacity"

\* The handler's task found no place in the queue, or the renderer closed:
\* a local route tries its remaining candidates, a forwarded request answers,
\* and the overflow attempt ends the request.
Refused(h, o) ==
    CASE pc[h] \in {"overflow", "overflowPool"} ->
            Finish(h, IF o = "queueFull" THEN ExhaustionReason(h[1]) ELSE o)
      [] pc[h] \in {"prepare", "pool"} /\ ~IsForwarded(h) /\ cands[h[1]] # <<>> ->
            Goto(h, "forward")
      [] OTHER -> Finish(h, o)

\* The profile preparer failed: the style does not exist (a rejection), or it
\* could not be prepared.
PrepareFails(h) ==
    /\ pc[h] \in {"prepare", "overflow"}
    /\ \E o \in {"unknownStyle", "failed"} : Finish(h, o)
    /\ UNCHANGED <<nodeVars, pool, at, forwardVars, native, changes>>

\* The profile is prepared: the last admission check, then a place in the queue.
Admit(h) ==
    LET n == at[h] IN
    /\ pc[h] \in {"prepare", "overflow"}
    /\ IF CanStart(n) /\ HasRoom(n)
       THEN /\ pool' = [pool EXCEPT ![n] = @ \cup {h}]
            /\ slot' = [slot EXCEPT ![n] = "warm"]
            /\ Goto(h, IF pc[h] = "overflow" THEN "overflowPool" ELSE "pool")
       ELSE /\ Refused(h, IF CanStart(n) THEN "queueFull" ELSE "degraded")
            /\ UNCHANGED <<pool, slot>>
    /\ UNCHANGED <<healthy, load, accepts, uncached, gossip, at,
                   forwardVars, native, changes>>

Unpool(h) == pool' = [pool EXCEPT ![at[h]] = @ \ {h}]

\* The worker takes an unexpired command and starts its native render.
NativeStart(h) ==
    /\ h \in pool[at[h]] /\ h \notin native /\ InPool(h)
    /\ pool[at[h]] \cap native = {}
    /\ native' = native \cup {h}
    /\ UNCHANGED <<nodeVars, pool, flight, cached, pc, at, outcome,
                   forwardVars, changes>>

\* The native call returns.  A caller that is still there gets the outcome, or
\* learns that its worker is gone: either way the task is not tried again.
NativeReturns(h) ==
    /\ h \in pool[at[h]] /\ h \in native
    /\ Unpool(h)
    /\ IF InPool(h) THEN \E o \in {"completed", "failed"} : Finish(h, o)
       ELSE UNCHANGED <<flight, cached, pc, outcome>>
    /\ UNCHANGED <<nodeVars, at, forwardVars, native, changes>>

\* Mutant: a local route whose response times out tries its fallback candidates.
ResponseTimeoutRetried(h) ==
    /\ InPool(h)
    /\ Refused(h, "queueFull")
    /\ UNCHANGED <<nodeVars, pool, at, forwardVars, native, changes>>

\* The response deadline answers the caller; the command stays with the worker.
ResponseTimeout(h) ==
    /\ InPool(h)
    /\ Finish(h, "failed")
    /\ UNCHANGED <<nodeVars, pool, at, forwardVars, native, changes>>

\* The worker takes a command it may not start: an expired one is dropped (its
\* caller, if still there, gets the deadline rejection), one behind a hidden
\* slot goes back to the pool, which has no other slot.
CommandReturned(h) ==
    /\ h \in pool[at[h]] /\ h \notin native
    /\ Unpool(h)
    /\ IF ~InPool(h) THEN UNCHANGED <<flight, cached, pc, outcome>>
       ELSE IF SlotOpen(at[h]) THEN Finish(h, "deadlineExceeded")
       ELSE Refused(h, "queueFull")
    /\ UNCHANGED <<nodeVars, at, forwardVars, native, changes>>

-----------------------------------------------------------------------------
(* Forwarding: forward_with_failover and the transport                     *)

\* The next candidate is sent the task, unless too little budget is left.
Send(h) ==
    LET t == h[1]
        attempt == <<t, tried[t] + 1>>
    IN
    /\ pc[h] = "forward" /\ cands[t] # <<>>
    /\ \/ Finish(h, "deadlineTooClose") /\ UNCHANGED <<at, cands, tried>>
       \/ /\ pc' = [pc EXCEPT ![h] = "sent", ![attempt] = "posted"]
          /\ at' = [at EXCEPT ![attempt] = Head(cands[t])]
          /\ cands' = [cands EXCEPT ![t] = Tail(@)]
          /\ tried' = [tried EXCEPT ![t] = @ + 1]
          /\ UNCHANGED <<flight, cached, outcome>>
    /\ UNCHANGED <<nodeVars, pool, seen, native, changes>>

\* handle_forwarded: the peer checks the revision and the rebuilt deadline.
HandleForwarded(h) ==
    /\ pc[h] = "posted"
    /\ IF ~accepts[at[h]] THEN Finish(h, "unknownStyle")
       ELSE Acquire(h)
    /\ UNCHANGED <<nodeVars, pool, at, forwardVars, native, changes>>

\* Mutant: the peer's retryable rejection is passed on to the client.
ReplyPassedOn(h) ==
    LET t == h[1]
        o == outcome[<<t, tried[t]>>]
    IN
    /\ pc[h] = "sent" /\ pc[<<t, tried[t]>>] = "done"
    /\ Finish(h, o)
    /\ UNCHANGED <<nodeVars, pool, at, forwardVars, native, changes>>

\* The peer's answer arrives: a retryable rejection, or an unknown style that
\* this node still accepts, moves on to the next candidate.
Reply(h) ==
    LET t == h[1]
        o == outcome[<<t, tried[t]>>]
    IN
    /\ pc[h] = "sent" /\ pc[<<t, tried[t]>>] = "done"
    /\ CASE o \in Retryable ->
              Goto(h, "forward") /\ seen' = [seen EXCEPT ![t].rejection = o]
         [] o = "unknownStyle" /\ accepts[at[h]] ->
              Goto(h, "forward") /\ seen' = [seen EXCEPT ![t].unconverged = TRUE]
         [] OTHER -> Finish(h, o) /\ UNCHANGED seen
    /\ UNCHANGED <<nodeVars, pool, at, cands, tried, native, changes>>

\* The attempt fails in the transport: no address, no connection, a drained or
\* busy peer, a broken response.  The request may or may not still arrive.
TransportFails(h) ==
    LET t == h[1]
        attempt == <<t, tried[t]>>
    IN
    /\ pc[h] = "sent"
    /\ seen' = [seen EXCEPT ![t].transport = TRUE]
    /\ \/ pc' = [pc EXCEPT ![h] = "forward"]
       \/ /\ pc[attempt] = "posted"
          /\ pc' = [pc EXCEPT ![h] = "forward", ![attempt] = "lost"]
    /\ UNCHANGED <<nodeVars, pool, flight, cached, at, outcome, cands,
                   tried, native, changes>>

\* Every candidate failed: the task overflows to this node if it can render.
Exhausted(h) ==
    /\ pc[h] = "forward" /\ cands[h[1]] = <<>>
    /\ IF ~CanStart(at[h]) THEN Finish(h, ExhaustionReason(h[1]))
       ELSE Goto(h, "overflow")
    /\ UNCHANGED <<nodeVars, pool, at, forwardVars, native, changes>>

-----------------------------------------------------------------------------
(* Deadlines                                                               *)

\* Mutant: a peer is asked without a timeout.
DeadlineNotAtPeer(h) ==
    /\ \/ pc[h] \in {"new", "wait", "view"}
       \/ pc[h] = "posted" /\ accepts[at[h]]
       \/ pc[h] = "forward" /\ cands[h[1]] = <<>> /\ CanStart(at[h])
    /\ Finish(h, "deadlineExceeded")
    /\ UNCHANGED <<nodeVars, pool, at, forwardVars, native, changes>>

\* The deadline has passed where the code looks at it: on arrival, while a
\* follower waits, after the cluster view is loaded, while a peer is asked, and
\* before the overflow.  The handler ends with it, so the deadline itself need
\* not be a variable.
DeadlinePasses(h) ==
    /\ \/ pc[h] \in {"new", "wait", "view", "sent"}
       \/ pc[h] = "posted" /\ accepts[at[h]]
       \/ pc[h] = "forward" /\ cands[h[1]] = <<>> /\ CanStart(at[h])
    /\ Finish(h, "deadlineExceeded")
    /\ UNCHANGED <<nodeVars, pool, at, forwardVars, native, changes>>

-----------------------------------------------------------------------------
(* Environment                                                             *)

\* The supervisor opens or closes native admission.
HealthChanges(n) ==
    /\ healthy' = [healthy EXCEPT ![n] = ~@]
    /\ UNCHANGED <<slot, load, accepts, uncached, gossip>>

\* A node learns the tasks' revision, or its catalog moves past it.
CatalogShifts(n) ==
    /\ accepts' = [accepts EXCEPT ![n] = ~@]
    /\ UNCHANGED <<healthy, slot, load, uncached, gossip>>

\* One round of the publisher of Node::spawn.
Publish(n) ==
    /\ gossip' = [gossip EXCEPT ![n] = PublishedState(n)]
    /\ UNCHANGED <<healthy, slot, load, accepts, uncached>>

\* A command of another request leaves the slot's queue.
LoadFalls(n) ==
    /\ load[n] > 0 /\ load' = [load EXCEPT ![n] = @ - 1]
    /\ UNCHANGED <<healthy, slot, accepts, uncached, gossip>>

-----------------------------------------------------------------------------
(* Specification                                                           *)

InitWith(s) ==
    /\ healthy = [n \in Nodes |-> TRUE]
    /\ slot = s.slots
    /\ load = s.load
    /\ pool = [n \in Nodes |-> {}]
    /\ accepts = [n \in Nodes |-> TRUE]
    /\ uncached = s.uncached
    /\ gossip = [n \in Nodes |-> PublishedState(n)]
    /\ flight = [n \in Nodes |-> [k \in Keys |-> None]]
    /\ cached = [n \in Nodes |-> {}]
    /\ pc = [h \in Handlers |-> IF h[2] = 0 /\ s.home[h[1]] # None
                                THEN "new" ELSE "absent"]
    /\ at = [h \in Handlers |-> IF h[2] = 0 /\ s.home[h[1]] # None
                                THEN s.home[h[1]] ELSE CHOOSE n \in Nodes : TRUE]
    /\ outcome = [h \in Handlers |-> "none"]
    /\ cands = [t \in Tasks |-> <<>>]
    /\ tried = [t \in Tasks |-> 0]
    /\ seen = [t \in Tasks |-> NoReports]
    /\ native = {}
    /\ changes = s.changes

Init == \E s \in Scenarios : InitWith(s)

\* The steps of a handler's own future.
HandlerStep(h) ==
    \/ HandleIncoming(h) \/ FollowerWakes(h) \/ Dispatch(h) \/ LocalRoute(h)
    \/ PrepareFails(h) \/ Admit(h) \/ ResponseTimeout(h) \/ DeadlinePasses(h)
    \/ Send(h) \/ Reply(h) \/ Exhausted(h)

WorkerStep(h) == NativeStart(h) \/ NativeReturns(h) \/ CommandReturned(h)

TransportStep(h) == HandleForwarded(h) \/ TransportFails(h)

NodeStep(n) ==
    /\ changes > 0 /\ changes' = changes - 1
    /\ HealthChanges(n) \/ CatalogShifts(n) \/ Publish(n) \/ LoadFalls(n)
    /\ UNCHANGED <<pool, flight, cached, pc, at, outcome, forwardVars, native>>

Next ==
    \/ \E h \in Handlers : HandlerStep(h) \/ WorkerStep(h) \/ TransportStep(h)
    \/ \E n \in Nodes : NodeStep(n)

\* A handler's future is polled when it can go on, and deadlines pass.  Nothing
\* is assumed of native calls, of the network, of gossip or of health.
Fairness == \A h \in Handlers : WF_vars(HandlerStep(h))

Spec == Init /\ [][Next]_vars /\ Fairness

-----------------------------------------------------------------------------
(* Properties                                                              *)

State == [accepting : BOOLEAN, depth : 0..QueueCapacity, loaded : Loaded]

\* The state of nodes and handlers has its type.  In particular no queue holds
\* more commands than its hard limit, whoever admitted them.
TypeOK ==
    /\ healthy \in [Nodes -> BOOLEAN]
    /\ slot \in [Nodes -> Loaded]
    /\ load \in [Nodes -> 0..QueueCapacity]
    /\ pool \in [Nodes -> SUBSET Handlers]
    /\ accepts \in [Nodes -> BOOLEAN]
    /\ uncached \subseteq Nodes
    /\ gossip \in [Nodes -> State]
    /\ \A n \in Nodes : LocalState(n) \in State
    /\ flight \in [Nodes -> [Keys -> Handlers \cup {None}]]
    /\ cached \in [Nodes -> SUBSET Keys]
    /\ pc \in [Handlers -> Phases]
    /\ at \in [Handlers -> Nodes]
    /\ outcome \in [Handlers -> Outcomes]
    /\ cands \in [Tasks -> Seq(Nodes)]
    /\ tried \in [Tasks -> 0..ForwardCandidates]
    /\ seen \in [Tasks -> [rejection : Retryable \cup {"none"}, unconverged : BOOLEAN,
                           transport : BOOLEAN]]
    /\ native \subseteq Handlers
    /\ changes \in Nat

\* Native work cannot be cancelled, so the failover of forward_with_failover and
\* the fallback of process_local_route must not repeat it: a second native
\* render of one task starts only if a forwarding attempt of that task failed
\* in the transport, where the entry node cannot know what the peer did.
DuplicatesOnlyByTransport ==
    \A t \in Tasks :
        Cardinality({h \in native : h[1] = t}) > 1 => seen[t].transport

\* Whatever the stale view, the peers and the failover did, a client is told
\* that the cluster lacks capacity (queueFull, noCapacity, degraded,
\* forwardFailed) only at a moment when its entry node itself cannot take the
\* task: its renderer is closed or its queue is full.  A peer that has not
\* converged on the revision refuses it as unknown, but the client hears
\* unknownStyle (a 404) only when the entry node's own preparer found no such
\* style, or its own catalog no longer accepts the revision.
RefusalsHonest ==
    [][\A t \in Tasks :
          LET h == Ingress(t) IN
          outcome[h] = "none"
          => /\ outcome'[h] \in Retryable \cup {"forwardFailed"}
                => ~(CanStart(at[h]) /\ HasRoom(at[h]))
             /\ outcome'[h] = "unknownStyle"
                => pc[h] \in {"prepare", "overflow"} \/ ~accepts[at[h]]]_vars

\* Every handler, at the entry node and at the peers, answers: with followers
\* waiting for flights whose leaders wait for other nodes, with candidates that
\* fail one after the other, and with native calls that never return.
Answered ==
    \A h \in Handlers : []<>(pc[h] \in {"absent", "posted", "lost", "done"})

\* What a handler waits for: the leader of its flight, or its forwarding attempt.
WaitsFor(h) == IF pc[h] = "wait" THEN flight[at[h]][Key(h)] ELSE <<h[1], tried[h[1]]>>

\* A follower "joins an existing render" (render_cache.rs, lookup_or_join): the
\* handlers that wait for one another never form a cycle with no render in it.
NoWaitCycle ==
    \A S \in SUBSET {h \in Handlers : pc[h] \in {"wait", "sent"}} :
        S # {} => \E h \in S : WaitsFor(h) \notin S

=============================================================================
