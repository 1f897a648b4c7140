------------------------------ MODULE MCBieiNode ------------------------------
(***************************************************************************)
(* A node's render output cache and the nodes of a small cluster, in one   *)
(* run: a behaviour is one of RenderCache (part = "cache") or one of       *)
(* BieiNode (part = "nodes"); the other component rests in an initial      *)
(* state.  They are two views of one path: BieiNode holds the flights of a *)
(* key across nodes, RenderCache what happens inside one node's maps.      *)
(***************************************************************************)
EXTENDS RenderCache, Sequences, TLC

CONSTANTS c1, c2, c3, k1, s1, n1, n2, n3, t1, t2, l1, l2,
          Nodes, Tasks, None, BLCapacity, QueueCapacity, DrainMaxQueue

VARIABLES
    part,
    healthy, slot, load, pool, accepts, uncached, gossip, flight, cached,
    at_pc, at, outcome, cands, tried, seen, native, changes

\* One hot key: three callers with nested and with equal grants.
HotKeys == {k1}
HotStyles == {s1}
HotStyleOf == k1 :> s1
HotGrant == c1 :> {l1} @@ c2 :> {l1, l2} @@ c3 :> {l1}

Slots(a, b, c) == n1 :> a @@ n2 :> b @@ n3 :> c
Home(a, b) == t1 :> a @@ t2 :> b

\* One task and two peers to fail over to; a peer may close or lose the revision.
Failover == [home |-> Home(n1, None), slots |-> Slots("other", "fresh", "warm"),
             load |-> Slots(1, 0, 0), uncached |-> {n3}, changes |-> 1]

\* The same request at two nodes that are both warm.
Crossed == [home |-> Home(n1, n2), slots |-> Slots("warm", "warm", "fresh"),
            load |-> Slots(0, 0, 2), uncached |-> {}, changes |-> 0]

\* Two requests at one node, without its cache, of a cluster at its soft limit.
Crowded == [home |-> Home(n1, n1), slots |-> Slots("warm", "other", "other"),
            load |-> Slots(1, 1, 2), uncached |-> {n1}, changes |-> 0]

Node == INSTANCE BieiNode WITH
          pc <- at_pc, KeyOf <- [t \in Tasks |-> k1], Rank <- <<n2, n3, n1>>,
          Scenarios <- {Failover, Crossed, Crowded}

nodesVars == <<healthy, slot, load, pool, accepts, uncached, gossip, flight, cached,
               at_pc, at, outcome, cands, tried, seen, native, changes>>

MCInit ==
    /\ Init
    /\ \/ part = "cache" /\ Node!InitWith(Failover)
       \/ part = "nodes" /\ Node!Init

MCNext ==
    /\ UNCHANGED part
    /\ \/ part = "cache" /\ Next /\ UNCHANGED nodesVars
       \/ part = "nodes" /\ Node!Next /\ UNCHANGED vars

\* The fairness of each component, asked of the behaviours that are about it.
MCSpec ==
    /\ MCInit /\ [][MCNext]_<<part, vars, nodesVars>>
    /\ \A c \in Callers :
         WF_vars(/\ part = "cache"
                 /\ \/ JoinOrLead(c) \/ LoadEpoch(c) \/ BeginRender(c) \/ CompleteRender(c)
                    \/ Abandon(c) \/ RemoveFlight(c) \/ Notify(c) \/ Recheck(c))
    /\ \A h \in Node!Handlers : WF_nodesVars(part = "nodes" /\ Node!HandlerStep(h))

\* One render per key inside a node (RenderCache!SingleLeader), no queue past
\* its hard limit, and native work repeated only after a transport failure
\* (forward_with_failover, process_local_route).
RenderedOnce == SingleLeader /\ Node!TypeOK /\ Node!DuplicatesOnlyByTransport

\* BieiNode!RefusalsHonest: no client is refused for capacity while its entry
\* node has room, and a 404 comes only from the entry node.
RefusalsHonest == Node!RefusalsHonest

\* No follower of a flight waits for ever (RenderCache!FollowersWoken), and
\* every handler of every node answers (BieiNode!Answered).
NobodyStranded ==
    /\ FollowersWoken
    /\ \A h \in Node!Handlers :
         []<>(part = "nodes" => at_pc[h] \in {"absent", "posted", "lost", "done"})

\* BieiNode!NoWaitCycle: waiting handlers never form a cycle.
NoWaitCycle == Node!NoWaitCycle
=============================================================================
