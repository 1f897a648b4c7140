---- MODULE MCStyleRefresh ----
EXTENDS StyleRefresh

Task(home, cred) == [home |-> home, cred |-> cred]
Budget(foreign, fail, lost) == [foreign |-> foreign, fail |-> fail, lost |-> lost]

Hinted == [nodes |-> {"a"}, task |-> [t |-> Task("a", 1)], last |-> 3,
           receivers |-> {"a"}, routes |-> {}, slot |-> [h \in 2 .. 3 |-> 1],
           room |-> TRUE, aging |-> FALSE, cache |-> TRUE, budget |-> Budget(0, 0, 0)]

Flights == [Hinted EXCEPT !.task = [t |-> Task("a", 1), u |-> Task("a", 1)], !.last = 2,
                          !.receivers = {}, !.cache = FALSE, !.budget = Budget(0, 1, 0)]
Partitions == [Flights EXCEPT !.task.u = Task("a", 2), !.budget = Budget(0, 0, 0)]
Coalesced == [Hinted EXCEPT !.task = [t |-> Task("a", 1), u |-> Task("a", 1)], !.last = 2]
Crowded == [Hinted EXCEPT !.room = FALSE, !.cache = FALSE, !.budget = Budget(1, 0, 0)]
Aging == [Hinted EXCEPT !.last = 2, !.aging = TRUE, !.cache = FALSE, !.budget = Budget(0, 1, 0)]
Forwards == [Hinted EXCEPT !.nodes = {"a", "b"}, !.last = 2, !.receivers = {}, !.routes = {"b"}]
Peers == [Hinted EXCEPT !.nodes = {"a", "b"}, !.slot = [h \in 2 .. 3 |-> 4 - h], !.cache = FALSE]
Lost == [Peers EXCEPT !.last = 2, !.budget = Budget(0, 0, 1)]

\* The home node renders once, then its requests are forwarded to the owner.
Forwarded == [Forwards EXCEPT !.cache = FALSE, !.aging = TRUE]
ForwardedScenarios == {Forwarded}
MCScenarios == {Hinted, Flights, Partitions, Coalesced, Crowded, Aging, Forwards, Peers, Lost}

\* Hints that stay in a gossip ring reach every node, and where every node
\* renders its own requests the answers converge on the last content.
Converging == HintsReachPeers /\ ConvergesLocally
====
