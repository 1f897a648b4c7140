----------------------------- MODULE MCWorkerPool -----------------------------
\* Model-checking instances of WorkerPool.
EXTENDS WorkerPool, TLC

CONSTANTS w1, w2, t1, t2, p1, p2, x1

\* Two tasks that share neither profile nor credential partition; the first is
\* hinted and has a source.
MCProfileOf == t1 :> p1 @@ t2 :> p2
MCPartitionOf == t1 :> "a" @@ t2 :> "b"
MCSourceOf == t1 :> x1 @@ t2 :> None
MCHintOf == t1 :> w1 @@ t2 :> None
MCShapeOf == p1 :> "tile" @@ p2 :> "static"

\* Two slots that stay up, one whose renderer dies, one that is shut down.
MCScenarios ==
    {[slots |-> {w1, w2}, shutdown |-> FALSE, deaths |-> 0],
     [slots |-> {w1}, shutdown |-> FALSE, deaths |-> 1],
     [slots |-> {w1}, shutdown |-> TRUE, deaths |-> 0]}

\* process returns to every caller, and a hidden slot whose renderer is usable
\* is advertised again.
TasksSettle == TaskReturns /\ HiddenSlotSettles
=============================================================================
