---------------------------- MODULE MCProviderCache ----------------------------
(***************************************************************************)
(* Instances of ProviderCache for TLC.                                     *)
(***************************************************************************)
EXTENDS ProviderCache, TLC

CONSTANTS r1, r2, f1, f2, k1

\* Two requests for one style, with the hints about it.
MCKeyOf == [w \in Requests \cup Refreshers |-> k1]

\* Two hints while the fences are kept, or one hint and a lost fence.
MCScenarios ==
    {[hints |-> {f1, f2}, losses |-> 0], [hints |-> {f1}, losses |-> 1],
     [hints |-> {f2}, losses |-> 1]}

\* Hints that overlap as they like; a third one is needed to set an epoch back.
Overlapping == {[hints |-> Refreshers, losses |-> 0]}

\* Requests are interchangeable, and so are hints about one style.
Alike == Permutations(Requests) \cup Permutations(Refreshers)
===============================================================================
