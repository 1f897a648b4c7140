---------------------------- MODULE MCControlPlane ----------------------------
(***************************************************************************)
(* The publisher and the two readers of an auth registry, in one run:      *)
(* "part" says whether a behaviour is one of StylePublish ("publish"), of  *)
(* DeliveryAuth ("delivery") or of ManagementAuth ("management").  The     *)
(* others rest in an initial state.                                        *)
(***************************************************************************)
EXTENDS StylePublish, DeliveryAuth, ManagementAuth, TLC

CONSTANTS c1, c2, c3, k1, k2, b1, b2, e1

VARIABLE part

\* A publication and its retry against a publication by someone else.
MCKeyOf == (c1 :> k1) @@ (c2 :> k1) @@ (c3 :> k2)
MCBodyOf == (c1 :> b1) @@ (c2 :> b1) @@ (c3 :> b2)

Contended == [calls |-> {c1, c2, c3}, endpoints |-> {}, removals |-> 0, scanErrors |-> 0]
Disturbed == [calls |-> {c1, c2}, endpoints |-> {e1}, removals |-> 1, scanErrors |-> 1]

MCScenarios == {Contended, Disturbed}

V(rev, ok) == [rev |-> rev, ok |-> ok]
Registry(versions, failures, departures, evictions) ==
    [versions |-> versions, requests |-> 3, faults |-> failures, cancels |-> departures,
     evictions |-> evictions]

\* An update with failures, one with a caller that leaves, a rollback after an
\* eviction, and bodies that must be refused.
Failing == Registry(<<V(1, TRUE), V(2, TRUE)>>, 2, 0, 0)
MCRegistries ==
    {Failing, Registry(<<V(1, TRUE), V(2, TRUE)>>, 1, 1, 0),
     Registry(<<V(2, TRUE), V(1, TRUE)>>, 0, 0, 1),
     Registry(<<V(1, TRUE), V(1, TRUE), V(2, FALSE)>>, 0, 0, 0)}

MCInit ==
    \/ part = "publish" /\ Init /\ DeliveryInit /\ sc = Failing
    \/ /\ part \in {"delivery", "management"} /\ DeliveryInit
       /\ object = {} /\ InitWith(Contended)

\* Registry readers may come to rest; the publisher never does.
MCNext ==
    /\ UNCHANGED part
    /\ \/ part = "publish" /\ Next /\ UNCHANGED deliveryVars
       \/ part = "delivery" /\ DeliveryNext /\ UNCHANGED vars
       \/ part = "management" /\ ManagementNext /\ UNCHANGED <<vars, installed>>
       \/ part # "publish" /\ UNCHANGED <<vars, deliveryVars>>

\* A caller's future is polled when it can go on.
Proceed(r) ==
    \/ part = "delivery" /\ DeliveryStep(r)
    \/ part = "management" /\ ManagementStep(r) /\ UNCHANGED installed

MCSpec ==
    /\ MCInit /\ [][MCNext]_<<part, vars, deliveryVars>>
    /\ WF_vars(part = "publish" /\ Reconcile)
    /\ \A r \in Requests : WF_deliveryVars(Proceed(r))
=============================================================================
