---- MODULE ClusterViewCache ----
(***************************************************************************)
(* The cluster view that routing decides on (biei-core node/view_cache.rs):*)
(* one caller loads it from gossip, the others use a cached or a boundedly *)
(* stale one, or wait.  A view is labelled with the gossip epoch read      *)
(* before it was loaded.  Ages are counted from the load, up to the point  *)
(* where nothing tells them apart.                                         *)
(***************************************************************************)
EXTENDS Integers

CONSTANTS Callers, Ttl, MaxEpoch

ASSUME ViewCacheAssumption == Ttl \in Nat \ {0}

VARIABLES
  epoch,    \* GossipBus::view_epoch
  cached,   \* ClusterViewCacheState::cached
  loading,  \* ClusterViewCacheState::loading
  caller    \* one get_or_load per caller

viewVars == <<epoch, cached, loading, caller>>

MaxAge == 2 * Ttl
Nothing == [epoch |-> -1, view |-> -1, age |-> MaxAge]
Idle == [pc |-> "idle", start |-> 0, label |-> 0, view |-> 0, age |-> 0, changed |-> FALSE]

MoveTo(c, pc) == caller' = [caller EXCEPT ![c].pc = pc]

\* usable_cached_view
Usable ==
  /\ cached.epoch = epoch
  /\ cached.age < Ttl \/ (loading /\ cached.age < MaxAge)

Return(c, view, age) ==
  caller' = [caller EXCEPT ![c] = [Idle EXCEPT !.pc = "done", !.start = caller[c].start,
                                               !.view = view, !.age = age]]

Start(c) ==
  /\ caller[c].pc \in {"idle", "done"}
  /\ caller' = [caller EXCEPT ![c] = [Idle EXCEPT !.pc = "look", !.start = epoch]]
  /\ UNCHANGED <<epoch, cached, loading>>

Look(c) ==
  /\ caller[c].pc = "look"
  /\ IF Usable THEN Return(c, cached.view, cached.age)
     ELSE caller' = [caller EXCEPT ![c].pc = "lock", ![c].changed = FALSE]  \* subscribe
  /\ UNCHANGED <<epoch, cached, loading>>

\* The second look, which also elects the loader.
Elect(c) ==
  /\ caller[c].pc = "lock"
  /\ \/ Usable /\ Return(c, cached.view, cached.age) /\ UNCHANGED loading
     \/ ~Usable /\ loading /\ MoveTo(c, "wait") /\ UNCHANGED loading
     \/ ~Usable /\ ~loading /\ MoveTo(c, "begin") /\ loading' = TRUE
  /\ UNCHANGED <<epoch, cached>>

BeginLoad(c) ==
  /\ caller[c].pc = "begin"
  /\ caller' = [caller EXCEPT ![c].pc = "load", ![c].label = epoch]
  /\ UNCHANGED <<epoch, cached, loading>>

ViewLoaded(c) ==
  /\ caller[c].pc = "load"
  /\ caller' = [caller EXCEPT ![c].pc = "verify", ![c].view = epoch]
  /\ UNCHANGED <<epoch, cached, loading>>

\* A view that gossip overtook is thrown away and loaded again.
Verify(c) ==
  /\ caller[c].pc = "verify"
  /\ IF epoch = caller[c].label
     THEN MoveTo(c, "complete") /\ UNCHANGED loading
     ELSE caller' = [caller EXCEPT ![c].pc = "retry"] /\ loading' = FALSE
  /\ UNCHANGED <<epoch, cached>>

\* Mutant: the label is the epoch at completion.
CompleteLate(c) ==
  /\ caller[c].pc = "complete"
  /\ cached' = [epoch |-> epoch, view |-> caller[c].view, age |-> 0]
  /\ loading' = FALSE
  /\ MoveTo(c, "announce")
  /\ UNCHANGED epoch

Complete(c) ==
  /\ caller[c].pc = "complete"
  /\ cached' = [epoch |-> caller[c].label, view |-> caller[c].view, age |-> 0]
  /\ loading' = FALSE
  /\ MoveTo(c, "announce")
  /\ UNCHANGED epoch

\* The deadline passes, or the request is cancelled, during the load: Drop.
LoadAbandoned(c) ==
  /\ caller[c].pc = "load"
  /\ loading' = FALSE
  /\ MoveTo(c, "dropped")
  /\ UNCHANGED <<epoch, cached>>

Changed(c, next) ==
  caller' = [d \in Callers |-> IF d = c THEN next ELSE [caller[d] EXCEPT !.changed = TRUE]]

\* Every end of a load changes the watched version.
Announce(c) ==
  /\ caller[c].pc \in {"announce", "retry", "dropped"}
  /\ CASE caller[c].pc = "announce" ->
            Changed(c, [Idle EXCEPT !.pc = "done", !.start = caller[c].start, !.view = caller[c].view])
       [] caller[c].pc = "retry" -> Changed(c, [caller[c] EXCEPT !.pc = "look"])
       [] caller[c].pc = "dropped" -> Changed(c, Idle)
  /\ UNCHANGED <<epoch, cached, loading>>

Wake(c) ==
  /\ caller[c].pc = "wait" /\ caller[c].changed
  /\ MoveTo(c, "look")
  /\ UNCHANGED <<epoch, cached, loading>>

WaitAbandoned(c) ==
  /\ caller[c].pc = "wait"
  /\ caller' = [caller EXCEPT ![c] = Idle]
  /\ UNCHANGED <<epoch, cached, loading>>

\* A bus that has an authority on membership moves its epoch when it changes.
\* The simulator's bus does; Membership, the one of a server, keeps the default
\* of view_epoch, under which this step never happens.
GossipChanges ==
  /\ epoch < MaxEpoch
  /\ epoch' = epoch + 1
  /\ UNCHANGED <<cached, loading, caller>>

Age ==
  /\ cached.age < MaxAge
  /\ cached' = [cached EXCEPT !.age = @ + 1]
  /\ UNCHANGED <<epoch, loading, caller>>

ViewInit ==
  /\ epoch = 0
  /\ cached = Nothing
  /\ loading = FALSE
  /\ caller = [c \in Callers |-> Idle]

Proceed(c) ==
  \/ Look(c) \/ Elect(c) \/ BeginLoad(c) \/ ViewLoaded(c) \/ LoadAbandoned(c) \/ Verify(c)
  \/ Complete(c) \/ Announce(c) \/ Wake(c)

ViewNext ==
  \/ GossipChanges \/ Age
  \/ \E c \in Callers : Start(c) \/ Proceed(c) \/ WaitAbandoned(c)

\* Callers run on; a load returns or hits its deadline.  A waiter's own
\* deadline is not relied on.
ViewFairness == \A c \in Callers : WF_viewVars(Proceed(c))

ViewSpec == ViewInit /\ [][ViewNext]_viewVars /\ ViewFairness

----------------------------------------------------------------------------
(* Properties *)

\* A call never gets a view of an epoch that had passed when it was made,
\* although loads, gossip changes and other callers overlap, nor one that is
\* older than the TTL and the equal grace during a refresh.  The first half is
\* what get_or_load promises to a bus that moves its epoch; on a server, whose
\* bus keeps it at 0, only the second half bounds how old a view may be.
ViewCurrent ==
  \A c \in Callers :
    caller[c].pc = "done" => caller[c].view >= caller[c].start /\ caller[c].age < MaxAge

\* A caller that waits for another's load is woken when it ends, however it
\* ends (view_cache.rs: "avoiding a lost wakeup").
LoadsWakeWaiters == \A c \in Callers : []<>(caller[c].pc # "wait")
====
