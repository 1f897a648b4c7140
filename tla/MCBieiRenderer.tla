---- MODULE MCBieiRenderer ----
(***************************************************************************)
(* The renderer in one run: a behaviour is one of the actors' threads      *)
(* (RendererActor, part = "threads"), one of the native map that one such  *)
(* thread owns (NativeBackend, "native"), or one of the file source that   *)
(* the maps of all threads load through (FileSource, "files").  The others *)
(* rest in an initial state.  They meet in the command queue, whose "run"  *)
(* is NativeBackend's LoadProfile or Render, and in native's loads.        *)
(***************************************************************************)
EXTENDS Integers, Sequences

CONSTANTS Workers, Actors, MaxDeaths, MaxSpawnFails, MaxSlots, Parts, Capacity,
          Loads, Lane, BodyPermits, MaxAttempts, MaxDeferral, NegativeTtl, CooldownTtl,
          FallbackTtl, Horizon

VARIABLES part, worker, actor, orphaned, available, budget, loaded, style, active, drawn,
          scene, now, up, cache, neg, cool, load

NoAdd == <<0, 0>>
BaseSource == <<0, 1>>

Request(id, prof, slots, before, add) ==
  [id |-> id, prof |-> prof, key |-> <<"static", 1>>, slots |-> slots,
   pins |-> slots = 1, before |-> before, add |-> add]

\* Two contents that share a stable source id, and a third source; a band that
\* grows, with a request-local layer, where an earlier request had left it.
Plain == Request(1, 1, 0, 0, NoAdd)
RenderRequests ==
  {Plain, Request(2, 1, 1, 0, <<1, 1>>), Request(3, 1, 1, 2, NoAdd),
   Request(4, 1, 0, 0, <<1, 2>>), Request(5, 1, 2, 2, BaseSource),
   Request(6, 2, 1, 0, <<2, 1>>), Request(7, 1, 3, 0, NoAdd),
   [Plain EXCEPT !.id = 8, !.key = <<"static", 2>>],
   [Plain EXCEPT !.id = 9, !.key = <<"tile", 1>>]}

Policy(store, noCache, life, grant) ==
  [store |-> store, noCache |-> noCache, life |-> life, grant |-> grant]
Scenario(policy, publish, loads, faults, cancels, evictions) ==
  [policy |-> policy, publish |-> publish, loads |-> loads, faults |-> faults,
   cancels |-> cancels, evictions |-> evictions]

\* A provider whose answers must be revalidated, may be served stale, live
\* long, and may not be stored.
Revalidated == Scenario(Policy(TRUE, TRUE, 0, 0), <<2>>, 3, 1, 0, 1)
FileScenarios ==
  {Revalidated, Scenario(Policy(TRUE, FALSE, 1, 2), <<2>>, 3, 1, 1, 0),
   Scenario(Policy(TRUE, FALSE, 2, 0), <<0>>, 3, 0, 1, 0),
   Scenario(Policy(FALSE, FALSE, 1, 0), <<>>, 3, 1, 1, 0)}

Threads == INSTANCE RendererActor
Native == INSTANCE NativeBackend WITH Requests <- RenderRequests
Files == INSTANCE FileSource WITH sc <- scene, Scenarios <- FileScenarios

threadVars == <<worker, actor, orphaned, available, budget>>
nativeVars == <<loaded, style, active, drawn>>
fileVars == <<scene, now, up, cache, neg, cool, load>>
vars == <<part, threadVars, nativeVars, fileVars>>

Init ==
  /\ Threads!ActorInit /\ Native!Init /\ Files!Init
  /\ part \in {"threads", "native", "files"}
  /\ part # "files" => scene = Revalidated

Next ==
  /\ UNCHANGED part
  /\ \/ part = "threads" /\ Threads!ActorNext /\ UNCHANGED <<nativeVars, fileVars>>
     \/ part = "native" /\ Native!Next /\ UNCHANGED <<threadVars, fileVars>>
     \/ part = "files" /\ Files!Next /\ UNCHANGED <<threadVars, nativeVars>>

\* The fairness of each component, asked of the behaviours that are about it.
Fairness ==
  /\ \A w \in Workers :
       /\ WF_threadVars(part = "threads" /\ Threads!SendCommand(w))
       /\ WF_threadVars(part = "threads" /\ Threads!Replacement(w))
       /\ WF_threadVars(part = "threads" /\ Threads!Dropping(w))
       /\ WF_threadVars(part = "threads" /\ Threads!Repair(w))
       /\ \A a \in Actors : WF_threadVars(part = "threads" /\ Threads!Thread(w, a))
  /\ \A t \in Loads : WF_fileVars(part = "files" /\ Files!Step(t))
  /\ WF_fileVars(part = "files" /\ Files!Tick)

Spec == Init /\ [][Next]_vars /\ Fairness


\* FileSource!WaitersLed and WithheldGetBytes: a waiter is answered only by a
\* load that asked for the same, and a consumer whose stale body was withheld
\* never gets a bodyless 304.
AnswersFit == Files!WaitersLed /\ Files!WithheldGetBytes

\* FileSource!LoadsEnd: every load ends.
LoadsEnd == Files!LoadsEnd

\* FileSource!BodylessOnlyIfDelivered: a bodyless 304 goes only to a consumer
\* that holds the body already (not_modified_attempt).
BodylessOnlyIfDelivered == Files!BodylessOnlyIfDelivered
====
