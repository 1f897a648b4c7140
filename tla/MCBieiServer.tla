---------------------------- MODULE MCBieiServer ----------------------------
(***************************************************************************)
(* A Biei process in one run: a behaviour is one of the renderer           *)
(* (MCBieiRenderer, stage = "render"), one of the process that drains and  *)
(* stops (BieiServer, "server"), or one of the view cache its routing      *)
(* reads (ClusterViewCache, "view").  They share no state.                 *)
(***************************************************************************)
EXTENDS BieiServer, ClusterViewCache, RendererActor, TLC

CONSTANTS
  r1, r2,
  MaxSlots, Parts, Capacity,
  Loads, Lane, BodyPermits, MaxAttempts, MaxDeferral, NegativeTtl, CooldownTtl,
  FallbackTtl, Horizon

VARIABLES stage, part, loaded, style, active, drawn, scene, now, up, cache, neg, cool, load

Setting(a, b, clustered) == [kind |-> r1 :> a @@ r2 :> b, clustered |-> clustered]
TwoNodes == Setting("render", "forward", TRUE)

MCScenarios == {TwoNodes, Setting("preview", "render", FALSE)}

Renderer == INSTANCE MCBieiRenderer

rendererVars == <<part, actorVars, loaded, style, active,
                  drawn, scene, now, up, cache, neg, cool, load>>

MCInit ==
  /\ Renderer!Init /\ Init /\ ViewInit
  /\ stage \in {"render", "server", "view"}
  /\ stage # "render" => part = "native" /\ scene = Renderer!Revalidated
  /\ stage # "server" => sc = TwoNodes

MCNext ==
  /\ UNCHANGED stage
  /\ \/ stage = "render" /\ Renderer!Next /\ UNCHANGED <<vars, viewVars>>
     \/ stage = "server" /\ Next /\ UNCHANGED <<rendererVars, viewVars>>
     \/ stage = "view" /\ ViewNext /\ UNCHANGED <<rendererVars, vars>>

\* The fairness of each component, asked of the behaviours that are about it.
MCSpec ==
  /\ MCInit /\ [][MCNext]_<<stage, rendererVars, vars, viewVars>>
  /\ Renderer!Fairness
  /\ WF_vars(stage = "server" /\ Coordinator)
  /\ WF_vars(stage = "server" /\ Run)
  /\ WF_vars(stage = "server" /\ Tick)
  /\ \A c \in Callers : WF_viewVars(stage = "view" /\ Proceed(c))

AnswersFit == Renderer!AnswersFit

\* Nothing waits for ever: a process told to stop ends, the waiters of a view
\* are woken when its load ends, and every load of the file source ends.
NothingHangs == ShutdownEnds /\ LoadsWakeWaiters /\ Renderer!LoadsEnd
====
