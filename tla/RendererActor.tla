----------------------------- MODULE RendererActor -----------------------------
(***************************************************************************)
(* The life of renderer threads: RendererActor (renderer/actor/            *)
(* protocol.rs), its supervisor (actor/supervisor.rs) and the renderer     *)
(* that owns and replaces actors (renderer/maplibre.rs).  A native call    *)
(* cannot be cancelled.  A worker that gives up on one retires the actor,  *)
(* detaches its thread as an orphan, if there is room for one, and spawns  *)
(* a replacement; the orphan gives its room back when its call returns,    *)
(* which races with the detaching.  Every access to the shared status and  *)
(* to the orphan map is a step.                                            *)
(***************************************************************************)
EXTENDS Integers, FiniteSets, Sequences, FiniteSetsExt

CONSTANTS
    Workers,      \* renderer slots
    Actors,       \* names for the actors of one slot, reused once dead
    MaxDeaths,    \* threads that end by themselves
    MaxSpawnFails \* failed thread spawns

ASSUME ActorsAssumption == Actors # {}

VARIABLES
    worker,     \* per slot: MapLibreRenderer and the call that uses it
    actor,      \* per slot and actor: RendererActor and its thread
    orphaned,   \* orphaned_by_worker (orphaned_threads is its sum)
    available,  \* available_slots
    budget      \* faults left

actorVars == <<worker, actor, orphaned, available, budget>>

\* A slot: where its call is, where a successful replacement leads, the actor it
\* holds, whether that is retiring, and whether the slot counts as available.
Slot(pc, then, cur, retiring, avail) ==
    [pc |-> pc, then |-> then, cur |-> cur, retiring |-> retiring, avail |-> avail]

\* An actor: whether its join handle is held, its shared status, its thread and
\* the commands queued for it.
Actor(handle, status, thread, cmds) ==
    [handle |-> handle, status |-> status, thread |-> thread, cmds |-> cmds]

NoActor == Actor(FALSE, "running", "none", <<>>)
FreshActor == Actor(TRUE, "running", "idle", <<>>)

\* A dead actor that no renderer holds is forgotten.
Settled(held, x) == IF x.thread = "done" /\ ~held THEN NoActor ELSE x

Cur(w) == actor[w][worker[w].cur]
IsAlive(w) == Cur(w).handle /\ Cur(w).thread # "done"
Orphans == MapThenSumSet(LAMBDA w : orphaned[w], Workers)
Live(x) == x.thread \notin {"none", "done"}
Threads(w) == {a \in Actors : Live(actor[w][a])}
Free(w) == {a \in Actors \ {worker[w].cur} : ~Live(actor[w][a])}

Becomes(w, slot) == worker' = [worker EXCEPT ![w] = slot]
Moves(w, pc) == worker' = [worker EXCEPT ![w] = [@ EXCEPT !.pc = pc]]
Sets(w, a, x) == actor' = [actor EXCEPT ![w] = [@ EXCEPT ![a] = x]]

\* Sending to a thread that has left its loop has no effect.
Receiving(w) == Cur(w).thread \in {"idle", "native"}
Sent(x, cmd) == IF x.thread \in {"idle", "native"} THEN [x EXCEPT !.cmds = Append(@, cmd)] ELSE x
Send(w, cmd) == Sets(w, worker[w].cur, Sent(Cur(w), cmd))

\* set_slot_available; the flag is in the slot's record.
SetSlotAvailable(w, next) ==
    available' = available + CASE next /\ ~worker[w].avail -> 1
                               [] ~next /\ worker[w].avail -> -1
                               [] OTHER -> 0

ReleaseOrphan(w) ==
    orphaned' = [orphaned EXCEPT ![w] = IF @ > 0 THEN @ - 1 ELSE 0]

-----------------------------------------------------------------------------
(* The slot's worker.                                                      *)

\* The replacement of an unusable actor, on the way to a call or back to the
\* queue.
Replace(w, then) ==
    LET s == worker[w]
    IN Becomes(w, Slot(IF s.retiring THEN "check" ELSE "install", then, s.cur, s.retiring, s.avail))

\* setup_profile and render: actor() first replaces an unusable actor.
Call(w) ==
    /\ worker[w].pc = "idle"
    /\ IF worker[w].retiring \/ ~IsAlive(w) THEN Replace(w, "send") ELSE Moves(w, "send")
    /\ UNCHANGED <<actor, orphaned, available, budget>>

\* The command is sent; a receiver that is gone makes the call fail at once.
SendCommand(w) ==
    /\ worker[w].pc = "send"
    /\ Moves(w, IF Receiving(w) THEN "call" ELSE "idle")
    /\ Send(w, "run")
    /\ UNCHANGED <<orphaned, available, budget>>

\* The hard-wedge deadline passes: retire_after_current.
RetireAfterCurrent(w) ==
    /\ worker[w].pc = "call"
    /\ Becomes(w, Slot("check", "idle", worker[w].cur, TRUE, worker[w].avail))
    /\ Send(w, "retire")
    /\ UNCHANGED <<orphaned, available, budget>>

\* Mutant: only an actor that died by itself is repaired.
RepairFinished(w) ==
    /\ worker[w].pc = "idle"
    /\ ~worker[w].retiring /\ ~IsAlive(w)
    /\ Replace(w, "idle")
    /\ UNCHANGED <<actor, orphaned, available, budget>>

\* repair_if_needed, on the idle worker's tick.
Repair(w) ==
    /\ worker[w].pc = "idle"
    /\ worker[w].retiring \/ ~IsAlive(w)
    /\ Replace(w, "idle")
    /\ UNCHANGED <<actor, orphaned, available, budget>>

\* The join handle is taken.
TakeHandle(w) == Sets(w, worker[w].cur, [Cur(w) EXCEPT !.handle = FALSE])

\* try_abandon: no thread is left to detach, or one must be.
AbandonCheck(w) ==
    /\ worker[w].pc = "check"
    /\ \/ IsAlive(w) /\ Moves(w, "reserve") /\ UNCHANGED actor
       \/ ~IsAlive(w) /\ Moves(w, "install") /\ TakeHandle(w)
    /\ UNCHANGED <<orphaned, available, budget>>

HasOrphanRoom(w) == orphaned[w] = 0 /\ Orphans < Cardinality(Workers)

\* The slot is lost for now.
Lost(w) ==
    LET s == worker[w]
    IN Becomes(w, Slot("idle", s.then, s.cur, s.retiring, FALSE)) /\ SetSlotAvailable(w, FALSE)

\* try_reserve_orphan.
AbandonReserve(w) ==
    /\ worker[w].pc = "reserve"
    /\ \/ /\ HasOrphanRoom(w)
          /\ orphaned' = [orphaned EXCEPT ![w] = @ + 1]
          /\ Moves(w, "swap")
          /\ UNCHANGED available
       \/ ~HasOrphanRoom(w) /\ Lost(w) /\ UNCHANGED orphaned
    /\ UNCHANGED <<actor, budget>>

\* Mutant: a thread that finished in the meantime keeps the reservation.
FinishedMeanwhileKeeping(w) ==
    /\ Cur(w).status = "finished"
    /\ Moves(w, "join")
    /\ UNCHANGED <<actor, orphaned>>

\* The thread finished in the meantime, so it will not release the room.
FinishedMeanwhile(w) ==
    /\ Cur(w).status = "finished"
    /\ ReleaseOrphan(w)
    /\ Moves(w, "join")
    /\ UNCHANGED actor

\* The exchange of RUNNING for ORPHANED decides who releases the room.
AbandonSwap(w) ==
    /\ worker[w].pc = "swap"
    /\ \/ /\ Cur(w).status = "running"
          /\ Sets(w, worker[w].cur, Actor(FALSE, "orphaned", Cur(w).thread, Cur(w).cmds))
          /\ Moves(w, "install")
          /\ UNCHANGED orphaned
       \/ FinishedMeanwhile(w)
    /\ UNCHANGED <<available, budget>>

AbandonJoin(w) ==
    /\ worker[w].pc = "join" /\ Cur(w).thread = "done"
    /\ Moves(w, "install")
    /\ TakeHandle(w)
    /\ UNCHANGED <<orphaned, available, budget>>

\* spawn_and_install_replacement.  Dropping the old actor queues a shutdown
\* that an orphan finds when its call returns.
SpawnAndInstall(w) ==
    /\ worker[w].pc = "install"
    /\ \/ /\ Free(w) # {}
          /\ LET a == CHOOSE x \in Free(w) : TRUE
             IN /\ Becomes(w, Slot(worker[w].then, worker[w].then, a, FALSE, TRUE))
                /\ actor' = [actor EXCEPT ![w] =
                     [[@ EXCEPT ![worker[w].cur] = Settled(FALSE, Sent(Cur(w), "shutdown"))]
                          EXCEPT ![a] = FreshActor]]
          /\ SetSlotAvailable(w, TRUE)
          /\ UNCHANGED budget
       \/ /\ budget.spawn > 0
          /\ budget' = [budget EXCEPT !.spawn = @ - 1]
          /\ Lost(w)
          /\ UNCHANGED actor
    /\ UNCHANGED orphaned

\* Drop of the renderer when its worker ends: a shutdown is queued and the
\* thread is joined, or detached after a grace period.
DropActor(w) ==
    /\ worker[w].pc = "idle"
    /\ Moves(w, IF Cur(w).handle THEN "dropping" ELSE "dropped")
    /\ Send(w, "shutdown")
    /\ UNCHANGED <<orphaned, available, budget>>

DropJoin(w) ==
    /\ worker[w].pc = "dropping"
    /\ Cur(w).status = "finished"
    /\ Moves(w, "dropped")
    /\ UNCHANGED <<actor, orphaned, available, budget>>

DropDetach(w) ==
    /\ worker[w].pc = "dropping"
    /\ Cur(w).status = "running"
    /\ Sets(w, worker[w].cur, [Cur(w) EXCEPT !.status = "orphaned"])
    /\ Moves(w, "detached")
    /\ UNCHANGED <<orphaned, available, budget>>

DropReserve(w) ==
    /\ worker[w].pc = "detached"
    /\ orphaned' = [orphaned EXCEPT ![w] = @ + 1]
    /\ Moves(w, "dropped")
    /\ UNCHANGED <<actor, available, budget>>

-----------------------------------------------------------------------------
(* The actor's thread.                                                     *)

\* The reply, or the drop of its sender, reaches the caller that still waits.
Reply(w, a) ==
    IF worker[w].pc = "call" /\ worker[w].cur = a THEN Moves(w, "idle") ELSE UNCHANGED worker

ThreadTakes(w, a) ==
    LET x == actor[w][a]
    IN /\ x.thread = "idle" /\ x.cmds # <<>>
       /\ Sets(w, a, Actor(x.handle, x.status,
                           IF Head(x.cmds) = "run" THEN "native" ELSE "exiting", Tail(x.cmds)))
       /\ UNCHANGED <<worker, orphaned, available, budget>>

\* A native call returns: an image, an error or a caught panic.
NativeReturns(w, a) ==
    /\ actor[w][a].thread = "native"
    /\ Sets(w, a, [actor[w][a] EXCEPT !.thread = "idle"])
    /\ Reply(w, a)
    /\ UNCHANGED <<orphaned, available, budget>>

\* The thread unwinds outside the calls whose panics are caught.
ThreadDies(w, a) ==
    /\ actor[w][a].thread = "idle" /\ budget.die > 0
    /\ budget' = [budget EXCEPT !.die = @ - 1]
    /\ Sets(w, a, [actor[w][a] EXCEPT !.thread = "exiting"])
    /\ Reply(w, a)
    /\ UNCHANGED <<orphaned, available>>

\* ActorThreadExit: the swap tells the thread whether it was an orphan.
ExitSwap(w, a) ==
    LET x == actor[w][a]
    IN /\ x.thread = "exiting"
       /\ Sets(w, a, Actor(x.handle, "finished",
                           IF x.status = "orphaned" THEN "releasing" ELSE "done", <<>>))
       /\ UNCHANGED <<worker, orphaned, available, budget>>

ExitRelease(w, a) ==
    /\ actor[w][a].thread = "releasing"
    /\ Sets(w, a, Settled(worker[w].cur = a, [actor[w][a] EXCEPT !.thread = "done"]))
    /\ ReleaseOrphan(w)
    /\ UNCHANGED <<worker, available, budget>>

ActorInit ==
    LET first == CHOOSE a \in Actors : TRUE
    IN /\ worker = [w \in Workers |-> Slot("idle", "idle", first, FALSE, TRUE)]
       /\ actor = [w \in Workers |-> [a \in Actors |-> IF a = first THEN FreshActor ELSE NoActor]]
       /\ orphaned = [w \in Workers |-> 0]
       /\ available = Cardinality(Workers)
       /\ budget = [die |-> MaxDeaths, spawn |-> MaxSpawnFails]

Replacement(w) ==
    \/ AbandonCheck(w) \/ AbandonReserve(w) \/ AbandonSwap(w) \/ AbandonJoin(w)
    \/ SpawnAndInstall(w)

Dropping(w) == DropJoin(w) \/ DropDetach(w) \/ DropReserve(w)

Thread(w, a) == ThreadTakes(w, a) \/ ExitSwap(w, a) \/ ExitRelease(w, a)

ActorNext ==
    \E w \in Workers :
       \/ Call(w) \/ SendCommand(w) \/ RetireAfterCurrent(w) \/ Repair(w)
       \/ Replacement(w)
       \/ DropActor(w) \/ Dropping(w)
       \/ \E a \in Actors : Thread(w, a) \/ NativeReturns(w, a) \/ ThreadDies(w, a)

\* Runtime tasks and threads run on; the repair tick fires; a native call
\* need not return.
ActorFairness ==
    \A w \in Workers :
       /\ WF_actorVars(SendCommand(w)) /\ WF_actorVars(Replacement(w))
       /\ WF_actorVars(Dropping(w)) /\ WF_actorVars(Repair(w))
       /\ \A a \in Actors : WF_actorVars(Thread(w, a))

ActorSpec == ActorInit /\ [][ActorNext]_actorVars /\ ActorFairness

-----------------------------------------------------------------------------
(* Properties.                                                             *)

Detached(x) == x.status = "orphaned" \/ x.thread = "releasing"
OrphanThreads(w) == {a \in Actors : Detached(actor[w][a])}

\* However often calls wedge and replacements fail, a slot never has more
\* than two native threads, its actor's and one orphan's (biei-spec.md 8.2:
\* "Orphan count is bounded by renderer-slot count").
ThreadsBounded == \A w \in Workers : Cardinality(Threads(w)) <= 2

\* supervisor.rs counts an orphan for a slot exactly while a detached thread
\* of that slot lives, or its own worker holds the reservation it is about to
\* decide on: neither a thread that exits while it is being detached
\* (protocol.rs try_abandon against ActorThreadExit) nor a refused one leaks
\* room, or gives room back twice.  (The renderer's Drop is past this: it
\* counts only after it detached.)  And so no slot has more than two threads.
OrphansExact ==
    /\ \A w \in Workers :
          worker[w].pc \notin {"detached", "dropped"} =>
             orphaned[w] = Cardinality(OrphanThreads(w))
                           + (IF worker[w].pc = "swap" THEN 1 ELSE 0)
    /\ ThreadsBounded

\* As long as native calls return, however late, a slot that lost its actor,
\* its room for an orphan or a spawn becomes usable and is counted as
\* available again, without any request (repair_if_needed).
SlotsRecover ==
    (\A w \in Workers, a \in Actors : []<>(actor[w][a].thread # "native"))
       => \A w \in Workers :
             []<>(\/ worker[w].pc = "dropped"
                  \/ worker[w].avail /\ ~worker[w].retiring /\ IsAlive(w))
=============================================================================
