--------------------------- MODULE WorkerPoolProofs ---------------------------
(***************************************************************************)
(* Proofs about WorkerPool, for any number of slots, tasks, profiles and   *)
(* permits, any queue limits, and whatever disconnects, deaths, wedges and *)
(* retirements happen.                                                     *)
(***************************************************************************)
EXTENDS WorkerPool, TLAPS

USE Zenon

\* process before the command is sent: on its way to a slot, and holding a place.
Holding == {"counted", "reserved", "marked"}
Sent == {"waiting", "running", "done"}

In(q, x) == \E i \in DOMAIN q : q[i] = x

InQueue(w, t) == In(queue[w], t)

Distinct(q) == \A i, j \in DOMAIN q : q[i] = q[j] => i = j

\* The worker has the task's command.
Placed(w, t) == InQueue(w, t) \/ cmd[w] = t

\* A task that is about to reserve, or has reserved, knows its slot.
SlotKnown == \A t \in Tasks : tpc[t] \in {"picked"} \cup Holding => slot[t] \in Workers

\* A command exists once, and only after it was sent; it has no answer that
\* would start it over.
CommandOnce ==
    /\ \A w \in Workers : Distinct(queue[w])
    /\ \A t \in Tasks : \A v, w \in Workers :
          Placed(v, t) /\ Placed(w, t) => v = w
    /\ \A t \in Tasks : \A w \in Workers :
          /\ Placed(w, t) => tpc[t] \in Sent /\ reply[t] \in {"none", "timeout"}
          /\ InQueue(w, t) => cmd[w] # t
    /\ \A t \in Tasks : tpc[t] \notin Sent => reply[t] = "none"

\* A worker has a command exactly while it runs stages.
CommandPhase ==
    \A w \in Workers : cmd[w] = None <=> wpc[w] \in {"free", "retired"}

\* A task that can still be started has had no native render.
NativeLeft ==
    \A t \in Tasks :
       /\ native[t] \in {0, 1}
       /\ tpc[t] \notin Sent \/ reply[t] = "redispatch" => native[t] = 0
       /\ \A w \in Workers :
             InQueue(w, t) \/ (cmd[w] = t /\ wpc[w] # "render") => native[t] = 0

\* Past the setup, the slot holds what its command asked for.
SetupHeld ==
    \A w \in Workers :
       wpc[w] \in {"source", "native", "render"} => current[w] = SetupOf(cmd[w])

\* profile_counts is the number of slots committed to each profile.
CountsExact ==
    \A p \in Profiles : counts[p] = Cardinality({w \in Workers : loaded[w] = p})

\* A task that is over: it was sent, has no command left and will not start over.
Over(t) ==
    /\ tpc[t] \in Sent /\ reply[t] # "redispatch"
    /\ \A v \in Workers : ~Placed(v, t)

\* A slot is committed to the profile of its newest dispatch, which is still to
\* be processed, or has been and then left its setup behind.
Committed ==
    \A w \in Workers : loaded[w] # None =>
       /\ latest[w] \in Tasks /\ loaded[w] = ProfileOf[latest[w]]
       /\ \/ tpc[latest[w]] = "marked" /\ slot[latest[w]] = w
          \/ Placed(w, latest[w])
          \/ /\ Over(latest[w])
             /\ wpc[w] = "free" /\ lastRun[w] = latest[w] =>
                   current[w] = SetupOf(latest[w])

\* The inductive invariant.
Inv ==
    /\ TypeOK
    /\ DepthExact /\ CountsExact
    /\ SlotKnown /\ CommandOnce /\ CommandPhase
    /\ NativeLeft /\ SetupHeld /\ Committed
-----------------------------------------------------------------------------
(* Facts about counting and sequences, which the library proves. *)

\* Adding or taking away one element changes a count by one.
CountFacts ==
    /\ \A S : IsFiniteSet(S) => Cardinality(S) \in Nat
    /\ Cardinality({}) = 0 /\ \A x : Cardinality({x}) = 1
    /\ \A S, x : IsFiniteSet(S) /\ x \notin S => Cardinality(S \cup {x}) = Cardinality(S) + 1
    /\ \A S, T : IsFiniteSet(S) /\ T \subseteq S => IsFiniteSet(T)
    /\ \A S, T : IsFiniteSet(S) /\ T \subseteq S =>
          Cardinality(S \ T) = Cardinality(S) - Cardinality(T)

\* A queue is emptied from the front and filled at the back.
LEMMA TailQueue ==
  ASSUME NEW S, NEW q \in Seq(S), q # <<>>, Distinct(q)
  PROVE  /\ Head(q) \in S /\ In(q, Head(q)) /\ Tail(q) \in Seq(S) /\ Distinct(Tail(q))
         /\ \A x : In(Tail(q), x) <=> In(q, x) /\ x # Head(q)
<1>1. /\ Len(q) \in Nat /\ Len(q) > 0 /\ DOMAIN q = 1..Len(q) /\ Head(q) = q[1]
      /\ Tail(q) \in Seq(S) /\ DOMAIN Tail(q) = 1..(Len(q) - 1)
      /\ \A i \in 1..(Len(q) - 1) : Tail(q)[i] = q[i + 1]
  BY SMTT(30)
<1>2. Head(q) \in S /\ In(q, Head(q))
  BY <1>1, SMTT(30) DEF In
<1>3. Distinct(Tail(q))
  BY <1>1, SMTT(30) DEF Distinct
<1>4. ASSUME NEW x PROVE In(Tail(q), x) <=> In(q, x) /\ x # Head(q)
  <2>1. ASSUME In(Tail(q), x) PROVE In(q, x) /\ x # Head(q)
    <3>1. PICK i \in 1..(Len(q) - 1) : q[i + 1] = x
      BY <1>1, <2>1 DEF In
    <3>2. i + 1 \in DOMAIN q /\ i + 1 # 1 /\ 1 \in DOMAIN q
      BY <1>1, <3>1, SMTT(30)
    <3> QED
      BY <1>1, <3>1, <3>2 DEF In, Distinct
  <2>2. ASSUME In(q, x), x # Head(q) PROVE In(Tail(q), x)
    <3>1. PICK i \in DOMAIN q : q[i] = x
      BY <2>2 DEF In
    <3>2. i - 1 \in 1..(Len(q) - 1) /\ (i - 1) + 1 = i
      BY <1>1, <2>2, <3>1, SMTT(30)
    <3>3. Tail(q)[i - 1] = x
      BY <1>1, <3>1, <3>2
    <3> QED
      BY <1>1, <3>2, <3>3 DEF In
  <2> QED
    BY <2>1, <2>2
<1> QED
  BY <1>1, <1>2, <1>3, <1>4

\* Appending a new element keeps a queue free of repetitions.
LEMMA AppendQueue ==
  ASSUME NEW S, NEW q \in Seq(S), NEW e \in S, ~In(q, e), Distinct(q)
  PROVE  /\ Append(q, e) \in Seq(S) /\ Distinct(Append(q, e))
         /\ \A x : In(Append(q, e), x) <=> In(q, x) \/ x = e
<1>1. /\ Len(q) \in Nat /\ DOMAIN q = 1..Len(q)
      /\ Append(q, e) \in Seq(S) /\ DOMAIN Append(q, e) = 1..(Len(q) + 1)
      /\ \A i \in 1..Len(q) : Append(q, e)[i] = q[i]
      /\ Append(q, e)[Len(q) + 1] = e
  BY SMTT(30)
<1>2. \A i \in 1..(Len(q) + 1) : i \in 1..Len(q) \/ i = Len(q) + 1
  BY <1>1, SMTT(30)
<1>3. Distinct(Append(q, e))
  BY <1>1, <1>2 DEF In, Distinct
<1>4. \A x : In(Append(q, e), x) <=> In(q, x) \/ x = e
  <2>1. Len(q) + 1 \in 1..(Len(q) + 1) /\ 1..Len(q) \subseteq 1..(Len(q) + 1)
    BY <1>1, SMTT(30)
  <2> QED
    BY <1>1, <1>2, <2>1 DEF In
<1> QED
  BY <1>1, <1>3, <1>4
-----------------------------------------------------------------------------
(* The two counters: queue_depth and profile_counts.                       *)

\* The task holds a place in the slot's queue.
Has(w, t) ==
    \/ tpc[t] \in Holding /\ slot[t] = w
    \/ Placed(w, t)

\* Outstanding is the set of the tasks that hold a place in the slot.
LEMMA OutstandingHas ==
  \A w : Outstanding(w) = {t \in Tasks : Has(w, t)}
BY DEF Outstanding, Has, Placed, InQueue, In, Holding

\* The same in the next state.
LEMMA OutstandingHasNext ==
  \A w : Outstanding(w)' = {t \in Tasks : Has(w, t)'}
BY DEF Outstanding, Has, Placed, InQueue, In, Holding

\* A slot has finitely many outstanding tasks.
LEMMA OutstandingFinite ==
  ASSUME CountFacts, IsFiniteSet(Tasks)
  PROVE  \A w : IsFiniteSet(Outstanding(w))
<1>1. \A w : Outstanding(w) \subseteq Tasks
  BY DEF Outstanding
<1> QED
  BY <1>1, Zenon DEF CountFacts

\* A step that moves no place leaves the depths exact.
LEMMA DepthSame ==
  ASSUME DepthExact, UNCHANGED depth,
         \A v \in Workers, x \in Tasks : Has(v, x)' <=> Has(v, x)
  PROVE  DepthExact'
<1>1. \A v \in Workers : Outstanding(v)' = Outstanding(v)
  BY OutstandingHas, OutstandingHasNext
<1> QED
  BY <1>1 DEF DepthExact

\* So does one that counts the one place it adds, ...
LEMMA DepthUp ==
  ASSUME CountFacts, IsFiniteSet(Tasks), depth \in [Workers -> Nat], DepthExact,
         NEW w \in Workers, NEW t \in Tasks, ~Has(w, t),
         depth' = [depth EXCEPT ![w] = @ + 1],
         \A v \in Workers, x \in Tasks : Has(v, x)' <=> Has(v, x) \/ (v = w /\ x = t)
  PROVE  DepthExact' /\ depth' \in [Workers -> Nat]
<1>1. ASSUME NEW v \in Workers, v # w PROVE Outstanding(v)' = Outstanding(v)
  BY <1>1, OutstandingHas, OutstandingHasNext, Zenon
<1>2. Outstanding(w)' = Outstanding(w) \cup {t} /\ t \notin Outstanding(w)
  BY OutstandingHas, OutstandingHasNext, Zenon
<1>3. IsFiniteSet(Outstanding(w))
  BY OutstandingFinite
<1>4. Cardinality(Outstanding(w)') = Cardinality(Outstanding(w)) + 1
  BY <1>2, <1>3, Zenon DEF CountFacts
<1> QED
  BY <1>1, <1>4, SMTT(30) DEF DepthExact

\* ... and one that counts off the places it gives up.
LEMMA DepthDrop ==
  ASSUME CountFacts, IsFiniteSet(Tasks), depth \in [Workers -> Nat], DepthExact,
         NEW w \in Workers, NEW D \in SUBSET Tasks, \A x \in D : Has(w, x),
         depth' = [depth EXCEPT ![w] = @ - Cardinality(D)],
         \A v \in Workers, x \in Tasks : Has(v, x)' <=> Has(v, x) /\ ~(v = w /\ x \in D)
  PROVE  DepthExact' /\ depth' \in [Workers -> Nat]
<1>1. ASSUME NEW v \in Workers, v # w PROVE Outstanding(v)' = Outstanding(v)
  BY <1>1, OutstandingHas, OutstandingHasNext, Zenon
<1>2. Outstanding(w)' = Outstanding(w) \ D /\ D \subseteq Outstanding(w)
  BY OutstandingHas, OutstandingHasNext, Zenon
<1>3. IsFiniteSet(Outstanding(w)) /\ Outstanding(w)' \subseteq Outstanding(w)
  BY <1>2, OutstandingFinite
<1>4. Cardinality(Outstanding(w)') = Cardinality(Outstanding(w)) - Cardinality(D)
  BY <1>2, <1>3, Zenon DEF CountFacts
<1>5. Cardinality(Outstanding(w)') \in Nat
  BY <1>3, Zenon DEF CountFacts
<1> QED
  BY <1>1, <1>4, <1>5 DEF DepthExact

\* One task leaves one slot: its counter goes down by one.
LEMMA DepthDown ==
  ASSUME CountFacts, IsFiniteSet(Tasks), depth \in [Workers -> Nat], DepthExact,
         NEW w \in Workers, NEW t \in Tasks, Has(w, t),
         depth' = [depth EXCEPT ![w] = @ - 1],
         \A v \in Workers, x \in Tasks : Has(v, x)' <=> Has(v, x) /\ ~(v = w /\ x = t)
  PROVE  DepthExact' /\ depth' \in [Workers -> Nat]
<1>1. Cardinality({t}) = 1
  BY Zenon DEF CountFacts
<1>2. depth' = [depth EXCEPT ![w] = @ - Cardinality({t})]
  BY <1>1, Zenon
<1>3. \A v \in Workers, x \in Tasks : Has(v, x)' <=> Has(v, x) /\ ~(v = w /\ x \in {t})
  OBVIOUS
<1>4. {t} \in SUBSET Tasks /\ \A x \in {t} : Has(w, x)
  OBVIOUS
<1> QED
  BY <1>2, <1>3, <1>4, DepthDrop, Zenon

\* The slots committed to a profile.
SlotsOf(p) == {w \in Workers : loaded[w] = p}

\* Finitely many slots are committed to a profile.
LEMMA SlotsFinite ==
  ASSUME CountFacts, IsFiniteSet(Workers)
  PROVE  \A p : IsFiniteSet(SlotsOf(p))
<1>1. \A p : SlotsOf(p) \subseteq Workers
  BY DEF SlotsOf
<1> QED
  BY <1>1, Zenon DEF CountFacts

\* One more slot is committed to a profile.
LEMMA SlotTaken ==
  ASSUME CountFacts, IsFiniteSet(Workers), NEW p, NEW w \in SlotsOf(p),
         SlotsOf(p)' = SlotsOf(p) \ {w}
  PROVE  /\ Cardinality(SlotsOf(p)') = Cardinality(SlotsOf(p)) - 1
         /\ Cardinality(SlotsOf(p)') \in Nat
<1>1. IsFiniteSet(SlotsOf(p)) /\ {w} \subseteq SlotsOf(p) /\ SlotsOf(p)' \subseteq SlotsOf(p)
  BY SlotsFinite
<1>2. Cardinality({w}) = 1 /\ Cardinality(SlotsOf(p)') \in Nat
  BY <1>1, Zenon DEF CountFacts
<1>3. Cardinality(SlotsOf(p)') = Cardinality(SlotsOf(p)) - Cardinality({w})
  BY <1>1, Zenon DEF CountFacts
<1> QED
  BY <1>2, <1>3

LoadedTyped ==
    /\ loaded \in [Workers -> Profiles \cup {None}]
    /\ counts \in [Profiles -> Nat]

\* Committing a slot to a profile keeps the profile counts exact, ...
LEMMA MarkCounts ==
  ASSUME CountFacts, IsFiniteSet(Workers), None \notin Profiles, LoadedTyped, CountsExact,
         NEW w \in Workers, NEW p \in Profiles, MarkLoaded(w, p)
  PROVE  LoadedTyped' /\ CountsExact'
<1>0. PICK q : q = loaded[w]
  OBVIOUS
<1>1. \A r : IsFiniteSet(SlotsOf(r))
  BY SlotsFinite
<1>2. \A r \in Profiles : counts[r] = Cardinality(SlotsOf(r))
  BY DEF CountsExact, SlotsOf
<1>3. loaded' = [loaded EXCEPT ![w] = p] /\ loaded' \in [Workers -> Profiles \cup {None}]
  BY DEF MarkLoaded, LoadedTyped
<1>4. SUFFICES counts' \in [Profiles -> Nat] /\ \A r \in Profiles : counts'[r] = Cardinality(SlotsOf(r)')
  BY <1>3 DEF LoadedTyped, CountsExact, SlotsOf
<1>5. CASE q = p
  <2>1. counts' = counts
    BY <1>0, <1>5 DEF MarkLoaded
  <2>2. \A v \in Workers : loaded'[v] = loaded[v]
    <3>1. loaded[w] = p /\ loaded \in [Workers -> Profiles \cup {None}]
      BY <1>0, <1>5 DEF LoadedTyped
    <3> QED
      BY <1>3, <3>1
  <2>3. \A r : SlotsOf(r)' = SlotsOf(r)
    BY <2>2, Zenon DEF SlotsOf
  <2> QED
    BY <1>2, <2>1, <2>3 DEF LoadedTyped
<1>6. CASE q # p
  <2>1. SlotsOf(p)' = SlotsOf(p) \cup {w} /\ w \notin SlotsOf(p)
    BY <1>0, <1>3, <1>6 DEF SlotsOf, LoadedTyped
  <2>2. \A r \in Profiles \ {p, q} : SlotsOf(r)' = SlotsOf(r)
    BY <1>0, <1>3 DEF SlotsOf, LoadedTyped
  <2>3. SlotsOf(q)' = SlotsOf(q) \ {w} /\ w \in SlotsOf(q)
    BY <1>0, <1>3, <1>6 DEF SlotsOf, LoadedTyped
  <2>4. Cardinality(SlotsOf(p)') = Cardinality(SlotsOf(p)) + 1
    BY <1>1, <2>1, Zenon DEF CountFacts
  <2>5. /\ Cardinality(SlotsOf(q)') = Cardinality(SlotsOf(q)) - 1
        /\ Cardinality(SlotsOf(q)') \in Nat
    BY <2>3, SlotTaken, Zenon
  <2>6. CASE q = None
    <3>1. counts' = [counts EXCEPT ![p] = @ + 1]
      BY <1>0, <1>6, <2>6 DEF MarkLoaded, CountOf
    <3> QED
      BY <1>2, <2>2, <2>4, <2>6, <3>1, SMTT(30) DEF LoadedTyped
  <2>7. CASE q # None
    <3>1. q \in Profiles
      BY <1>0, <2>7 DEF LoadedTyped
    <3>2. counts' = [[counts EXCEPT ![q] = @ + (0 - 1)] EXCEPT ![p] = @ + 1]
      BY <1>0, <1>6, <2>7 DEF MarkLoaded, CountOf
    <3> QED
      BY <1>2, <1>6, <2>2, <2>4, <2>5, <3>1, <3>2, SMTT(30) DEF LoadedTyped
  <2> QED
    BY <2>6, <2>7
<1> QED
  BY <1>5, <1>6

\* ... and so does clearing it.
LEMMA ClearCounts ==
  ASSUME CountFacts, IsFiniteSet(Workers), None \notin Profiles, LoadedTyped, CountsExact,
         NEW w \in Workers, loaded[w] # None,
         loaded' = [loaded EXCEPT ![w] = None], counts' = CountOf(counts, loaded[w], 0 - 1)
  PROVE  LoadedTyped' /\ CountsExact'
<1>0. PICK q : q = loaded[w]
  OBVIOUS
<1>1. \A r : IsFiniteSet(SlotsOf(r))
  BY SlotsFinite
<1>2. \A r \in Profiles : counts[r] = Cardinality(SlotsOf(r))
  BY DEF CountsExact, SlotsOf
<1>3. loaded' \in [Workers -> Profiles \cup {None}] /\ q \in Profiles
  BY <1>0 DEF LoadedTyped
<1>4. SUFFICES counts' \in [Profiles -> Nat] /\ \A r \in Profiles : counts'[r] = Cardinality(SlotsOf(r)')
  BY <1>3 DEF LoadedTyped, CountsExact, SlotsOf
<1>5. \A r \in Profiles \ {q} : SlotsOf(r)' = SlotsOf(r)
  BY <1>0 DEF SlotsOf, LoadedTyped
<1>6. SlotsOf(q)' = SlotsOf(q) \ {w} /\ w \in SlotsOf(q)
  BY <1>0, <1>3 DEF SlotsOf, LoadedTyped
<1>7. /\ Cardinality(SlotsOf(q)') = Cardinality(SlotsOf(q)) - 1
      /\ Cardinality(SlotsOf(q)') \in Nat
  BY <1>6, SlotTaken, Zenon
<1>8. counts' = [counts EXCEPT ![q] = @ + (0 - 1)]
  BY <1>0 DEF CountOf
<1> QED
  BY <1>2, <1>3, <1>5, <1>7, <1>8, SMTT(30) DEF LoadedTyped
-----------------------------------------------------------------------------
(* Steps that share a shape.                                               *)

\* What of a worker and of its commands the caller side does not touch.
WorkersKept == UNCHANGED <<queue, wpc, cmd, current, native, lastRun>>

\* Only task t moves.
OthersKept(t) ==
    \A x \in Tasks \ {t} : tpc'[x] = tpc[x] /\ slot'[x] = slot[x] /\ reply'[x] = reply[x]

\* Where commands are, the setups, and what slots are committed to.
Control == SlotKnown /\ CommandOnce /\ CommandPhase /\ NativeLeft /\ SetupHeld /\ Committed

\* A caller moves on, without sending or committing anything.
LEMMA CallerMoves ==
  ASSUME TypeOK, Control, NEW t \in Tasks, WorkersKept, OthersKept(t),
         UNCHANGED <<loaded, latest>>,
         tpc[t] # "marked",
         tpc'[t] \in {"picked"} \cup Holding => slot'[t] \in Workers,
         reply'[t] \in {"none", reply[t]},
         tpc'[t] \notin Sent => reply'[t] = "none",
         tpc[t] \in Sent /\ reply[t] # "redispatch" => tpc'[t] \in Sent
  PROVE  Control'
<1>1. \A w, x : (InQueue(w, x)' <=> InQueue(w, x)) /\ (Placed(w, x)' <=> Placed(w, x))
  BY DEF WorkersKept, InQueue, Placed
<1>2. SlotKnown'
  BY DEF Control, SlotKnown, OthersKept
<1>3. CommandOnce'
  BY <1>1 DEF Control, CommandOnce, OthersKept, WorkersKept
<1>4. CommandPhase' /\ SetupHeld'
  BY DEF Control, CommandPhase, SetupHeld, WorkersKept
<1>5. NativeLeft'
  BY <1>1 DEF Control, NativeLeft, OthersKept, WorkersKept
<1>6. \A x \in Tasks : Over(x) => Over(x)'
  BY <1>1 DEF Over, OthersKept
<1>7. Committed'
  BY <1>1, <1>6 DEF Control, Committed, OthersKept, WorkersKept
<1> QED
  BY <1>2, <1>3, <1>4, <1>5, <1>7 DEF Control

\* A worker with a command goes on to its next stage.
LEMMA WorkerAdvances ==
  ASSUME TypeOK, Control, None \notin Tasks, NEW w \in Workers, NEW stage,
         UNCHANGED <<loaded, latest, queue, tpc, slot, reply, cmd, lastRun>>,
         wpc[w] \notin {"free", "render", "retired"},
         wpc' = [wpc EXCEPT ![w] = stage], stage \in {"setup", "source", "native", "render"},
         \A v \in Workers \ {w} : current'[v] = current[v],
         stage # "setup" => current'[w] = SetupOf(cmd[w]),
         native' = IF stage = "render" THEN [native EXCEPT ![cmd[w]] = @ + 1] ELSE native
  PROVE  Control'
<1>1. \A v, x : (InQueue(v, x)' <=> InQueue(v, x)) /\ (Placed(v, x)' <=> Placed(v, x))
  BY DEF InQueue, Placed
<1>2. SlotKnown' /\ CommandOnce'
  BY <1>1 DEF Control, SlotKnown, CommandOnce
<1>3. CommandPhase'
  BY DEF Control, CommandPhase, TypeOK
<1>4. SetupHeld'
  BY DEF Control, SetupHeld, TypeOK
<1>5. /\ cmd[w] \in Tasks /\ Placed(w, cmd[w]) /\ native[cmd[w]] = 0
      /\ tpc[cmd[w]] \in Sent /\ reply[cmd[w]] # "redispatch"
      /\ \A v \in Workers : ~InQueue(v, cmd[w]) /\ (cmd[v] = cmd[w] => v = w)
  <2>1. cmd[w] \in Tasks /\ Placed(w, cmd[w])
    BY DEF Control, CommandPhase, Placed, TypeOK
  <2>2. tpc[cmd[w]] \in Sent /\ reply[cmd[w]] # "redispatch" /\ native[cmd[w]] = 0
    BY <2>1 DEF Control, CommandOnce, NativeLeft
  <2>3. \A v \in Workers : ~InQueue(v, cmd[w]) /\ (cmd[v] = cmd[w] => v = w)
    BY <2>1 DEF Control, CommandOnce, Placed
  <2> QED
    BY <2>1, <2>2, <2>3
<1>6. NativeLeft'
  <2>1. CASE stage = "render"
    BY <1>1, <1>5, <2>1, SMTT(30) DEF Control, NativeLeft, TypeOK
  <2>2. CASE stage # "render"
    BY <1>1, <2>2, SMTT(30) DEF Control, NativeLeft, TypeOK
  <2> QED
    BY <2>1, <2>2
<1>7. \A x \in Tasks : Over(x) => Over(x)'
  BY <1>1 DEF Over
<1>8. Committed'
  BY <1>1, <1>7 DEF Control, Committed, TypeOK
<1> QED
  BY <1>2, <1>3, <1>4, <1>6, <1>8 DEF Control

\* Commands leave a worker that then has none in hand: they are handed back, are
\* finished, or are dropped with the receiver.
LEMMA CommandsLeave ==
  ASSUME TypeOK, Control, None \notin Tasks, NEW w \in Workers, NEW D \in SUBSET Tasks,
         \A x \in D : Placed(w, x),
         \A v \in Workers : Distinct(queue'[v]),
         \A v \in Workers, x \in Tasks :
            /\ InQueue(v, x)' => InQueue(v, x)
            /\ Placed(v, x)' <=> Placed(v, x) /\ ~(v = w /\ x \in D),
         UNCHANGED <<latest, tpc, slot, native>>,
         \A x \in Tasks \ D : reply'[x] = reply[x],
         \A x \in D : reply'[x] = "redispatch" => native[x] = 0,
         \A v \in Workers \ {w} :
            /\ cmd'[v] = cmd[v] /\ wpc'[v] = wpc[v] /\ current'[v] = current[v]
            /\ lastRun'[v] = lastRun[v] /\ loaded'[v] = loaded[v],
         cmd'[w] = None, wpc'[w] \in {"free", "retired"}, loaded'[w] \in {None, loaded[w]},
         latest[w] \in D => \/ loaded'[w] = None
                            \/ /\ reply'[latest[w]] # "redispatch"
                               /\ current'[w] = SetupOf(latest[w]),
         latest[w] \notin D => wpc'[w] # "free" \/ lastRun'[w] # latest[w]
  PROVE  Control'
<1>1. \A x \in D, v \in Workers : tpc[x] \in Sent /\ (Placed(v, x) => v = w) /\ ~Placed(v, x)'
  BY DEF Control, CommandOnce
<1>2. SlotKnown'
  BY DEF Control, SlotKnown
<1>3. CommandOnce'
  <2>1. \A x \in Tasks : \A v, u \in Workers : Placed(v, x)' /\ Placed(u, x)' => v = u
    BY DEF Control, CommandOnce
  <2>2. \A x \in Tasks : \A v \in Workers : Placed(v, x)' => tpc[x] \in Sent /\ reply'[x] \in {"none", "timeout"}
    BY <1>1 DEF Control, CommandOnce
  <2>3. \A x \in Tasks : \A v \in Workers : InQueue(v, x)' => cmd'[v] # x
    BY SMTT(30) DEF Control, CommandOnce
  <2>4. \A x \in Tasks : tpc[x] \notin Sent => reply'[x] = "none"
    BY <1>1, ZenonT(30) DEF Control, CommandOnce
  <2> QED
    BY <2>1, <2>2, <2>3, <2>4 DEF CommandOnce
<1>4. CommandPhase' /\ SetupHeld'
  <2>1. CommandPhase'
    BY DEF Control, CommandPhase
  <2>2. ASSUME NEW v \in Workers, wpc'[v] \in {"source", "native", "render"}
        PROVE  current'[v] = SetupOf(cmd'[v])
    <3>1. v # w
      BY <2>2, SMTT(30)
    <3>2. cmd'[v] = cmd[v] /\ wpc'[v] = wpc[v] /\ current'[v] = current[v]
      BY <3>1
    <3>3. SetupHeld
      BY DEF Control
    <3> QED
      BY <2>2, <3>2, <3>3, SMTT(30) DEF SetupHeld
  <2>3. SetupHeld'
    BY <2>2 DEF SetupHeld, SetupOf
  <2> QED
    BY <2>1, <2>3
<1>5. NativeLeft'
  BY <1>1, SMTT(30) DEF Control, NativeLeft
<1>6. \A x \in Tasks : Over(x) => Over(x)' /\ x \notin D
  BY <1>1 DEF Over
<1>7. \A x \in D : reply'[x] # "redispatch" => Over(x)'
  BY <1>1 DEF Over
<1>8. Committed'
  <2>1. ASSUME NEW v \in Workers, v # w, loaded[v] # None PROVE latest[v] \notin D
    BY <1>1, <1>6, <2>1 DEF Control, Committed, Sent
  <2> SUFFICES ASSUME NEW v \in Workers, loaded'[v] # None
               PROVE  /\ latest[v] \in Tasks /\ loaded'[v] = ProfileOf[latest[v]]
                      /\ \/ tpc[latest[v]] = "marked" /\ slot[latest[v]] = v
                         \/ Placed(v, latest[v])'
                         \/ /\ Over(latest[v])'
                            /\ wpc'[v] = "free" /\ lastRun'[v] = latest[v] =>
                                  current'[v] = SetupOf(latest[v])
    BY DEF Committed, SetupOf
  <2>2. latest'[v] = latest[v] /\ latest[v] \in Tasks /\ loaded'[v] = ProfileOf[latest[v]]
    BY ZenonT(30) DEF Control, Committed
  <2>3. PICK x \in Tasks : x = latest[v]
    BY <2>2
  <2>4. CASE v # w
    BY <1>6, <2>1, <2>2, <2>3, <2>4, SMTT(30) DEF Control, Committed
  <2>5. CASE v = w /\ x \in D
    BY <1>7, <2>2, <2>3, <2>5 DEF Control, Committed
  <2>6. CASE v = w /\ x \notin D
    BY <1>6, <2>2, <2>3, <2>6 DEF Control, Committed
  <2> QED
    BY <2>4, <2>5, <2>6
<1> QED
  BY <1>2, <1>3, <1>4, <1>5, <1>8 DEF Control
-----------------------------------------------------------------------------
(* Each step keeps the invariant.                                          *)


\* What the proofs take from the assumption on the constants.
Constants ==
    /\ IsFiniteSet(Workers) /\ IsFiniteSet(Tasks)
    /\ None \notin Workers /\ None \notin Tasks /\ None \notin Profiles
    /\ Retire \notin Tasks
    /\ ProfileOf \in [Tasks -> Profiles] /\ SourceOf \in [Tasks -> Sources \cup {None}]
    /\ Cacheable \subseteq Sources
    /\ HintOf \in [Tasks -> Workers \cup {None}]
    /\ \A t \in Tasks : SetupOf(t) # None
    /\ Scenarios \subseteq [slots : SUBSET Workers, shutdown : BOOLEAN, deaths : Nat]
    /\ \A q \in Seq(Sources), s \in Sources : Touch(q, s) \in Seq(Sources)
    /\ CountFacts

TaskTyped ==
    /\ tpc \in [Tasks -> TaskPhases] /\ slot \in [Tasks -> Workers \cup {None}]
    /\ hint \in [Tasks -> Workers \cup {None}] /\ reply \in [Tasks -> Replies]

\* The types of the variables that describe tasks.
LEMMA TaskTypes == TypeOK => TaskTyped
BY DEF TypeOK, TaskTyped

\* A caller that holds no place before or after its step.
CallerShape(t, p, s) ==
    /\ p \in TaskPhases \ Holding /\ s \in Workers \cup {None}
    /\ tpc[t] \notin Holding
    /\ tpc' = [tpc EXCEPT ![t] = p] /\ slot' = [slot EXCEPT ![t] = s]
    /\ hint' \in [Tasks -> Workers \cup {None}]
    /\ reply' = reply \/ reply' = [reply EXCEPT ![t] = "none"]
    /\ UNCHANGED <<poolVars, late, started, workerVars, history>>
    /\ p = "picked" => s \in Workers
    /\ p \notin Sent => reply'[t] = "none"
    /\ tpc[t] \in Sent /\ reply[t] # "redispatch" => p \in Sent

\* A step of that kind keeps the invariant.
LEMMA CallerKeeps ==
  ASSUME Inv, NEW t \in Tasks, NEW p, NEW s, CallerShape(t, p, s)
  PROVE  Inv'
<1> USE DEF Inv
<1>1. reply' \in [Tasks -> Replies]
  <2>1. CASE reply' = reply
    BY <2>1 DEF TypeOK
  <2>2. CASE reply' = [reply EXCEPT ![t] = "none"]
    BY <2>2, TaskTypes DEF TaskTyped, Replies
  <2> QED
    BY <2>1, <2>2 DEF CallerShape
<1>2. tpc' \in [Tasks -> TaskPhases] /\ slot' \in [Tasks -> Workers \cup {None}]
  BY DEF TypeOK, CallerShape
<1>3. TypeOK'
  BY <1>1, <1>2 DEF TypeOK, CallerShape, poolVars, workerVars, history
<1>4. WorkersKept /\ UNCHANGED <<depth, loaded, counts, latest>>
  BY DEF WorkersKept, CallerShape, poolVars, workerVars, history
<1>5. OthersKept(t) /\ tpc'[t] = p /\ slot'[t] = s /\ reply'[t] \in {"none", reply[t]}
  BY DEF OthersKept, CallerShape, TypeOK
<1>6. Control'
  BY <1>4, <1>5, CallerMoves DEF CallerShape, Control, Holding
<1>7. \A v \in Workers, x \in Tasks : Has(v, x)' <=> Has(v, x)
  BY <1>4, <1>5, ZenonT(30) DEF CallerShape, Has, Placed, InQueue, WorkersKept, OthersKept
<1>8. DepthExact' /\ CountsExact'
  BY <1>4, <1>7, DepthSame DEF CountsExact
<1> QED
  BY <1>3, <1>6, <1>8 DEF Control

\* select_worker chooses a slot, or ends the task.
LEMMA SelectWorkerKeeps ==
  ASSUME Inv, NEW t \in Tasks, SelectWorker(t)
  PROVE  Inv'
<1>1. TaskTyped /\ (tpc[t] = "select" => reply[t] = "none")
  BY TaskTypes DEF Inv, CommandOnce, Sent
<1>2. CASE Return(t)
  <2>1. CallerShape(t, "done", None)
    BY <1>1, <1>2 DEF SelectWorker, Return, CallerShape, TaskTyped, TaskPhases, Holding, Sent
  <2> QED
    BY <2>1, CallerKeeps, Zenon
<1>3. CASE /\ tpc' = [tpc EXCEPT ![t] = "picked"]
           /\ \E w \in Workers : slot' = [slot EXCEPT ![t] = w]
  <2>1. PICK w \in Workers : slot' = [slot EXCEPT ![t] = w]
    BY <1>3, Zenon
  <2>2. CallerShape(t, "picked", w)
    BY <1>1, <1>3, <2>1 DEF SelectWorker, CallerShape, TaskTyped, TaskPhases, Holding, Sent
  <2> QED
    BY <2>2, CallerKeeps, Zenon
<1> QED
  BY <1>1, <1>2, <1>3 DEF SelectWorker, BestAvailable, Candidates, TaskTyped

\* The caller sees that its command has started.
LEMMA SeeStartedKeeps ==
  ASSUME Inv, NEW t \in Tasks, SeeStarted(t)
  PROVE  Inv'
<1>1. TaskTyped
  BY TaskTypes DEF Inv
<1>2. CallerShape(t, "running", slot[t])
  BY <1>1 DEF SeeStarted, CallerShape, TaskTyped, TaskPhases, Holding, Sent
<1> QED
  BY <1>2, CallerKeeps, Zenon

\* The caller takes its answer, or starts over.
LEMMA ReceiveReplyKeeps ==
  ASSUME Inv, NEW t \in Tasks, ReceiveReply(t)
  PROVE  Inv'
<1>1. TaskTyped
  BY TaskTypes DEF Inv
<1>2. CallerShape(t, IF reply[t] = "redispatch" THEN "select" ELSE "done", None)
  BY <1>1 DEF ReceiveReply, Return, CallerShape, TaskTyped, TaskPhases, Holding, Sent
<1> QED
  BY <1>2, CallerKeeps, Zenon

\* The caller gives up while its command stays with the worker.
LEMMA GivesUpKeeps ==
  ASSUME Inv, NEW t \in Tasks, QueueTimeout(t) \/ Disconnect(t)
  PROVE  Inv'
<1>1. TaskTyped
  BY TaskTypes DEF Inv
<1>2. CallerShape(t, "done", None)
  BY <1>1 DEF QueueTimeout, Disconnect, Return, CallerShape, TaskTyped, TaskPhases, Holding, Sent
<1> QED
  BY <1>2, CallerKeeps, Zenon

\* A reservation is made, confirmed or given back.
ReserveShape(t, p, s) ==
    /\ tpc[t] \in {"picked", "counted"}
    /\ p \in {"select", "done", "counted", "reserved"}
    /\ p \in Holding => s = slot[t]
    /\ s \in Workers \cup {None}
    /\ tpc' = [tpc EXCEPT ![t] = p] /\ slot' = [slot EXCEPT ![t] = s]
    /\ UNCHANGED <<available, loaded, counts, latest, queue, hint, late,
                   started, reply, workerVars, history>>

\* A caller takes, keeps or gives back its place.
LEMMA ReserveMoves ==
  ASSUME Inv, NEW t \in Tasks, NEW p, NEW s, ReserveShape(t, p, s)
  PROVE  /\ depth' \in [Workers -> Nat] => TypeOK'
         /\ Control' /\ CountsExact' /\ slot[t] \in Workers /\ \A v \in Workers : ~Placed(v, t)
         /\ \A v \in Workers, x \in Tasks :
               Has(v, x)' <=> IF x = t THEN p \in Holding /\ v = slot[t] ELSE Has(v, x)
<1> USE DEF Inv
<1>1. tpc' \in [Tasks -> TaskPhases] /\ slot' \in [Tasks -> Workers \cup {None}]
  BY TaskTypes DEF TaskTyped, ReserveShape, TaskPhases
<1>2. ASSUME depth' \in [Workers -> Nat] PROVE TypeOK'
  BY <1>1, <1>2 DEF TypeOK, ReserveShape, workerVars, history
<1>3. WorkersKept /\ UNCHANGED <<loaded, counts, latest>>
  BY DEF WorkersKept, ReserveShape, workerVars, history
<1>4. OthersKept(t) /\ tpc'[t] = p /\ slot'[t] = s /\ reply' = reply
  BY TaskTypes DEF OthersKept, ReserveShape, TaskTyped
<1>5. slot[t] \in Workers /\ reply[t] = "none" /\ \A v \in Workers : ~Placed(v, t)
  BY DEF ReserveShape, SlotKnown, CommandOnce, Sent, Holding
<1>6. Control'
  BY <1>3, <1>4, <1>5, CallerMoves DEF ReserveShape, Control, Holding, Sent
<1>7. CountsExact'
  BY <1>3 DEF CountsExact
<1>8. ASSUME NEW v \in Workers, NEW x \in Tasks
      PROVE  Has(v, x)' <=> IF x = t THEN p \in Holding /\ v = slot[t] ELSE Has(v, x)
  BY <1>3, <1>4, <1>5 DEF ReserveShape, Has, Placed, InQueue, WorkersKept, OthersKept
<1> QED
  BY <1>2, <1>5, <1>6, <1>7, <1>8

\* try_reserve counts one place up to the limit, or the caller chooses again.
LEMMA TryReserveKeeps ==
  ASSUME Constants, Inv, NEW t \in Tasks, TryReserve(t)
  PROVE  Inv'
<1>1. TaskTyped /\ depth \in [Workers -> Nat] /\ tpc[t] = "picked"
  BY TaskTypes DEF TryReserve, Inv, TypeOK
<1>2. CASE ReservationFailed(t) /\ UNCHANGED depth
  <2>1. reply[t] = "none"
    BY <1>1 DEF Inv, CommandOnce, Sent
  <2>2. CallerShape(t, IF hint[t] # None THEN "done" ELSE "select", None)
    BY <1>1, <1>2, <2>1 DEF TryReserve, ReservationFailed, Return, CallerShape, TaskTyped,
                      TaskPhases, Holding, Sent, poolVars
  <2> QED
    BY <2>2, CallerKeeps, Zenon
<1>3. CASE /\ depth' = [depth EXCEPT ![slot[t]] = @ + 1]
           /\ tpc' = [tpc EXCEPT ![t] = "counted"] /\ UNCHANGED slot
  <2>1. ReserveShape(t, "counted", slot[t])
    BY <1>1, <1>3 DEF TryReserve, ReserveShape, TaskTyped
  <2>2. /\ depth' \in [Workers -> Nat] => TypeOK'
        /\ Control' /\ CountsExact' /\ slot[t] \in Workers /\ \A v \in Workers : ~Placed(v, t)
        /\ \A v \in Workers, x \in Tasks :
               Has(v, x)' <=> IF x = t THEN "counted" \in Holding /\ v = slot[t] ELSE Has(v, x)
    BY <2>1, ReserveMoves, Zenon
  <2>3. PICK w \in Workers : w = slot[t]
    BY <2>2
  <2>4. /\ depth' = [depth EXCEPT ![w] = @ + 1] /\ ~Has(w, t)
        /\ \A v \in Workers, x \in Tasks : Has(v, x)' <=> Has(v, x) \/ (v = w /\ x = t)
    BY <1>1, <1>3, <2>2, <2>3, ZenonT(30) DEF Has, Holding
  <2>5. DepthExact' /\ depth' \in [Workers -> Nat]
    BY <1>1, <2>4, DepthUp, Zenon DEF Constants, Inv
  <2> QED
    BY <2>2, <2>5 DEF Inv, Control
<1> QED
  BY <1>2, <1>3 DEF TryReserve

\* A reservation on a slot hidden meanwhile is given back.
LEMMA ConfirmReservationKeeps ==
  ASSUME Constants, Inv, NEW t \in Tasks, ConfirmReservation(t)
  PROVE  Inv'
<1>1. TaskTyped /\ depth \in [Workers -> Nat] /\ tpc[t] = "counted"
  BY TaskTypes DEF ConfirmReservation, Inv, TypeOK
<1>2. CASE tpc' = [tpc EXCEPT ![t] = "reserved"] /\ UNCHANGED <<slot, depth>>
  <2>1. ReserveShape(t, "reserved", slot[t])
    BY <1>1, <1>2 DEF ConfirmReservation, ReserveShape, TaskTyped
  <2>2. /\ depth' \in [Workers -> Nat] => TypeOK'
        /\ Control' /\ CountsExact' /\ \A v \in Workers : ~Placed(v, t)
        /\ \A v \in Workers, x \in Tasks :
               Has(v, x)' <=> IF x = t THEN "reserved" \in Holding /\ v = slot[t] ELSE Has(v, x)
    BY <2>1, ReserveMoves, Zenon
  <2>3. \A v \in Workers, x \in Tasks : Has(v, x)' <=> Has(v, x)
    BY <1>1, <2>2, ZenonT(30) DEF Has, Holding
  <2>4. DepthExact'
    BY <1>2, <2>3, DepthSame DEF Inv
  <2> QED
    BY <1>1, <1>2, <2>2, <2>4 DEF Inv, Control
<1>3. CASE ReservationFailed(t) /\ depth' = [depth EXCEPT ![slot[t]] = @ - 1]
  <2> DEFINE p == IF hint[t] # None THEN "done" ELSE "select"
  <2>1. ReserveShape(t, p, None)
    BY <1>1, <1>3 DEF ConfirmReservation, ReservationFailed, Return, ReserveShape, TaskTyped, Holding
  <2>2. p \notin Holding
    BY DEF Holding
  <2> HIDE DEF p
  <2>3. /\ depth' \in [Workers -> Nat] => TypeOK'
        /\ Control' /\ CountsExact' /\ slot[t] \in Workers /\ \A v \in Workers : ~Placed(v, t)
        /\ \A v \in Workers, x \in Tasks :
               Has(v, x)' <=> IF x = t THEN p \in Holding /\ v = slot[t] ELSE Has(v, x)
    BY <2>1, ReserveMoves, Zenon
  <2>4. PICK w \in Workers : w = slot[t]
    BY <2>3
  <2>5. /\ depth' = [depth EXCEPT ![w] = @ - 1] /\ Has(w, t)
        /\ \A v \in Workers, x \in Tasks : Has(v, x)' <=> Has(v, x) /\ ~(v = w /\ x = t)
    BY <1>1, <1>3, <2>2, <2>3, <2>4 DEF Has, Holding
  <2>6. DepthExact' /\ depth' \in [Workers -> Nat]
    BY <1>1, <2>5, DepthDown, ZenonT(30) DEF Constants, Inv
  <2> QED
    BY <2>3, <2>6 DEF Inv, Control
<1> QED
  BY <1>2, <1>3 DEF ConfirmReservation

\* mark_loaded replaces the commitment of the slot.
LEMMA CommitProfileKeeps ==
  ASSUME Constants, Inv, NEW t \in Tasks, CommitProfile(t)
  PROVE  Inv'
<1>1. PICK w \in Workers : w = slot[t]
  BY DEF CommitProfile, Inv, SlotKnown, Holding
<1>2. /\ tpc[t] = "reserved" /\ tpc' = [tpc EXCEPT ![t] = "marked"]
      /\ MarkLoaded(w, ProfileOf[t]) /\ latest' = [latest EXCEPT ![w] = t]
      /\ UNCHANGED <<depth, available, queue, slot, hint, late, started, reply, workerVars, history>>
  BY <1>1 DEF CommitProfile
<1>3. ProfileOf[t] \in Profiles /\ LoadedTyped
  BY DEF Constants, Inv, TypeOK, LoadedTyped
<1>4. LoadedTyped' /\ CountsExact'
  BY <1>2, <1>3, MarkCounts DEF Constants, Inv
<1>5. /\ tpc' \in [Tasks -> TaskPhases] /\ latest' \in [Workers -> Tasks \cup {None}]
      /\ loaded' = [loaded EXCEPT ![w] = ProfileOf[t]]
  BY <1>2, SMTT(30) DEF Inv, TypeOK, TaskPhases, MarkLoaded
<1>6. TypeOK'
  BY <1>2, <1>4, <1>5 DEF Inv, TypeOK, LoadedTyped, workerVars, history
<1>7. /\ WorkersKept /\ UNCHANGED <<slot, reply, depth>> /\ tpc'[t] = "marked"
      /\ \A x \in Tasks \ {t} : tpc'[x] = tpc[x]
      /\ latest'[w] = t /\ loaded'[w] = ProfileOf[t]
      /\ \A v \in Workers \ {w} : latest'[v] = latest[v] /\ loaded'[v] = loaded[v]
  BY <1>2, <1>5, SMTT(30) DEF WorkersKept, workerVars, history, Inv, TypeOK
<1>8. \A v, x : (InQueue(v, x)' <=> InQueue(v, x)) /\ (Placed(v, x)' <=> Placed(v, x))
  BY <1>7 DEF WorkersKept, InQueue, Placed
<1>9. SlotKnown'
  BY <1>1, <1>7 DEF Inv, SlotKnown
<1>10. CommandOnce'
  BY <1>2, <1>7, <1>8, SMTT(30) DEF Inv, CommandOnce, WorkersKept, Sent
<1>11. CommandPhase' /\ SetupHeld'
  BY <1>7 DEF Inv, CommandPhase, SetupHeld, SetupOf, WorkersKept
<1>12. NativeLeft'
  BY <1>2, <1>7, <1>8, SMTT(30) DEF Inv, NativeLeft, WorkersKept, Sent
<1>13. Committed'
  <2>1. \A v \in Workers \ {w} : loaded[v] # None => latest[v] # t
    BY <1>1, <1>2, SMTT(30) DEF Inv, Committed, CommandOnce, Over, Sent
  <2>2. \A x \in Tasks : Over(x) => Over(x)' /\ x # t
    BY <1>2, <1>7, <1>8, SMTT(30) DEF Over, Sent
  <2> QED
    BY <1>1, <1>7, <1>8, <2>1, <2>2, SMTT(30) DEF Inv, Committed, WorkersKept
<1>14. \A v \in Workers, x \in Tasks : Has(v, x)' <=> Has(v, x)
  BY <1>2, <1>7, <1>8, SMTT(30) DEF Has, Holding
<1>15. DepthExact'
  BY <1>7, <1>14, DepthSame DEF Inv
<1> QED
  BY <1>4, <1>6, <1>9, <1>10, <1>11, <1>12, <1>13, <1>15 DEF Inv

\* A slot whose commitment is cleared, if it is to the task's dispatch.
ClearShape(w, t) ==
    /\ UNCHANGED latest
    /\ \A v \in Workers \ {w} : loaded'[v] = loaded[v]
    /\ loaded'[w] \in {None, loaded[w]}
    /\ latest[w] = t => loaded'[w] = None

\* Giving up a commitment keeps the invariant.
LEMMA ClearKeeps ==
  ASSUME Constants, Inv, NEW w \in Workers, NEW t \in Tasks, ClearLoadedIfLatest(w, t),
         UNCHANGED latest
  PROVE  LoadedTyped' /\ CountsExact' /\ ClearShape(w, t)
<1>1. LoadedTyped
  BY DEF Inv, TypeOK, LoadedTyped
<1>2. CASE latest[w] = t /\ loaded[w] # None
  <2>1. loaded' = [loaded EXCEPT ![w] = None] /\ counts' = CountOf(counts, loaded[w], 0 - 1)
    BY <1>2 DEF ClearLoadedIfLatest
  <2>2. LoadedTyped' /\ CountsExact'
    BY <1>1, <1>2, <2>1, ClearCounts DEF Constants, Inv
  <2>3. ClearShape(w, t)
    BY <1>1, <2>1, SMTT(30) DEF ClearShape, LoadedTyped
  <2> QED
    BY <2>2, <2>3
<1>3. CASE ~(latest[w] = t /\ loaded[w] # None)
  <2>1. UNCHANGED <<loaded, counts>>
    BY <1>3 DEF ClearLoadedIfLatest
  <2> QED
    BY <1>1, <1>3, <2>1, SMTT(30) DEF LoadedTyped, Inv, CountsExact, ClearShape
<1> QED
  BY <1>2, <1>3

\* The facts about a task that has marked its slot and sent nothing yet.
LEMMA MarkedFacts ==
  ASSUME Inv, NEW t \in Tasks, tpc[t] \in Holding
  PROVE  /\ slot[t] \in Workers /\ reply[t] = "none" /\ native[t] = 0
         /\ \A v \in Workers : ~Placed(v, t) /\ ~InQueue(v, t) /\ cmd[v] # t
         /\ \A v \in Workers \ {slot[t]} : loaded[v] # None => latest[v] # t
         /\ ~Over(t)
<1>1. tpc[t] \notin Sent
  BY SMTT(30) DEF Holding, Sent
<1>2. slot[t] \in Workers /\ reply[t] = "none" /\ native[t] = 0
  BY <1>1 DEF Inv, SlotKnown, CommandOnce, NativeLeft
<1>3. \A v \in Workers : ~Placed(v, t) /\ ~InQueue(v, t) /\ cmd[v] # t
  BY <1>1 DEF Inv, CommandOnce, Placed
<1>4. ~Over(t)
  BY <1>1 DEF Over
<1> QED
  BY <1>2, <1>3, <1>4, SMTT(30) DEF Inv, Committed

\* A command sent to a slot whose loop has ended frees its place.
LEMMA SendDropped ==
  ASSUME Constants, Inv, NEW t \in Tasks, Send(t), wpc[slot[t]] = "retired"
  PROVE  Inv'
<1>1. tpc[t] = "marked" /\ tpc[t] \in Holding
  BY DEF Send, Holding
<1>2. PICK w \in Workers : w = slot[t]
  BY <1>1, MarkedFacts
<1>3. /\ depth' = [depth EXCEPT ![w] = @ - 1] /\ ClearLoadedIfLatest(w, t)
      /\ tpc' = [tpc EXCEPT ![t] = "done"] /\ slot' = [slot EXCEPT ![t] = None]
      /\ started' = [started EXCEPT ![t] = FALSE]
      /\ UNCHANGED <<queue, available, latest, hint, late, reply, workerVars, history>>
  BY <1>2 DEF Send, CompletionDrop, Return
<1>4. LoadedTyped' /\ CountsExact' /\ ClearShape(w, t)
  BY <1>3, ClearKeeps
<1>5. /\ tpc' \in [Tasks -> TaskPhases] /\ slot' \in [Tasks -> Workers \cup {None}]
      /\ WorkersKept /\ OthersKept(t) /\ tpc'[t] = "done" /\ reply' = reply
  BY <1>3, TaskTypes, SMTT(30) DEF Inv, TaskTyped, TaskPhases, WorkersKept, OthersKept, workerVars, history
<1>6. started' \in [Tasks -> BOOLEAN]
  BY <1>3 DEF Inv, TypeOK
<1>7. \A v, x : (InQueue(v, x)' <=> InQueue(v, x)) /\ (Placed(v, x)' <=> Placed(v, x))
  BY <1>5 DEF WorkersKept, InQueue, Placed
<1>8. \A v \in Workers, x \in Tasks : Has(v, x)' <=> Has(v, x) /\ ~(v = w /\ x = t)
  BY <1>1, <1>2, <1>5, <1>7, MarkedFacts, SMTT(30) DEF Has, OthersKept, Holding
<1>9. Has(w, t) /\ depth \in [Workers -> Nat]
  BY <1>1, <1>2 DEF Has, Inv, TypeOK
<1>10. DepthExact' /\ depth' \in [Workers -> Nat]
  BY <1>3, <1>8, <1>9, DepthDown DEF Constants, Inv
<1>11. TypeOK'
  BY <1>3, <1>4, <1>5, <1>6, <1>10 DEF Inv, TypeOK, LoadedTyped, workerVars, history
<1>12. SlotKnown' /\ CommandPhase' /\ SetupHeld'
  <2>1. SlotKnown'
    BY <1>5, SMTT(30) DEF Inv, SlotKnown, OthersKept, Holding
  <2> QED
    BY <1>5, <2>1 DEF Inv, CommandPhase, SetupHeld, SetupOf, WorkersKept
<1>13. CommandOnce'
  <2>1. tpc'[t] \in Sent /\ \A v \in Workers : ~Placed(v, t)
    BY <1>1, <1>5, MarkedFacts DEF Sent
  <2>2. \A x \in Tasks : \A v \in Workers : Placed(v, x)' =>
           tpc'[x] \in Sent /\ reply'[x] \in {"none", "timeout"}
    BY <1>5, <1>7, <2>1 DEF Inv, CommandOnce, OthersKept
  <2>3. \A x \in Tasks : tpc'[x] \notin Sent => reply'[x] = "none"
    BY <1>5, <2>1 DEF Inv, CommandOnce, OthersKept
  <2>4. \A x \in Tasks : \A u, v \in Workers : Placed(u, x)' /\ Placed(v, x)' => u = v
    BY <1>7 DEF Inv, CommandOnce
  <2>5. \A v \in Workers : Distinct(queue'[v])
    BY <1>5 DEF Inv, CommandOnce, WorkersKept
  <2>6. \A x \in Tasks : \A v \in Workers : InQueue(v, x)' => cmd'[v] # x
    BY <1>5, <1>7 DEF Inv, CommandOnce, WorkersKept
  <2> QED
    BY <2>2, <2>3, <2>4, <2>5, <2>6 DEF CommandOnce
<1>14. NativeLeft'
  <2>1. ASSUME NEW x \in Tasks
        PROVE  /\ native'[x] \in {0, 1}
               /\ tpc'[x] \notin Sent \/ reply'[x] = "redispatch" => native'[x] = 0
               /\ \A v \in Workers :
                     InQueue(v, x)' \/ (cmd'[v] = x /\ wpc'[v] # "render") => native'[x] = 0
    <3>1. CASE x = t
      BY <1>1, <1>5, <3>1, MarkedFacts DEF WorkersKept
    <3>2. CASE x # t
      BY <1>5, <1>7, <3>2 DEF Inv, NativeLeft, WorkersKept, OthersKept
    <3> QED
      BY <3>1, <3>2
  <2> QED
    BY <2>1 DEF NativeLeft
<1>15. Committed'
  <2>1. \A x \in Tasks : Over(x) => Over(x)' /\ x # t
    BY <1>1, <1>5, <1>7, MarkedFacts DEF Over, OthersKept
  <2>2. \A v \in Workers : loaded'[v] # None => loaded'[v] = loaded[v] /\ latest'[v] = latest[v] /\ latest[v] # t
    BY <1>1, <1>2, <1>4, MarkedFacts, SMTT(30) DEF ClearShape
  <2> QED
    BY <1>5, <1>7, <2>1, <2>2, SMTT(30) DEF Inv, Committed, WorkersKept, OthersKept
<1> QED
  BY <1>4, <1>10, <1>11, <1>12, <1>13, <1>14, <1>15 DEF Inv

\* A command sent to a live slot keeps the place its caller reserved.
LEMMA SendAccepted ==
  ASSUME Constants, Inv, NEW t \in Tasks, Send(t), wpc[slot[t]] # "retired"
  PROVE  Inv'
<1>1. tpc[t] = "marked" /\ tpc[t] \in Holding
  BY DEF Send, Holding
<1>2. PICK w \in Workers : w = slot[t]
  BY <1>1, MarkedFacts
<1>3. /\ queue' = [queue EXCEPT ![w] = Append(queue[w], t)]
      /\ tpc' = [tpc EXCEPT ![t] = "waiting"] /\ started' = [started EXCEPT ![t] = FALSE]
      /\ UNCHANGED <<depth, loaded, counts, slot, available, latest, hint, late, reply,
                     workerVars, history>>
  BY <1>2 DEF Send
<1>4. /\ queue[w] \in Seq(Tasks \cup {Retire}) /\ t \in Tasks \cup {Retire}
      /\ ~In(queue[w], t) /\ Distinct(queue[w])
  BY <1>1, MarkedFacts DEF Inv, TypeOK, CommandOnce, InQueue
<1>5. /\ Append(queue[w], t) \in Seq(Tasks \cup {Retire}) /\ Distinct(Append(queue[w], t))
      /\ \A x : In(Append(queue[w], t), x) <=> In(queue[w], x) \/ x = t
  BY <1>4, AppendQueue, ZenonT(30)
<1>6. /\ tpc' \in [Tasks -> TaskPhases] /\ tpc'[t] = "waiting"
      /\ OthersKept(t) /\ reply' = reply /\ slot' = slot
      /\ queue' \in [Workers -> Seq(Tasks \cup {Retire})] /\ queue'[w] = Append(queue[w], t)
      /\ \A v \in Workers \ {w} : queue'[v] = queue[v]
  BY <1>3, <1>5, SMTT(30) DEF Inv, TypeOK, TaskPhases, OthersKept
<1>7. started' \in [Tasks -> BOOLEAN]
  BY <1>3 DEF Inv, TypeOK
<1>8. UNCHANGED <<wpc, cmd, current, native, lastRun, loaded, latest, depth, counts>>
  BY <1>3 DEF workerVars, history
<1>9. TypeOK'
  BY <1>3, <1>6, <1>7 DEF Inv, TypeOK, workerVars, history
<1>10. ASSUME NEW v \in Workers, NEW x \in Tasks
       PROVE  /\ InQueue(v, x)' <=> InQueue(v, x) \/ (v = w /\ x = t)
              /\ Placed(v, x)' <=> Placed(v, x) \/ (v = w /\ x = t)
  <2>1. InQueue(v, x)' <=> InQueue(v, x) \/ (v = w /\ x = t)
    <3>1. CASE v = w
      BY <1>5, <1>6, <3>1 DEF InQueue
    <3>2. CASE v # w
      BY <1>6, <3>2 DEF InQueue
    <3> QED
      BY <3>1, <3>2
  <2> QED
    BY <1>8, <2>1 DEF Placed
<1>11. \A v \in Workers, x \in Tasks : Has(v, x)' <=> Has(v, x)
  BY <1>1, <1>2, <1>6, <1>10, MarkedFacts, SMTT(30) DEF Has, OthersKept, Holding
<1>12. DepthExact' /\ CountsExact'
  BY <1>8, <1>11, DepthSame DEF Inv, CountsExact
<1>13. SlotKnown' /\ CommandPhase' /\ SetupHeld'
  <2>1. SlotKnown'
    BY <1>6, SMTT(30) DEF Inv, SlotKnown, OthersKept, Holding
  <2> QED
    BY <1>8, <2>1 DEF Inv, CommandPhase, SetupHeld, SetupOf
<1>14. tpc'[t] \in Sent /\ reply[t] \in {"none", "timeout"}
  BY <1>1, <1>6, MarkedFacts DEF Sent
<1>15. CommandOnce'
  <2>1. \A v \in Workers : Distinct(queue'[v])
    BY <1>5, <1>6, ZenonT(30) DEF Inv, CommandOnce
  <2>2. \A x \in Tasks : \A u, v \in Workers : Placed(u, x)' /\ Placed(v, x)' => u = v
    <3> SUFFICES ASSUME NEW x \in Tasks, NEW u \in Workers, NEW v \in Workers,
                        Placed(u, x)', Placed(v, x)'
                 PROVE  u = v
      OBVIOUS
    <3>1. CASE x = t
      <4>1. ~Placed(u, x) /\ ~Placed(v, x)
        BY <1>1, <3>1, MarkedFacts
      <4> QED
        BY <1>10, <4>1
    <3>2. CASE x # t
      BY <1>10, <3>2 DEF Inv, CommandOnce
    <3> QED
      BY <3>1, <3>2
  <2>3. \A x \in Tasks : \A v \in Workers :
           /\ Placed(v, x)' => tpc'[x] \in Sent /\ reply'[x] \in {"none", "timeout"}
           /\ InQueue(v, x)' => cmd'[v] # x
    <3> SUFFICES ASSUME NEW x \in Tasks, NEW v \in Workers
                 PROVE  /\ Placed(v, x)' => tpc'[x] \in Sent /\ reply'[x] \in {"none", "timeout"}
                        /\ InQueue(v, x)' => cmd'[v] # x
      OBVIOUS
    <3>1. CASE x = t
      BY <1>1, <1>6, <1>8, <1>14, <3>1, MarkedFacts
    <3>2. CASE x # t
      BY <1>6, <1>8, <1>10, <3>2 DEF Inv, CommandOnce, OthersKept
    <3> QED
      BY <3>1, <3>2
  <2>4. \A x \in Tasks : tpc'[x] \notin Sent => reply'[x] = "none"
    BY <1>6, <1>14 DEF Inv, CommandOnce, OthersKept
  <2> QED
    BY <2>1, <2>2, <2>3, <2>4 DEF CommandOnce
<1>16. NativeLeft'
  <2>1. ASSUME NEW x \in Tasks
        PROVE  /\ native'[x] \in {0, 1}
               /\ tpc'[x] \notin Sent \/ reply'[x] = "redispatch" => native'[x] = 0
               /\ \A v \in Workers :
                     InQueue(v, x)' \/ (cmd'[v] = x /\ wpc'[v] # "render") => native'[x] = 0
    <3>1. CASE x = t
      BY <1>1, <1>8, <3>1, MarkedFacts
    <3>2. CASE x # t
      BY <1>6, <1>8, <1>10, <3>2 DEF Inv, NativeLeft, OthersKept
    <3> QED
      BY <3>1, <3>2
  <2> QED
    BY <2>1 DEF NativeLeft
<1>17. Committed'
  <2>1. \A x \in Tasks : Over(x) => Over(x)' /\ x # t
    BY <1>1, <1>6, <1>10, MarkedFacts DEF Over, OthersKept
  <2>2. ASSUME NEW v \in Workers, loaded[v] # None
        PROVE  \/ tpc'[latest[v]] = "marked" /\ slot[latest[v]] = v
               \/ Placed(v, latest[v])'
               \/ /\ Over(latest[v])'
                  /\ wpc[v] = "free" /\ lastRun[v] = latest[v] => current[v] = SetupOf(latest[v])
    <3>1. PICK x \in Tasks : x = latest[v]
      BY <2>2 DEF Inv, Committed
    <3>2. CASE x = t
      <4>1. v = w
        BY <1>1, <1>2, <2>2, <3>1, <3>2, MarkedFacts
      <4>2. Placed(v, x)'
        BY <1>10, <3>2, <4>1
      <4> QED
        BY <1>8, <3>1, <4>2 DEF Placed, InQueue
    <3>3. CASE x # t
      <4>1. tpc'[x] = tpc[x] /\ (Placed(v, x) => Placed(v, x)') /\ (Over(x) => Over(x)')
        BY <1>6, <1>10, <2>1, <3>3 DEF OthersKept
      <4>2. \/ tpc[x] = "marked" /\ slot[x] = v
            \/ Placed(v, x)
            \/ /\ Over(x)
               /\ wpc[v] = "free" /\ lastRun[v] = x => current[v] = SetupOf(x)
        BY <2>2, <3>1 DEF Inv, Committed
      <4>3. latest'[v] = x /\ (Placed(v, x)' <=> Placed(v, latest[v])')
                          /\ (Over(x)' <=> Over(latest[v])')
        BY <1>8, <3>1 DEF Placed, InQueue, Over
      <4> QED
        BY <3>1, <4>1, <4>2, <4>3
    <3> QED
      BY <3>2, <3>3
  <2> QED
    BY <1>6, <1>8, <2>2 DEF Inv, Committed, SetupOf
<1> QED
  BY <1>9, <1>12, <1>13, <1>15, <1>16, <1>17 DEF Inv
-----------------------------------------------------------------------------
(* The worker's steps.                                                     *)

\* Nothing moves: an answer may be given to a task whose command is out.
LEMMA NothingMoves ==
  ASSUME Control, UNCHANGED <<loaded, latest, tpc, slot, wpc, cmd, current, native, lastRun>>,
         \A v \in Workers : Distinct(queue'[v]),
         \A v \in Workers, x \in Tasks : /\ InQueue(v, x)' <=> InQueue(v, x)
                                         /\ Placed(v, x)' <=> Placed(v, x),
         \A x \in Tasks : \/ reply'[x] = reply[x]
                          \/ tpc[x] \in Sent /\ reply'[x] \in {"none", "timeout"}
  PROVE  Control'
<1>1. \A x \in Tasks : /\ reply'[x] = "redispatch" => reply[x] = "redispatch"
                       /\ reply[x] \in {"none", "timeout"} => reply'[x] \in {"none", "timeout"}
                       /\ tpc[x] \notin Sent => reply'[x] = reply[x]
  BY SMTT(30)
<1>2. SlotKnown' /\ CommandPhase' /\ SetupHeld'
  BY DEF Control, SlotKnown, CommandPhase, SetupHeld, SetupOf
<1>3. CommandOnce'
  <2>1. ASSUME NEW x \in Tasks, NEW v \in Workers, NEW u \in Workers, Placed(v, x)', Placed(u, x)'
        PROVE  v = u
    BY <2>1 DEF Control, CommandOnce
  <2>2. ASSUME NEW x \in Tasks, NEW v \in Workers
        PROVE  /\ Placed(v, x)' => tpc'[x] \in Sent /\ reply'[x] \in {"none", "timeout"}
               /\ InQueue(v, x)' => cmd'[v] # x
    BY <1>1 DEF Control, CommandOnce
  <2>3. ASSUME NEW x \in Tasks, tpc'[x] \notin Sent
        PROVE  reply'[x] = "none"
    BY <1>1, <2>3 DEF Control, CommandOnce
  <2> QED
    BY <2>1, <2>2, <2>3 DEF CommandOnce
<1>4. NativeLeft'
  <2> SUFFICES ASSUME NEW x \in Tasks
               PROVE  /\ native'[x] \in {0, 1}
                      /\ tpc'[x] \notin Sent \/ reply'[x] = "redispatch" => native'[x] = 0
                      /\ \A v \in Workers :
                            InQueue(v, x)' \/ (cmd'[v] = x /\ wpc'[v] # "render") => native'[x] = 0
    BY DEF NativeLeft
  <2> QED
    BY <1>1 DEF Control, NativeLeft
<1>5. Committed'
  <2>1. ASSUME NEW x \in Tasks, Over(x) PROVE Over(x)'
    BY <1>1, <2>1 DEF Over
  <2> SUFFICES ASSUME NEW v \in Workers, loaded[v] # None, NEW x \in Tasks, x = latest[v]
               PROVE  /\ loaded[v] = ProfileOf[x]
                      /\ \/ tpc[x] = "marked" /\ slot[x] = v
                         \/ Placed(v, x)'
                         \/ /\ Over(x)'
                            /\ wpc[v] = "free" /\ lastRun[v] = x => current[v] = SetupOf(x)
    BY DEF Control, Committed, SetupOf
  <2> QED
    BY <2>1 DEF Control, Committed
<1> QED
  BY <1>2, <1>3, <1>4, <1>5 DEF Control

\* Steps that only move flags: a passed deadline, a repair tick, a death.
LEMMA FlagsKeep ==
  ASSUME Inv, UNCHANGED <<depth, loaded, counts, latest, queue, tpc, slot, hint, reply, started,
                          wpc, cmd, overdue, current, sources, native, lastRun, shutdown>>,
         late' \in [Tasks -> BOOLEAN], available' \in [Workers -> BOOLEAN],
         healthy' \in [Workers -> BOOLEAN], deaths' \in Nat
  PROVE  Inv'
<1>1. TypeOK'
  BY DEF Inv, TypeOK
<1>2. \A v, x : /\ InQueue(v, x)' <=> InQueue(v, x)
                /\ Placed(v, x)' <=> Placed(v, x)
                /\ Has(v, x)' <=> Has(v, x)
  BY DEF InQueue, Placed, Has
<1>3. DepthExact' /\ CountsExact'
  BY <1>2, DepthSame DEF Inv, CountsExact
<1>4. Control'
  <2>1. \A v \in Workers : Distinct(queue'[v])
    BY DEF Inv, CommandOnce
  <2> QED
    BY <1>2, <2>1, NothingMoves DEF Inv, Control
<1> QED
  BY <1>1, <1>3, <1>4 DEF Inv, Control

\* sync_availability leaves flags.
LEMMA SyncTyped ==
  ASSUME TypeOK, NEW w \in Workers, NEW h, SyncAvailability(w, h)
  PROVE  available' \in [Workers -> BOOLEAN] /\ healthy' \in [Workers -> BOOLEAN]
<1>1. PICK ok \in BOOLEAN : /\ healthy' = [healthy EXCEPT ![w] = ok]
                            /\ available' = [available EXCEPT ![w] = ok]
  BY DEF SyncAvailability
<1> QED
  BY <1>1 DEF TypeOK

\* The deadline passes, a slot is repaired, or a renderer dies.
LEMMA FlagStepsKeep ==
  ASSUME Inv,
         \/ \E t \in Tasks : PassDeadline(t)
         \/ \E w \in Workers : RepairTick(w) \/ RendererDies(w)
  PROVE  Inv'
<1>1. ASSUME NEW t \in Tasks, PassDeadline(t) PROVE Inv'
  <2>1. late' \in [Tasks -> BOOLEAN] /\ available' \in [Workers -> BOOLEAN]
        /\ healthy' \in [Workers -> BOOLEAN] /\ deaths' \in Nat
    BY <1>1 DEF PassDeadline, Inv, TypeOK, poolVars, workerVars, history
  <2> QED
    BY <1>1, <2>1, FlagsKeep DEF PassDeadline, poolVars, workerVars, history
<1>2. ASSUME NEW w \in Workers, RepairTick(w) PROVE Inv'
  <2>1. available' \in [Workers -> BOOLEAN] /\ healthy' \in [Workers -> BOOLEAN]
    BY <1>2, SyncTyped DEF RepairTick, Inv
  <2>2. late' \in [Tasks -> BOOLEAN] /\ deaths' \in Nat
    BY <1>2 DEF RepairTick, taskVars, history, Inv, TypeOK
  <2> QED
    BY <1>2, <2>1, <2>2, FlagsKeep DEF RepairTick, taskVars, history
<1>3. ASSUME NEW w \in Workers, RendererDies(w) PROVE Inv'
  <2>1. late' \in [Tasks -> BOOLEAN] /\ available' \in [Workers -> BOOLEAN]
        /\ healthy' \in [Workers -> BOOLEAN]
    BY <1>3 DEF RendererDies, Inv, TypeOK, poolVars, taskVars
  <2>2. deaths' \in Nat
    BY <1>3, SMTT(30) DEF RendererDies, Inv, TypeOK
  <2> QED
    BY <1>3, <2>1, <2>2, FlagsKeep DEF RendererDies, poolVars, taskVars
<1> QED
  BY <1>1, <1>2, <1>3

\* The stages a command goes through without ending.
LEMMA StageKeeps ==
  ASSUME Constants, Inv, NEW w \in Workers, NEW stage \in {"setup", "source", "native", "render"},
         Advance(w, stage), wpc[w] \in {"permit", "setup", "source", "native"},
         current' \in [Workers -> {None} \cup {SetupOf(t) : t \in Tasks}],
         \A v \in Workers \ {w} : current'[v] = current[v],
         stage # "setup" => current'[w] = SetupOf(cmd[w]),
         sources' \in [Workers -> Seq(Sources)],
         native' = IF stage = "render" THEN [native EXCEPT ![cmd[w]] = @ + 1] ELSE native,
         UNCHANGED <<lastRun, deaths, shutdown>>
  PROVE  Inv'
<1>1. /\ wpc' = [wpc EXCEPT ![w] = stage] /\ wpc[w] \notin {"free", "render", "retired"}
      /\ UNCHANGED <<poolVars, taskVars, cmd, overdue, healthy>>
  BY SMTT(30) DEF Advance
<1>2. UNCHANGED <<loaded, latest, queue, tpc, slot, reply, cmd, lastRun, depth, counts>>
  BY <1>1 DEF poolVars, taskVars
<1>3. wpc' \in [Workers -> WorkerPhases]
  BY <1>1, SMTT(30) DEF Inv, TypeOK, WorkerPhases
<1>4. cmd[w] \in Tasks
  BY <1>1, SMTT(30) DEF Inv, CommandPhase, TypeOK
<1>5. native' \in [Tasks -> Nat]
  BY <1>4, SMTT(30) DEF Inv, TypeOK
<1>6. TypeOK'
  BY <1>1, <1>3, <1>5 DEF Inv, TypeOK, poolVars, taskVars
<1>7. Control'
  BY <1>1, <1>2, WorkerAdvances DEF Inv, Control, Constants
<1>8. \A v \in Workers, x \in Tasks : Has(v, x)' <=> Has(v, x)
  BY <1>2 DEF Has, Placed, InQueue
<1>9. DepthExact' /\ CountsExact'
  BY <1>2, <1>8, DepthSame DEF Inv, CountsExact
<1> QED
  BY <1>6, <1>7, <1>9 DEF Inv, Control

\* The command of a worker that is in a stage.
LEMMA StageCommand ==
  ASSUME Constants, Inv, NEW w \in Workers, wpc[w] \notin {"free", "retired"}
  PROVE  cmd[w] \in Tasks /\ Placed(w, cmd[w])
BY DEF Constants, Inv, CommandPhase, TypeOK, Placed

\* A command goes on to its next stage.
LEMMA StageStepsKeep ==
  ASSUME Constants, Inv, NEW w \in Workers,
         \/ AcquireRenderPermit(w) \/ EnsureSource(w) \/ AcquireNativePermit(w)
         \/ SetupProfile(w) /\ ~late[cmd[w]]
  PROVE  Inv'
<1>0. wpc[w] \in {"permit", "setup", "source", "native"}
  BY DEF AcquireRenderPermit, EnsureSource, AcquireNativePermit, SetupProfile
<1>t. /\ current \in [Workers -> {None} \cup {SetupOf(t) : t \in Tasks}]
      /\ sources \in [Workers -> Seq(Sources)]
      /\ wpc[w] \in {"source", "native"} => current[w] = SetupOf(cmd[w])
  BY DEF Inv, TypeOK, SetupHeld
<1>c. cmd[w] \in Tasks
  <2>1. wpc[w] \notin {"free", "retired"}
    BY <1>0, SMTT(30)
  <2> QED
    BY <2>1, StageCommand
<1>1. CASE AcquireRenderPermit(w)
  <2> DEFINE stage == IF current[w] = SetupOf(cmd[w]) THEN "source" ELSE "setup"
  <2>1. /\ Advance(w, stage) /\ stage \in {"setup", "source", "native", "render"}
        /\ stage # "setup" => current[w] = SetupOf(cmd[w])
        /\ current' = current /\ sources' = sources /\ stage # "render"
        /\ UNCHANGED <<native, lastRun, deaths, shutdown>>
    BY <1>1, SMTT(30) DEF AcquireRenderPermit, history
  <2> HIDE DEF stage
  <2> QED
    BY <1>0, <1>t, <2>1, StageKeeps
<1>2. CASE EnsureSource(w)
  <2>1. /\ Advance(w, "native") /\ wpc[w] = "source" /\ current' = current
        /\ UNCHANGED <<native, lastRun, deaths, shutdown>>
    BY <1>2 DEF EnsureSource, history
  <2>2. sources' \in [Workers -> Seq(Sources)]
    <3>1. \E q \in Seq(Sources) : sources' = [sources EXCEPT ![w] = q]
      BY <1>2, <1>t, <1>c DEF EnsureSource, Constants
    <3> QED
      BY <1>t, <3>1
  <2> QED
    BY <1>0, <1>t, <2>1, <2>2, StageKeeps
<1>3. CASE AcquireNativePermit(w)
  <2>1. /\ Advance(w, "render") /\ wpc[w] = "native" /\ current' = current /\ sources' = sources
        /\ native' = [native EXCEPT ![cmd[w]] = @ + 1]
        /\ UNCHANGED <<lastRun, deaths, shutdown>>
    BY <1>3 DEF AcquireNativePermit
  <2> QED
    BY <1>0, <1>t, <2>1, StageKeeps
<1>4. CASE SetupProfile(w) /\ ~late[cmd[w]]
  <2>1. /\ Advance(w, "source") /\ current' = [current EXCEPT ![w] = SetupOf(cmd[w])]
        /\ sources' = [sources EXCEPT ![w] = <<>>]
        /\ UNCHANGED <<native, lastRun, deaths, shutdown>>
    BY <1>4 DEF SetupProfile, history
  <2>2. /\ current' \in [Workers -> {None} \cup {SetupOf(t) : t \in Tasks}]
        /\ current'[w] = SetupOf(cmd[w])
        /\ \A v \in Workers \ {w} : current'[v] = current[v]
    BY <1>t, <1>c, <2>1
  <2>3. sources' \in [Workers -> Seq(Sources)]
    BY <1>t, <2>1, SMTT(30)
  <2> QED
    BY <1>0, <1>t, <2>1, <2>2, <2>3, StageKeeps
<1> QED
  BY <1>1, <1>2, <1>3, <1>4

\* The next command of a queue.
LEMMA HeadFacts ==
  ASSUME Inv, NEW w \in Workers, queue[w] # <<>>
  PROVE  /\ Head(queue[w]) \in Tasks \cup {Retire} /\ InQueue(w, Head(queue[w]))
         /\ Tail(queue[w]) \in Seq(Tasks \cup {Retire}) /\ Distinct(Tail(queue[w]))
         /\ \A x : In(Tail(queue[w]), x) <=> InQueue(w, x) /\ x # Head(queue[w])
<1>1. queue[w] \in Seq(Tasks \cup {Retire}) /\ Distinct(queue[w])
  BY DEF Inv, TypeOK, CommandOnce
<1> QED
  BY <1>1, TailQueue DEF InQueue

\* The head of a queue is taken.
LEMMA HeadTaken ==
  ASSUME Inv, NEW w \in Workers, queue[w] # <<>>, queue' = [queue EXCEPT ![w] = Tail(@)],
         NEW t, t = Head(queue[w])
  PROVE  /\ queue' \in [Workers -> Seq(Tasks \cup {Retire})]
         /\ \A v \in Workers : Distinct(queue'[v])
         /\ \A v \in Workers : \A x : InQueue(v, x)' <=> InQueue(v, x) /\ ~(v = w /\ x = t)
<1>1. queue \in [Workers -> Seq(Tasks \cup {Retire})] /\ \A v \in Workers : Distinct(queue[v])
  BY DEF Inv, TypeOK, CommandOnce
<1>2. /\ queue' \in [Workers -> Seq(Tasks \cup {Retire})] /\ queue'[w] = Tail(queue[w])
      /\ \A v \in Workers \ {w} : queue'[v] = queue[v]
  BY <1>1, HeadFacts
<1>3. \A v \in Workers : Distinct(queue'[v])
  BY <1>1, <1>2, HeadFacts
<1>4. ASSUME NEW v \in Workers, NEW x
      PROVE  InQueue(v, x)' <=> InQueue(v, x) /\ ~(v = w /\ x = t)
  <2>1. CASE v = w
    BY <1>2, <2>1, HeadFacts DEF InQueue
  <2>2. CASE v # w
    BY <1>2, <2>2 DEF InQueue
  <2> QED
    BY <2>1, <2>2
<1> QED
  BY <1>2, <1>3, <1>4

\* Whether or not the slot was repaired first.
LEMMA RepairTyped ==
  ASSUME TypeOK, NEW w \in Workers,
         IF healthy[w] THEN UNCHANGED <<healthy, available>> ELSE SyncAvailability(w, FALSE)
  PROVE  available' \in [Workers -> BOOLEAN] /\ healthy' \in [Workers -> BOOLEAN]
<1>1. CASE UNCHANGED <<healthy, available>>
  BY <1>1 DEF TypeOK
<1>2. CASE SyncAvailability(w, FALSE)
  BY <1>2, SyncTyped
<1> QED
  BY <1>1, <1>2

\* The worker takes the next command.
LEMMA DequeueKeeps ==
  ASSUME Constants, Inv, NEW w \in Workers, Dequeue(w)
  PROVE  Inv'
<1>1. PICK t \in Tasks : t = Head(queue[w])
  BY HeadFacts DEF Dequeue
<1>2. /\ wpc[w] = "free" /\ queue[w] # <<>> /\ queue' = [queue EXCEPT ![w] = Tail(@)]
      /\ started' = [started EXCEPT ![t] = TRUE]
      /\ wpc' = [wpc EXCEPT ![w] = "permit"] /\ cmd' = [cmd EXCEPT ![w] = t]
      /\ UNCHANGED <<depth, loaded, counts, latest, tpc, slot, hint, late, reply, overdue,
                     current, sources, history>>
  BY <1>1 DEF Dequeue
<1>3. available' \in [Workers -> BOOLEAN] /\ healthy' \in [Workers -> BOOLEAN]
  BY RepairTyped DEF Dequeue, Inv
<1>4. /\ queue' \in [Workers -> Seq(Tasks \cup {Retire})]
      /\ \A v \in Workers : Distinct(queue'[v])
      /\ \A v \in Workers : \A x : InQueue(v, x)' <=> InQueue(v, x) /\ ~(v = w /\ x = t)
  BY <1>1, <1>2, HeadTaken
<1>5. /\ wpc' \in [Workers -> WorkerPhases] /\ wpc'[w] = "permit"
      /\ cmd' \in [Workers -> Tasks \cup {None}] /\ cmd'[w] = t
      /\ \A v \in Workers \ {w} : wpc'[v] = wpc[v] /\ cmd'[v] = cmd[v]
  BY <1>2, SMTT(30) DEF Inv, TypeOK, WorkerPhases
<1>6. TypeOK'
  <2>1. started' \in [Tasks -> BOOLEAN]
    BY <1>2 DEF Inv, TypeOK
  <2> QED
    BY <1>2, <1>3, <1>4, <1>5, <2>1 DEF Inv, TypeOK, history
<1>7. InQueue(w, t) /\ Placed(w, t) /\ cmd[w] = None /\ t # None /\ native[t] = 0
  BY <1>1, <1>2, HeadFacts, ZenonT(30) DEF Inv, CommandPhase, NativeLeft, Placed, Constants
<1>8. \A v \in Workers, x \in Tasks : Placed(v, x)' <=> Placed(v, x)
  BY <1>4, <1>5, <1>7, SMTT(30) DEF Placed, Constants
<1>9. \A v \in Workers, x \in Tasks : Has(v, x)' <=> Has(v, x)
  BY <1>2, <1>8 DEF Has
<1>10. DepthExact' /\ CountsExact'
  BY <1>2, <1>9, DepthSame, ZenonT(30) DEF Inv, CountsExact
<1>11. SlotKnown' /\ CommandPhase' /\ SetupHeld'
  <2>1. wpc'[w] \notin {"free", "retired"} /\ wpc'[w] \notin {"source", "native", "render"}
    BY <1>5, SMTT(30)
  <2>2. CommandPhase'
    BY <1>5, <1>7, <2>1 DEF Inv, CommandPhase
  <2>3. SetupHeld'
    BY <1>2, <1>5, <2>1 DEF Inv, SetupHeld, SetupOf
  <2> QED
    BY <1>2, <2>2, <2>3 DEF Inv, SlotKnown
<1>12. CommandOnce'
  <2>1. ASSUME NEW x \in Tasks, NEW v \in Workers, NEW u \in Workers, Placed(v, x)', Placed(u, x)'
        PROVE  v = u
    BY <1>8, <2>1 DEF Inv, CommandOnce
  <2>2. ASSUME NEW x \in Tasks, NEW v \in Workers, Placed(v, x)'
        PROVE  tpc'[x] \in Sent /\ reply'[x] \in {"none", "timeout"}
    BY <1>2, <1>8, <2>2, ZenonT(30) DEF Inv, CommandOnce
  <2>3. ASSUME NEW x \in Tasks, NEW v \in Workers, InQueue(v, x)'
        PROVE  cmd'[v] # x
    <3>1. InQueue(v, x) /\ ~(v = w /\ x = t)
      BY <1>4, <2>3
    <3>2. CASE v = w
      BY <1>5, <3>1, <3>2
    <3>3. CASE v # w
      <4>1. cmd[v] # x
        BY <3>1 DEF Inv, CommandOnce
      <4> QED
        BY <1>5, <3>3, <4>1
    <3> QED
      BY <3>2, <3>3
  <2>4. \A v \in Workers : Distinct(queue'[v])
    BY <1>2, <1>4, <1>5, <1>7 DEF Inv, CommandOnce
  <2> QED
    BY <1>2, <2>1, <2>2, <2>3, <2>4 DEF Inv, CommandOnce
<1>13. NativeLeft'
  <2>1. ASSUME NEW x \in Tasks, NEW v \in Workers,
               InQueue(v, x)' \/ (cmd'[v] = x /\ wpc'[v] # "render")
        PROVE  native[x] = 0
    <3>1. CASE InQueue(v, x)'
      BY <1>4, <3>1 DEF Inv, NativeLeft
    <3>2. CASE cmd'[v] = x /\ wpc'[v] # "render"
      BY <1>5, <1>7, <3>2 DEF Inv, NativeLeft
    <3> QED
      BY <2>1, <3>1, <3>2
  <2> QED
    BY <1>2, <2>1 DEF Inv, NativeLeft, history
<1>14. Committed'
  <2>1. \A x \in Tasks : Over(x) => Over(x)'
    BY <1>2, <1>8 DEF Over
  <2> QED
    <3> SUFFICES ASSUME NEW v \in Workers, loaded[v] # None
                 PROVE  /\ latest[v] \in Tasks /\ loaded[v] = ProfileOf[latest[v]]
                        /\ \/ tpc[latest[v]] = "marked" /\ slot[latest[v]] = v
                           \/ Placed(v, latest[v])'
                           \/ /\ Over(latest[v])'
                              /\ wpc'[v] = "free" /\ lastRun[v] = latest[v] =>
                                    current[v] = SetupOf(latest[v])
      BY <1>2 DEF Committed, SetupOf, history, Placed, InQueue, Over
    <3>1. PICK x \in Tasks : x = latest[v] /\ loaded[v] = ProfileOf[x]
      BY DEF Inv, Committed
    <3>2. \/ tpc[x] = "marked" /\ slot[x] = v
          \/ Placed(v, x)
          \/ Over(x) /\ (wpc[v] = "free" /\ lastRun[v] = x => current[v] = SetupOf(x))
      BY <3>1 DEF Inv, Committed
    <3>3. wpc'[v] = "free" => wpc[v] = "free"
      BY <1>2, <1>5
    <3>4. \/ tpc[x] = "marked" /\ slot[x] = v
          \/ Placed(v, x)'
          \/ Over(x)' /\ (wpc'[v] = "free" /\ lastRun[v] = x => current[v] = SetupOf(x))
      BY <1>8, <2>1, <3>2, <3>3
    <3>5. (Placed(v, x)' <=> Placed(v, latest[v])') /\ (Over(x)' <=> Over(latest[v])')
      BY <1>2, <3>1 DEF Placed, InQueue, Over
    <3> QED
      BY <3>1, <3>4, <3>5
<1> QED
  BY <1>6, <1>10, <1>11, <1>12, <1>13, <1>14 DEF Inv

\* A hidden slot sends the command back to the pool.
LEMMA RedispatchKeeps ==
  ASSUME Constants, Inv, NEW w \in Workers, Redispatch(w)
  PROVE  Inv'
<1>1. PICK t \in Tasks : t = Head(queue[w])
  BY HeadFacts DEF Redispatch
<1>2. /\ wpc[w] = "free" /\ queue[w] # <<>> /\ queue' = [queue EXCEPT ![w] = Tail(@)]
      /\ started' = [started EXCEPT ![t] = TRUE]
      /\ ClearLoadedIfLatest(w, t) /\ depth' = [depth EXCEPT ![w] = @ - 1]
      /\ Answer(t, "redispatch") /\ lastRun' = [lastRun EXCEPT ![w] = t]
      /\ UNCHANGED <<latest, tpc, slot, hint, late, wpc, cmd, overdue, current,
                     sources, native, deaths, shutdown>>
  BY <1>1 DEF Redispatch, CompletionDrop
<1>3. available' \in [Workers -> BOOLEAN] /\ healthy' \in [Workers -> BOOLEAN]
  BY RepairTyped DEF Redispatch, Inv
<1>4. /\ queue' \in [Workers -> Seq(Tasks \cup {Retire})]
      /\ \A v \in Workers : Distinct(queue'[v])
      /\ \A v \in Workers : \A x : InQueue(v, x)' <=> InQueue(v, x) /\ ~(v = w /\ x = t)
  BY <1>1, <1>2, HeadTaken
<1>5. LoadedTyped' /\ CountsExact' /\ ClearShape(w, t)
  BY <1>2, ClearKeeps
<1>6. InQueue(w, t) /\ Placed(w, t) /\ cmd[w] = None /\ t # None /\ native[t] = 0
  BY <1>1, <1>2, HeadFacts, ZenonT(30) DEF Inv, CommandPhase, NativeLeft, Placed, Constants
<1>7. \A v \in Workers, x \in Tasks : Placed(v, x)' <=> Placed(v, x) /\ ~(v = w /\ x = t)
  <2> SUFFICES ASSUME NEW v \in Workers, NEW x \in Tasks
               PROVE  Placed(v, x)' <=> Placed(v, x) /\ ~(v = w /\ x = t)
    OBVIOUS
  <2>1. cmd'[v] = x <=> cmd[v] = x /\ ~(v = w /\ x = t)
    BY <1>2, <1>6
  <2> QED
    BY <1>4, <2>1 DEF Placed
<1>8. /\ reply' \in [Tasks -> Replies] /\ \A x \in Tasks \ {t} : reply'[x] = reply[x]
      /\ lastRun' \in [Workers -> Tasks \cup {None}] /\ lastRun'[w] = t
      /\ \A v \in Workers \ {w} : lastRun'[v] = lastRun[v]
  BY <1>2, SMTT(30) DEF Inv, TypeOK, Answer, Replies
<1>9. Control'
  <2>1. /\ {t} \in SUBSET Tasks /\ \A x \in {t} : Placed(w, x)
        /\ \A x \in {t} : reply'[x] = "redispatch" => native[x] = 0
        /\ cmd'[w] = None /\ wpc'[w] \in {"free", "retired"}
        /\ UNCHANGED <<latest, tpc, slot, native>>
    BY <1>2, <1>6
  <2>2. \A v \in Workers, x \in Tasks :
            /\ InQueue(v, x)' => InQueue(v, x)
            /\ Placed(v, x)' <=> Placed(v, x) /\ ~(v = w /\ x \in {t})
    BY <1>4, <1>7
  <2>3. \A v \in Workers \ {w} :
            /\ cmd'[v] = cmd[v] /\ wpc'[v] = wpc[v] /\ current'[v] = current[v]
            /\ lastRun'[v] = lastRun[v] /\ loaded'[v] = loaded[v]
    BY <1>2, <1>5, <1>8 DEF ClearShape
  <2>4. /\ loaded'[w] \in {None, loaded[w]} /\ \A x \in Tasks \ {t} : reply'[x] = reply[x]
        /\ latest[w] \in {t} => loaded'[w] = None
        /\ latest[w] \notin {t} => lastRun'[w] # latest[w]
    BY <1>5, <1>8 DEF ClearShape
  <2> QED
    BY <1>4, <2>1, <2>2, <2>3, <2>4, CommandsLeave DEF Inv, Control, Constants
<1>10. Has(w, t) /\ \A v \in Workers, x \in Tasks : Has(v, x)' <=> Has(v, x) /\ ~(v = w /\ x = t)
  <2>1. tpc[t] \notin Holding
    BY <1>6, SMTT(30) DEF Inv, CommandOnce, Sent, Holding
  <2> QED
    BY <1>2, <1>6, <1>7, <2>1 DEF Has
<1>11. DepthExact' /\ depth' \in [Workers -> Nat]
  <2>1. depth \in [Workers -> Nat]
    BY DEF Inv, TypeOK
  <2> QED
    BY <1>2, <1>10, <2>1, DepthDown, ZenonT(30) DEF Constants, Inv
<1>12. TypeOK'
  <2>1. started' \in [Tasks -> BOOLEAN]
    BY <1>2 DEF Inv, TypeOK
  <2> QED
    BY <1>2, <1>3, <1>4, <1>5, <1>8, <1>11, <2>1 DEF Inv, TypeOK, LoadedTyped
<1> QED
  BY <1>5, <1>9, <1>11, <1>12 DEF Inv, Control

\* The end of a command, whatever its outcome.
LEMMA FinishKeeps ==
  ASSUME Constants, Inv, NEW w \in Workers, NEW outcome \in {"completed", "failed", "rejected"},
         NEW profile \in {None} \cup {SetupOf(t) : t \in Tasks}, NEW cached \in Seq(Sources),
         NEW sync, NEW h, FinishCommand(w, outcome, profile, cached, sync, h),
         wpc[w] \notin {"free", "retired"},
         outcome = "completed" => profile = SetupOf(cmd[w])
  PROVE  Inv'
<1>1. PICK t \in Tasks : t = cmd[w] /\ Placed(w, t)
  BY StageCommand
<1>2. /\ current' = [current EXCEPT ![w] = profile] /\ sources' = [sources EXCEPT ![w] = cached]
      /\ CompletionFinish(w, t, outcome)
      /\ UNCHANGED reply \/ \E r \in {"completed", "failed", "rejected", "timeout"} : Answer(t, r)
      /\ wpc' = [wpc EXCEPT ![w] = "free"] /\ cmd' = [cmd EXCEPT ![w] = None]
      /\ overdue' = [overdue EXCEPT ![w] = FALSE] /\ lastRun' = [lastRun EXCEPT ![w] = t]
      /\ UNCHANGED <<latest, queue, tpc, slot, hint, late, started, native, deaths, shutdown>>
  BY <1>1, SMTT(30) DEF FinishCommand
<1>3. available' \in [Workers -> BOOLEAN] /\ healthy' \in [Workers -> BOOLEAN]
  <2>1. SyncAvailability(w, h) \/ UNCHANGED <<healthy, available>>
    BY DEF FinishCommand
  <2> QED
    BY <2>1, SyncTyped DEF Inv, TypeOK
<1>4. /\ LoadedTyped' /\ CountsExact' /\ depth' = [depth EXCEPT ![w] = @ - 1]
      /\ ClearShape(w, t) \/ (outcome = "completed" /\ UNCHANGED loaded)
  <2>1. CASE outcome = "completed"
    <3>1. UNCHANGED <<loaded, counts>> /\ depth' = [depth EXCEPT ![w] = @ - 1]
      BY <1>2, <2>1, SMTT(30) DEF CompletionFinish
    <3> QED
      BY <2>1, <3>1 DEF Inv, TypeOK, LoadedTyped, CountsExact
  <2>2. CASE outcome \in {"failed", "rejected"}
    <3>1. ClearLoadedIfLatest(w, t) /\ depth' = [depth EXCEPT ![w] = @ - 1]
      BY <1>2, <2>2 DEF CompletionFinish
    <3> QED
      BY <1>2, <3>1, ClearKeeps
  <2> QED
    BY <2>1, <2>2
<1>5. /\ reply' \in [Tasks -> Replies] /\ reply'[t] # "redispatch"
      /\ \A x \in Tasks \ {t} : reply'[x] = reply[x]
  <2>1. CASE UNCHANGED reply
    <3>1. reply[t] \in {"none", "timeout"} /\ reply \in [Tasks -> Replies]
      BY <1>1 DEF Inv, TypeOK, CommandOnce
    <3> QED
      BY <2>1, <3>1, SMTT(30)
  <2>2. ASSUME NEW r \in {"completed", "failed", "rejected", "timeout"}, Answer(t, r)
        PROVE  /\ reply' \in [Tasks -> Replies] /\ reply'[t] # "redispatch"
               /\ \A x \in Tasks \ {t} : reply'[x] = reply[x]
    BY <2>2, SMTT(30) DEF Inv, TypeOK, Answer, Replies
  <2> QED
    BY <1>2, <2>1, <2>2
<1>6. /\ wpc' \in [Workers -> WorkerPhases] /\ wpc'[w] = "free"
      /\ cmd' \in [Workers -> Tasks \cup {None}] /\ cmd'[w] = None
      /\ \A v \in Workers \ {w} : wpc'[v] = wpc[v] /\ cmd'[v] = cmd[v]
  BY <1>2, SMTT(30) DEF Inv, TypeOK, WorkerPhases
<1>7. /\ current' \in [Workers -> {None} \cup {SetupOf(x) : x \in Tasks}] /\ current'[w] = profile
      /\ lastRun' \in [Workers -> Tasks \cup {None}] /\ lastRun'[w] = t
      /\ \A v \in Workers \ {w} : current'[v] = current[v] /\ lastRun'[v] = lastRun[v]
  BY <1>2 DEF Inv, TypeOK
<1>8. sources' \in [Workers -> Seq(Sources)] /\ overdue' \in [Workers -> BOOLEAN]
  BY <1>2, ZenonT(30) DEF Inv, TypeOK
<1>9. \A v \in Workers, x \in Tasks :
         /\ InQueue(v, x)' <=> InQueue(v, x)
         /\ Placed(v, x)' <=> Placed(v, x) /\ ~(v = w /\ x = t)
  <2>1. \A v, x : InQueue(v, x)' <=> InQueue(v, x)
    BY <1>2 DEF InQueue
  <2>2. ~InQueue(w, t)
    BY <1>1 DEF Inv, CommandOnce
  <2> QED
    BY <1>1, <1>6, <2>1, <2>2, SMTT(30) DEF Placed, Constants
<1>10. Control'
  <2>1. /\ {t} \in SUBSET Tasks /\ \A x \in {t} : Placed(w, x)
        /\ \A x \in {t} : reply'[x] = "redispatch" => native[x] = 0
        /\ cmd'[w] = None /\ wpc'[w] \in {"free", "retired"}
        /\ UNCHANGED <<latest, tpc, slot, native>>
        /\ \A v \in Workers : Distinct(queue'[v])
    BY <1>1, <1>2, <1>5, <1>6, ZenonT(30) DEF Inv, CommandOnce
  <2>2. \A v \in Workers, x \in Tasks :
            /\ InQueue(v, x)' => InQueue(v, x)
            /\ Placed(v, x)' <=> Placed(v, x) /\ ~(v = w /\ x \in {t})
    BY <1>9
  <2>3. \A v \in Workers \ {w} :
            /\ cmd'[v] = cmd[v] /\ wpc'[v] = wpc[v] /\ current'[v] = current[v]
            /\ lastRun'[v] = lastRun[v] /\ loaded'[v] = loaded[v]
    BY <1>4, <1>6, <1>7 DEF ClearShape
  <2>4. /\ loaded'[w] \in {None, loaded[w]} /\ \A x \in Tasks \ {t} : reply'[x] = reply[x]
        /\ latest[w] \in {t} => \/ loaded'[w] = None
                                \/ /\ reply'[latest[w]] # "redispatch"
                                   /\ current'[w] = SetupOf(latest[w])
        /\ latest[w] \notin {t} => lastRun'[w] # latest[w]
    BY <1>1, <1>4, <1>5, <1>7 DEF ClearShape
  <2> QED
    BY <2>1, <2>2, <2>3, <2>4, CommandsLeave DEF Inv, Control, Constants
<1>11. Has(w, t) /\ \A v \in Workers, x \in Tasks : Has(v, x)' <=> Has(v, x) /\ ~(v = w /\ x = t)
  <2>1. tpc[t] \notin Holding
    BY <1>1, SMTT(30) DEF Inv, CommandOnce, Sent, Holding
  <2> QED
    BY <1>1, <1>2, <1>9, <2>1 DEF Has
<1>12. DepthExact' /\ depth' \in [Workers -> Nat]
  <2>1. depth \in [Workers -> Nat]
    BY DEF Inv, TypeOK
  <2> QED
    BY <1>4, <1>11, <2>1, DepthDown DEF Constants, Inv
<1>13. TypeOK'
  BY <1>2, <1>3, <1>4, <1>5, <1>6, <1>7, <1>8, <1>12 DEF Inv, TypeOK, LoadedTyped
<1> QED
  BY <1>4, <1>10, <1>12, <1>13 DEF Inv, Control

\* Every way a command ends.
LEMMA FinishStepsKeep ==
  ASSUME Constants, Inv, NEW w \in Workers,
         \/ StageDeadline(w) \/ RenderSucceeds(w) \/ HardWedge(w)
         \/ SetupProfile(w) /\ late[cmd[w]]
         \/ \E invalidates \in BOOLEAN : NativeCallFails(w, invalidates)
  PROVE  Inv'
<1>0. wpc[w] \notin {"free", "retired"}
  <2>1. wpc[w] \in {"permit", "setup", "source", "native", "render"}
    BY DEF StageDeadline, RenderSucceeds, HardWedge, SetupProfile, NativeCallFails, InNativeCall
  <2> QED
    BY <2>1, SMTT(30)
<1>t. /\ current[w] \in {None} \cup {SetupOf(t) : t \in Tasks} /\ sources[w] \in Seq(Sources)
      /\ None \in {None} \cup {SetupOf(t) : t \in Tasks}
      /\ wpc[w] = "render" => current[w] = SetupOf(cmd[w])
  BY DEF Inv, TypeOK, SetupHeld
<1>e. <<>> \in Seq(Sources) /\ "failed" # "completed" /\ "rejected" # "completed"
  BY SMTT(30)
<1>c. SetupOf(cmd[w]) \in {None} \cup {SetupOf(t) : t \in Tasks}
  BY <1>0, StageCommand
<1>1. CASE StageDeadline(w)
  BY <1>0, <1>1, <1>t, <1>e, FinishKeeps DEF StageDeadline
<1>2. CASE RenderSucceeds(w)
  BY <1>0, <1>2, <1>t, FinishKeeps DEF RenderSucceeds
<1>3. CASE HardWedge(w)
  BY <1>0, <1>3, <1>t, <1>e, FinishKeeps DEF HardWedge
<1>4. CASE SetupProfile(w) /\ late[cmd[w]]
  BY <1>0, <1>4, <1>c, <1>e, FinishKeeps DEF SetupProfile
<1>5. ASSUME NEW invalidates \in BOOLEAN, NativeCallFails(w, invalidates) PROVE Inv'
  BY <1>0, <1>5, <1>t, <1>e, FinishKeeps DEF NativeCallFails
<1> QED
  BY <1>1, <1>2, <1>3, <1>4, <1>5

\* The response deadline answers the caller and hides the slot.
LEMMA ResponseDeadlineKeeps ==
  ASSUME Constants, Inv, NEW w \in Workers, ResponseDeadline(w)
  PROVE  Inv'
<1>1. wpc[w] \notin {"free", "retired"}
  <2>1. wpc[w] \in {"setup", "render", "source"}
    BY DEF ResponseDeadline, InNativeCall
  <2> QED
    BY <2>1, SMTT(30)
<1>2. PICK t \in Tasks : t = cmd[w] /\ Placed(w, t)
  BY <1>1, StageCommand
<1>3. /\ Answer(t, "timeout") /\ overdue' = [overdue EXCEPT ![w] = TRUE]
      /\ available' = [available EXCEPT ![w] = FALSE]
      /\ UNCHANGED <<depth, loaded, counts, latest, queue, tpc, slot, hint, late, started, wpc,
                     cmd, healthy, current, sources, native, lastRun, deaths, shutdown>>
  BY <1>2 DEF ResponseDeadline, history
<1>4. /\ reply' \in [Tasks -> Replies] /\ reply'[t] \in {"none", "timeout"}
      /\ \A x \in Tasks \ {t} : reply'[x] = reply[x]
  BY <1>3, SMTT(30) DEF Inv, TypeOK, Answer, Replies
<1>5. overdue' \in [Workers -> BOOLEAN] /\ available' \in [Workers -> BOOLEAN]
  BY <1>3 DEF Inv, TypeOK
<1>6. TypeOK'
  BY <1>3, <1>4, <1>5 DEF Inv, TypeOK
<1>7. \A v, x : /\ InQueue(v, x)' <=> InQueue(v, x)
                /\ Placed(v, x)' <=> Placed(v, x)
                /\ Has(v, x)' <=> Has(v, x)
  BY <1>3 DEF InQueue, Placed, Has
<1>8. DepthExact' /\ CountsExact'
  BY <1>3, <1>7, DepthSame DEF Inv, CountsExact
<1>9. tpc[t] \in Sent
  BY <1>2 DEF Inv, CommandOnce
<1>10. Control'
  <2>1. \A v \in Workers : Distinct(queue'[v])
    BY <1>3 DEF Inv, CommandOnce
  <2>2. \A x \in Tasks : \/ reply'[x] = reply[x]
                         \/ tpc[x] \in Sent /\ reply'[x] \in {"none", "timeout"}
    BY <1>4, <1>9
  <2> QED
    BY <1>3, <1>7, <2>1, <2>2, NothingMoves DEF Inv, Control
<1> QED
  BY <1>6, <1>8, <1>10 DEF Inv, Control

\* Retirement is queued behind the commands.
LEMMA SendRetireKeeps ==
  ASSUME Constants, Inv, NEW w \in Workers, SendRetire(w)
  PROVE  Inv'
<1>1. /\ queue' = [queue EXCEPT ![w] = Append(queue[w], Retire)] /\ ~In(queue[w], Retire)
      /\ UNCHANGED <<depth, available, loaded, counts, latest, taskVars, workerVars, history>>
  BY DEF SendRetire, In
<1>2. queue[w] \in Seq(Tasks \cup {Retire}) /\ Retire \in Tasks \cup {Retire} /\ Distinct(queue[w])
  BY DEF Inv, TypeOK, CommandOnce
<1>3. /\ Append(queue[w], Retire) \in Seq(Tasks \cup {Retire}) /\ Distinct(Append(queue[w], Retire))
      /\ \A x : In(Append(queue[w], Retire), x) <=> In(queue[w], x) \/ x = Retire
  BY <1>1, <1>2, AppendQueue
<1>4. /\ queue' \in [Workers -> Seq(Tasks \cup {Retire})] /\ queue'[w] = Append(queue[w], Retire)
      /\ \A v \in Workers \ {w} : queue'[v] = queue[v]
  BY <1>1, <1>3 DEF Inv, TypeOK
<1>5. UNCHANGED <<tpc, slot, reply, wpc, cmd, current, native, lastRun>>
  BY <1>1 DEF taskVars, workerVars, history
<1>6. TypeOK'
  BY <1>1, <1>4 DEF Inv, TypeOK, taskVars, workerVars, history
<1>7. ASSUME NEW v \in Workers, NEW x \in Tasks
      PROVE  /\ InQueue(v, x)' <=> InQueue(v, x)
             /\ Placed(v, x)' <=> Placed(v, x)
             /\ Has(v, x)' <=> Has(v, x)
  <2>1. CASE v = w
    BY <1>3, <1>4, <1>5, <2>1 DEF InQueue, Placed, Has, Constants
  <2>2. CASE v # w
    BY <1>4, <1>5, <2>2 DEF InQueue, Placed, Has
  <2> QED
    BY <2>1, <2>2
<1>8. DepthExact' /\ CountsExact'
  BY <1>1, <1>7, DepthSame DEF Inv, CountsExact
<1>9. Control'
  <2>1. \A v \in Workers : Distinct(queue'[v])
    BY <1>3, <1>4 DEF Inv, CommandOnce
  <2>2. UNCHANGED <<loaded, latest>>
    BY <1>1
  <2> QED
    BY <1>5, <1>7, <2>1, <2>2, NothingMoves DEF Inv, Control
<1> QED
  BY <1>6, <1>8, <1>9 DEF Inv, Control

\* The commands behind Retire are those the queue holds.
LEMMA DroppedFacts ==
  ASSUME Constants, Inv, NEW w \in Workers, queue[w] # <<>>, Head(queue[w]) = Retire
  PROVE  Dropped(w) \in SUBSET Tasks /\ \A x \in Tasks : InQueue(w, x) <=> x \in Dropped(w)
<1>1. queue[w] \in Seq(Tasks \cup {Retire}) /\ Distinct(queue[w])
  BY DEF Inv, TypeOK, CommandOnce
<1>2. /\ Len(queue[w]) \in Nat /\ Len(queue[w]) > 0 /\ DOMAIN queue[w] = 1..Len(queue[w])
      /\ queue[w][1] = Retire /\ \A i \in 1..Len(queue[w]) : queue[w][i] \in Tasks \cup {Retire}
  BY <1>1, SMTT(30)
<1>3. \A i \in 2..Len(queue[w]) : i \in DOMAIN queue[w] /\ i # 1 /\ 1 \in DOMAIN queue[w]
  BY <1>2, SMTT(30)
<1>4. \A i \in DOMAIN queue[w] : i = 1 \/ i \in 2..Len(queue[w])
  BY <1>2, SMTT(30)
<1>5. Dropped(w) \in SUBSET Tasks
  <2>1. \A i \in 2..Len(queue[w]) : queue[w][i] # Retire
    BY <1>1, <1>2, <1>3 DEF Distinct
  <2>2. \A i \in 2..Len(queue[w]) : queue[w][i] \in Tasks
    BY <1>2, <1>3, <2>1
  <2> QED
    BY <2>2 DEF Dropped
<1>6. \A x \in Tasks : InQueue(w, x) <=> x \in Dropped(w)
  BY <1>2, <1>3, <1>4 DEF Dropped, InQueue, In, Constants
<1> QED
  BY <1>5, <1>6

\* A retiring worker drops the commands behind the Retire.
LEMMA WorkerRetiresKeeps ==
  ASSUME Constants, Inv, NEW w \in Workers, WorkerRetires(w)
  PROVE  Inv'
<1>1. /\ wpc[w] = "free" /\ queue[w] # <<>> /\ Head(queue[w]) = Retire
      /\ cmd[w] = None
  BY DEF WorkerRetires, Inv, CommandPhase
<1>2. PICK D \in SUBSET Tasks : D = Dropped(w) /\ \A x \in Tasks : InQueue(w, x) <=> x \in D
  BY <1>1, DroppedFacts
<1>3. /\ queue' = [queue EXCEPT ![w] = <<>>] /\ depth' = [depth EXCEPT ![w] = @ - Cardinality(D)]
      /\ reply' = [t \in Tasks |-> IF t \in D /\ tpc[t] # "done" THEN "disconnected" ELSE reply[t]]
      /\ wpc' = [wpc EXCEPT ![w] = "retired"]
      /\ UNCHANGED <<available, latest, tpc, slot, hint, late, started, cmd, overdue, healthy,
                     current, sources, native, lastRun, deaths, shutdown>>
  BY <1>2 DEF WorkerRetires, history
<1>4. /\ LoadedTyped' /\ CountsExact' /\ \A v \in Workers \ {w} : loaded'[v] = loaded[v]
      /\ loaded'[w] \in {None, loaded[w]} /\ (latest[w] \in D => loaded'[w] = None)
  <2>1. LoadedTyped
    BY DEF Inv, TypeOK, LoadedTyped
  <2>2. CASE latest[w] \in D /\ loaded[w] # None
    <3>1. loaded' = [loaded EXCEPT ![w] = None] /\ counts' = CountOf(counts, loaded[w], 0 - 1)
      BY <1>2, <2>2 DEF WorkerRetires
    <3>2. LoadedTyped' /\ CountsExact'
      BY <2>1, <2>2, <3>1, ClearCounts DEF Constants, Inv
    <3> QED
      BY <2>1, <3>1, <3>2, SMTT(30) DEF LoadedTyped
  <2>3. CASE ~(latest[w] \in D /\ loaded[w] # None)
    <3>1. UNCHANGED <<loaded, counts>>
      BY <1>2, <2>3 DEF WorkerRetires
    <3> QED
      BY <2>1, <2>3, <3>1, SMTT(30) DEF LoadedTyped, Inv, CountsExact
  <2> QED
    BY <2>2, <2>3
<1>5. /\ queue' \in [Workers -> Seq(Tasks \cup {Retire})] /\ queue'[w] = <<>>
      /\ \A v \in Workers \ {w} : queue'[v] = queue[v]
  BY <1>3, SMTT(30) DEF Inv, TypeOK
<1>6. /\ reply' \in [Tasks -> Replies] /\ \A x \in Tasks \ D : reply'[x] = reply[x]
      /\ \A x \in D : reply'[x] = "redispatch" => reply[x] = "redispatch"
  BY <1>3, SMTT(30) DEF Inv, TypeOK, Replies
<1>7. /\ wpc' \in [Workers -> WorkerPhases] /\ wpc'[w] = "retired"
      /\ \A v \in Workers \ {w} : wpc'[v] = wpc[v]
  BY <1>3, SMTT(30) DEF Inv, TypeOK, WorkerPhases
<1>8. ASSUME NEW v \in Workers, NEW x \in Tasks
      PROVE  /\ InQueue(v, x)' <=> InQueue(v, x) /\ ~(v = w /\ x \in D)
             /\ Placed(v, x)' <=> Placed(v, x) /\ ~(v = w /\ x \in D)
  <2>1. CASE v = w
    <3>1. ~In(<<>>, x)
      BY SMTT(30) DEF In
    <3> QED
      BY <1>1, <1>2, <1>3, <1>5, <2>1, <3>1 DEF InQueue, Placed, Constants
  <2>2. CASE v # w
    BY <1>3, <1>5, <2>2 DEF InQueue, Placed
  <2> QED
    BY <2>1, <2>2
<1>9. \A x \in D : Placed(w, x) /\ native[x] = 0 /\ tpc[x] \notin Holding
  <2>1. \A x \in D : Placed(w, x) /\ native[x] = 0
    BY <1>2 DEF Placed, Inv, NativeLeft
  <2>2. \A x \in D : tpc[x] \in Sent
    BY <1>2, <2>1 DEF Inv, CommandOnce
  <2> QED
    BY <2>1, <2>2, SMTT(30) DEF Sent, Holding
<1>10. Control'
  <2>1. /\ UNCHANGED <<latest, tpc, slot, native>> /\ cmd'[w] = None
        /\ wpc'[w] \in {"free", "retired"} /\ wpc'[w] # "free"
    BY <1>1, <1>3, <1>7, SMTT(30)
  <2>2. \A v \in Workers : Distinct(queue'[v])
    <3>1. Distinct(<<>>)
      BY SMTT(30) DEF Distinct
    <3> QED
      BY <1>5, <3>1 DEF Inv, CommandOnce
  <2>3. \A v \in Workers \ {w} :
            /\ cmd'[v] = cmd[v] /\ wpc'[v] = wpc[v] /\ current'[v] = current[v]
            /\ lastRun'[v] = lastRun[v] /\ loaded'[v] = loaded[v]
    BY <1>3, <1>4, <1>7
  <2>4. TypeOK /\ Control
    BY DEF Inv, Control
  <2>5. None \notin Tasks /\ D \in SUBSET Tasks /\ \A x \in D : Placed(w, x)
    BY <1>2, <1>9 DEF Constants
  <2>6. \A v \in Workers, x \in Tasks :
            /\ InQueue(v, x)' => InQueue(v, x)
            /\ Placed(v, x)' <=> Placed(v, x) /\ ~(v = w /\ x \in D)
    BY <1>8
  <2>7. /\ \A x \in Tasks \ D : reply'[x] = reply[x]
        /\ \A x \in D : reply'[x] = "redispatch" => native[x] = 0
        /\ loaded'[w] \in {None, loaded[w]} /\ (latest[w] \in D => loaded'[w] = None)
    BY <1>4, <1>6, <1>9
  <2> QED
    BY <2>1, <2>2, <2>3, <2>4, <2>5, <2>6, <2>7, CommandsLeave, ZenonT(30)
<1>11. DepthExact' /\ depth' \in [Workers -> Nat]
  <2>1. depth \in [Workers -> Nat]
    BY DEF Inv, TypeOK
  <2>2. \A x \in D : Has(w, x)
    BY <1>9 DEF Has
  <2>3. \A v \in Workers, x \in Tasks : Has(v, x)' <=> Has(v, x) /\ ~(v = w /\ x \in D)
    BY <1>3, <1>8, <1>9 DEF Has
  <2> QED
    BY <1>3, <2>1, <2>2, <2>3, DepthDrop DEF Constants, Inv
<1>12. TypeOK'
  BY <1>3, <1>4, <1>5, <1>6, <1>7, <1>11 DEF Inv, TypeOK, LoadedTyped
<1> QED
  BY <1>4, <1>10, <1>11, <1>12 DEF Inv, Control
-----------------------------------------------------------------------------
(* Initial states and the next-state relation.                             *)

\* The invariant holds initially.
LEMMA InitInv ==
  ASSUME Constants, Init
  PROVE  Inv
<1>1. PICK s \in Scenarios : InitWith(s)
  BY DEF Init
<1>2. /\ tpc = [t \in Tasks |-> "select"] /\ reply = [t \in Tasks |-> "none"]
      /\ queue = [w \in Workers |-> <<>>] /\ cmd = [w \in Workers |-> None]
      /\ loaded = [w \in Workers |-> None] /\ native = [t \in Tasks |-> 0]
      /\ wpc = [w \in Workers |-> IF w \in s.slots THEN "free" ELSE "retired"]
      /\ depth = [w \in Workers |-> 0] /\ counts = [p \in Profiles |-> 0]
  BY <1>1 DEF InitWith
<1>3. /\ \A t \in Tasks : tpc[t] = "select" /\ reply[t] = "none" /\ native[t] = 0
      /\ \A w \in Workers : queue[w] = <<>> /\ cmd[w] = None /\ loaded[w] = None /\ depth[w] = 0
      /\ \A w \in Workers : wpc[w] \in {"free", "retired"}
      /\ \A p \in Profiles : counts[p] = 0
  BY <1>2, SMTT(30)
<1>4. /\ \A x : ~In(<<>>, x)
      /\ Distinct(<<>>)
  BY SMTT(30) DEF In, Distinct
<1>5. \A w \in Workers, t \in Tasks : ~InQueue(w, t) /\ ~Placed(w, t) /\ ~Has(w, t)
  BY <1>3, <1>4, SMTT(30) DEF InQueue, Placed, Has, Holding, Constants
<1>6. TypeOK
  <2>1. /\ tpc \in [Tasks -> TaskPhases] /\ reply \in [Tasks -> Replies]
        /\ queue \in [Workers -> Seq(Tasks \cup {Retire})]
        /\ wpc \in [Workers -> WorkerPhases] /\ native \in [Tasks -> Nat]
        /\ depth \in [Workers -> Nat] /\ counts \in [Profiles -> Nat]
    BY <1>2, SMTT(30) DEF TaskPhases, Replies, WorkerPhases
  <2>2. sources \in [Workers -> Seq(Sources)]
    BY <1>1, SMTT(30) DEF InitWith
  <2>3. s.slots \in SUBSET Workers /\ s.shutdown \in BOOLEAN /\ s.deaths \in Nat
    <3>1. s \in [slots : SUBSET Workers, shutdown : BOOLEAN, deaths : Nat]
      BY <1>1 DEF Constants
    <3> QED
      BY <3>1, SMTT(30)
  <2>6. deaths \in Nat
    <3>1. {w \in s.slots : ~healthy[w]} \subseteq Workers
      BY <2>3
    <3>2. Cardinality({w \in s.slots : ~healthy[w]}) \in Nat
      BY <3>1 DEF Constants, CountFacts
    <3>3. /\ deaths = s.deaths - Cardinality({w \in s.slots : ~healthy[w]})
          /\ deaths >= 0
      BY <1>1 DEF InitWith
    <3> QED
      BY <2>3, <3>2, <3>3, SMTT(30)
  <2>7. shutdown \in BOOLEAN /\ hint \in [Tasks -> Workers \cup {None}]
    BY <1>1, <2>3 DEF InitWith, Constants
  <2>4. /\ cmd \in [Workers -> Tasks \cup {None}] /\ loaded \in [Workers -> Profiles \cup {None}]
        /\ slot \in [Tasks -> Workers \cup {None}] /\ latest \in [Workers -> Tasks \cup {None}]
        /\ current \in [Workers -> {None} \cup {SetupOf(t) : t \in Tasks}]
        /\ lastRun \in [Workers -> Tasks \cup {None}]
    BY <1>1 DEF InitWith
  <2>5. /\ available \in [Workers -> BOOLEAN] /\ healthy \in [Workers -> BOOLEAN]
        /\ late \in [Tasks -> BOOLEAN] /\ started \in [Tasks -> BOOLEAN]
        /\ overdue \in [Workers -> BOOLEAN]
    BY <1>1 DEF InitWith
  <2> QED
    BY <2>1, <2>2, <2>4, <2>5, <2>6, <2>7 DEF TypeOK
<1>7. DepthExact
  <2>1. \A w \in Workers : Outstanding(w) = {}
    BY <1>5, OutstandingHas
  <2> QED
    BY <1>3, <2>1 DEF DepthExact, Constants, CountFacts
<1>8. CountsExact
  <2>1. \A p \in Profiles : {w \in Workers : loaded[w] = p} = {}
    BY <1>3 DEF Constants
  <2> QED
    BY <1>3, <2>1 DEF CountsExact, Constants, CountFacts
<1>9. SlotKnown /\ SetupHeld
  BY <1>3, SMTT(30) DEF SlotKnown, SetupHeld, Holding
<1>10. CommandOnce /\ CommandPhase
  BY <1>3, <1>4, <1>5 DEF CommandOnce, CommandPhase
<1>11. NativeLeft /\ Committed
  BY <1>3, <1>5 DEF NativeLeft, Committed
<1> QED
  BY <1>6, <1>7, <1>8, <1>9, <1>10, <1>11 DEF Inv

\* Every step of a caller keeps the invariant.
LEMMA CallerStepsKeep ==
  ASSUME Constants, Inv, NEW t \in Tasks, CallerStep(t) \/ Disconnect(t) \/ PassDeadline(t)
  PROVE  Inv'
<1>1. CASE SelectWorker(t)
  BY <1>1, SelectWorkerKeeps
<1>2. CASE TryReserve(t)
  BY <1>2, TryReserveKeeps
<1>3. CASE ConfirmReservation(t)
  BY <1>3, ConfirmReservationKeeps
<1>4. CASE CommitProfile(t)
  BY <1>4, CommitProfileKeeps
<1>5. CASE Send(t)
  BY <1>5, SendDropped, SendAccepted
<1>6. CASE SeeStarted(t)
  BY <1>6, SeeStartedKeeps
<1>7. CASE ReceiveReply(t)
  BY <1>7, ReceiveReplyKeeps
<1>8. CASE QueueTimeout(t) \/ Disconnect(t)
  BY <1>8, GivesUpKeeps
<1>9. CASE PassDeadline(t)
  BY <1>9, FlagStepsKeep
<1> QED
  BY <1>1, <1>2, <1>3, <1>4, <1>5, <1>6, <1>7, <1>8, <1>9 DEF CallerStep

\* Every step of a slot keeps the invariant.
LEMMA WorkerStepsKeep ==
  ASSUME Constants, Inv, NEW w \in Workers,
         WorkerStep(w) \/ NativeStep(w) \/ RepairTick(w) \/ SendRetire(w)
  PROVE  Inv'
<1>1. CASE Redispatch(w)
  BY <1>1, RedispatchKeeps
<1>2. CASE Dequeue(w)
  BY <1>2, DequeueKeeps
<1>3. CASE AcquireRenderPermit(w) \/ EnsureSource(w) \/ AcquireNativePermit(w)
  BY <1>3, StageStepsKeep
<1>4. CASE ResponseDeadline(w)
  BY <1>4, ResponseDeadlineKeeps
<1>5. CASE WorkerRetires(w)
  BY <1>5, WorkerRetiresKeeps
<1>6. CASE SetupProfile(w)
  BY <1>6, StageStepsKeep, FinishStepsKeep
<1>7. CASE \/ StageDeadline(w) \/ RenderSucceeds(w) \/ HardWedge(w)
           \/ \E invalidates \in BOOLEAN : NativeCallFails(w, invalidates)
  BY <1>7, FinishStepsKeep
<1>8. CASE RepairTick(w) \/ RendererDies(w)
  BY <1>8, FlagStepsKeep
<1>9. CASE SendRetire(w)
  BY <1>9, SendRetireKeeps
<1> QED
  BY <1>1, <1>2, <1>3, <1>4, <1>5, <1>6, <1>7, <1>8, <1>9 DEF WorkerStep, NativeStep

\* Every step of the pool keeps the invariant, and so does a step of anything else.
LEMMA NextInv ==
  ASSUME Constants, Inv, [Next]_vars
  PROVE  Inv'
<1>1. CASE Next
  BY <1>1, CallerStepsKeep, WorkerStepsKeep DEF Next
<1>2. CASE UNCHANGED vars
  <2>1. UNCHANGED <<depth, available, loaded, counts, latest, queue, tpc, slot, hint, late, reply,
                    started, wpc, cmd, overdue, healthy, current, sources, native, lastRun,
                    deaths, shutdown>>
    BY <1>2 DEF vars, poolVars, taskVars, workerVars, history
  <2>2. /\ late' \in [Tasks -> BOOLEAN] /\ available' \in [Workers -> BOOLEAN]
        /\ healthy' \in [Workers -> BOOLEAN] /\ deaths' \in Nat
    BY <2>1 DEF Inv, TypeOK
  <2> QED
    BY <2>1, <2>2, FlagsKeep
<1> QED
  BY <1>1, <1>2
-----------------------------------------------------------------------------
(* The library facts, and the theorems.                                    *)

INSTANCE FiniteSetTheorems
INSTANCE SequenceTheorems

\* Counting in finite sets, from the library.
LEMMA CountFactsHold == CountFacts
<1>1. \A S : IsFiniteSet(S) => Cardinality(S) \in Nat
  BY FS_CardinalityType
<1>2. Cardinality({}) = 0 /\ \A x : Cardinality({x}) = 1
  BY FS_EmptySet, FS_Singleton
<1>3. \A S, x : IsFiniteSet(S) /\ x \notin S => Cardinality(S \cup {x}) = Cardinality(S) + 1
  BY FS_AddElement, SMTT(30)
<1>4. \A S, T : IsFiniteSet(S) /\ T \subseteq S => IsFiniteSet(T)
  BY FS_Subset
<1>5. ASSUME NEW S, NEW T, IsFiniteSet(S), T \subseteq S
      PROVE  Cardinality(S \ T) = Cardinality(S) - Cardinality(T)
  <2>1. S \cap T = T
    BY <1>5
  <2> QED
    BY <1>5, <2>1, FS_Difference
<1> QED
  BY <1>1, <1>2, <1>3, <1>4, <1>5 DEF CountFacts

\* SourceCache::touch keeps a list of sources.
LEMMA TouchTyped ==
  ASSUME SourceCacheCapacity \in Nat \ {0}, NEW q \in Seq(Sources), NEW s \in Sources
  PROVE  Touch(q, s) \in Seq(Sources)
<1>1. Without(q, s) \in Seq(Sources)
  <2>1. CASE \E i \in DOMAIN q : q[i] = s
    <3> DEFINE pos == CHOOSE i \in DOMAIN q : q[i] = s
    <3>1. Without(q, s) = SubSeq(q, 1, pos - 1) \o SubSeq(q, pos + 1, Len(q))
      BY <2>1 DEF Without
    <3>2. pos \in DOMAIN q
      BY <2>1
    <3> HIDE DEF pos
    <3>3. pos \in 1..Len(q) /\ Len(q) \in Nat /\ \A i \in 1..Len(q) : q[i] \in Sources
      BY <3>2, LenProperties, SMTT(30)
    <3>4. SubSeq(q, 1, pos - 1) \in Seq(Sources)
      <4>1. 1 \in Int /\ pos - 1 \in Int /\ \A i \in 1..(pos - 1) : q[i] \in Sources
        BY <3>3, SMTT(30)
      <4> QED
        BY <4>1, SubSeqProperties
    <3>5. SubSeq(q, pos + 1, Len(q)) \in Seq(Sources)
      <4>1. Len(q) \in Int /\ pos + 1 \in Int /\ \A i \in (pos + 1)..Len(q) : q[i] \in Sources
        BY <3>3, SMTT(30)
      <4> QED
        BY <4>1, SubSeqProperties
    <3> QED
      BY <3>1, <3>4, <3>5, ConcatProperties
  <2>2. CASE ~\E i \in DOMAIN q : q[i] = s
    BY <2>2 DEF Without
  <2> QED
    BY <2>1, <2>2
<1>2. PICK m \in Seq(Sources) : m = Append(Without(q, s), s)
  BY <1>1, AppendProperties
<1>3. Len(m) \in Nat /\ \A i \in 1..Len(m) : m[i] \in Sources
  BY LenProperties, SMTT(30)
<1>4. CASE Len(m) > SourceCacheCapacity
  <2>0. Len(m) - SourceCacheCapacity + 1 \in Int /\ Len(m) - SourceCacheCapacity + 1 >= 1
    BY <1>3, <1>4, SMTT(30)
  <2>1. PICK k \in Int : k = Len(m) - SourceCacheCapacity + 1 /\ k >= 1
    BY <2>0
  <2>2. Len(m) \in Int /\ \A i \in k..Len(m) : m[i] \in Sources
    BY <1>3, <2>1, SMTT(30)
  <2>3. SubSeq(m, k, Len(m)) \in Seq(Sources)
    BY <2>2, SubSeqProperties
  <2> QED
    BY <1>2, <1>4, <2>1, <2>3 DEF Touch
<1>5. CASE ~(Len(m) > SourceCacheCapacity)
  BY <1>2, <1>5 DEF Touch
<1> QED
  BY <1>4, <1>5

\* What the lemmas assume of the constants follows from the module's assumption.
LEMMA ConstantsHold == Constants
<1>1. \A q \in Seq(Sources), s \in Sources : Touch(q, s) \in Seq(Sources)
  BY TouchTyped, WorkerPoolAssumption DEF WorkerPoolAssumption
<1> QED
  BY <1>1, CountFactsHold, WorkerPoolAssumption DEF WorkerPoolAssumption, Constants, Retire, SetupOf

\* The inductive invariant holds in every reachable state.
THEOREM Invariance == Spec => []Inv
<1>1. Init => Inv
  BY ConstantsHold, InitInv
<1>2. Inv /\ [Next]_vars => Inv'
  BY ConstantsHold, NextInv
<1> QED
  BY <1>1, <1>2, PTL DEF Spec

\* "Keeping the reservation with the command makes queue depth, drain, and hard
\* admission limits describe the work that actually remains" (worker.rs): the
\* depth counter of a slot is the number of its outstanding commands.
THEOREM DepthsAreExact == Spec => []AccountingExact
<1>1. Inv => AccountingExact
  BY DEF Inv, AccountingExact
<1> QED
  BY <1>1, Invariance, PTL

\* A profile's count in PoolState.profile_counts is the number of slots committed
\* to the profile, whatever commitments are replaced, cleared or left behind.
THEOREM ProfileCountsAreExact == Spec => []CountsExact
<1>1. Inv => CountsExact
  BY ZenonT(30) DEF Inv
<1> QED
  BY <1>1, Invariance, PTL

\* "the pool may safely select another worker without duplicating native work"
\* (worker.rs): however often a command is sent again, at most one native render
\* is ever started for its task.
THEOREM RendersAtMostOnce == Spec => []NativeOnce
<1>1. Inv => NativeOnce
  BY SMTT(30) DEF Inv, NativeLeft, NativeOnce
<1> QED
  BY <1>1, Invariance, PTL

\* A native render runs only on the setup of its own profile and credential, and a
\* drained slot is not advertised for a profile its renderer does not hold.
THEOREM SetupsStaySound == Spec => []SetupsSound
<1>1. Inv => OwnSetup
  <2> SUFFICES ASSUME Inv, NEW w \in Workers, wpc[w] = "render"
               PROVE  current[w] = SetupOf(cmd[w])
    BY DEF OwnSetup
  <2> QED
    BY DEF Inv, SetupHeld
<1>2. Inv => WarmthSound
  <2> SUFFICES ASSUME Inv, NEW w \in Workers, wpc[w] = "free", Outstanding(w) = {},
                      lastRun[w] = latest[w], loaded[w] # None
               PROVE  current[w] # None /\ loaded[w] = current[w][1]
    BY DEF WarmthSound
  <2>1. PICK t \in Tasks : t = latest[w] /\ loaded[w] = ProfileOf[t]
    BY DEF Inv, Committed
  <2>2. ~Has(w, t)
    BY OutstandingHas
  <2>3. ~(tpc[t] = "marked" /\ slot[t] = w) /\ ~Placed(w, t)
    BY <2>2 DEF Has, Holding
  <2>4. current[w] = SetupOf(t)
    BY <2>1, <2>3, ZenonT(30) DEF Inv, Committed
  <2>5. SetupOf(t)[1] = ProfileOf[t]
    BY SMTT(30) DEF SetupOf
  <2> QED
    BY <2>1, <2>4, <2>5, ConstantsHold, ZenonT(30) DEF Constants
<1> QED
  BY <1>1, <1>2, Invariance, PTL DEF SetupsSound
=============================================================================
