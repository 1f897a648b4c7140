---- MODULE NativeBackend ----
(***************************************************************************)
(* What one renderer actor's thread does with its native map: run_actor    *)
(* (renderer/actor/protocol.rs), the MapLibre backend (actor/backend.rs),  *)
(* the request-local layer (actor/addlayer.rs) and the overlay slot pool   *)
(* (renderer/overlay/slots.rs, pin.rs).  The map outlives a request, so    *)
(* what a request leaves behind, a failed one included, is what the next   *)
(* one draws with.                                                         *)
(*                                                                         *)
(* A layer of the native style is a triple: <<"base", i, 0>> of the style  *)
(* document, <<"slot", i, p>> layer p of overlay slot i, <<"add", 0, 0>>   *)
(* the request-local layer.  The last layer of the sequence is on top.     *)
(***************************************************************************)
EXTENDS Integers, FiniteSets, Sequences, SequencesExt

CONSTANTS
  Requests,   \* see Request below
  MaxSlots,   \* MAX_STATIC_OVERLAYS
  Parts,      \* layers of one slot (fill, line, circle, symbol in the code)
  Capacity    \* ADDLAYER_SOURCE_CACHE_CAPACITY

(***************************************************************************)
(* A request has: id; prof, its style revision and credential partition;   *)
(* key, the renderer mode and pixel ratio; slots, the overlay slots it     *)
(* needs; pins, whether an overlay is a pin; before, the base layer its    *)
(* band goes below (0: on top); add, its request-local layer: NoAdd,       *)
(* BaseSource when it reads a source of the style, or the source it        *)
(* brings: a pair of its stable id and its content (the id is a hash, so   *)
(* two may share one).                                                     *)
(***************************************************************************)
VARIABLES
  loaded,   \* run_actor's profile, or None
  style,    \* MapLibreNativeBackend.loaded_style, or None
  active,   \* MapLibreNativeBackend.active_renderer, or NoRenderer
  drawn     \* ghost: what the last command drew

vars == <<loaded, style, active, drawn>>

None == 0
Empty == 0
NoAdd == <<0, 0>>
BaseSource == <<0, 1>>
Base(i) == <<"base", i, 0>>
BaseLayers == <<Base(1), Base(2)>>
AddLayer == <<"add", 0, 0>>
IsStatic(key) == key[1] = "static"

NoPool == [allocated |-> 0, before |-> 0, reset |-> FALSE, rebuild |-> FALSE, data |-> FALSE]
\* "unpinned" is a ghost: the overlay source was filled and the registration of
\* the pins failed, and it has neither been filled completely nor emptied since.
NoRenderer == [key |-> <<"none", 0>>, prof |-> None, layers |-> <<>>, data |-> Empty,
               unpinned |-> FALSE, pool |-> NoPool, lru |-> <<>>, sources |-> {}]
NoRequest == [id |-> 0, prof |-> None, key |-> <<"none", 0>>, slots |-> 0, pins |-> FALSE,
              before |-> 0, add |-> NoAdd]
NothingDrawn == [req |-> NoRequest, r |-> NoRenderer, kept |-> 0]

(***************************************************************************)
(* Native calls on the style, modelled from how the code uses them.        *)
(***************************************************************************)
\* add_layer_before puts the layer on top when "before" is not in the style.
PutLayer(layers, l, before) ==
  IF before # 0 /\ Contains(layers, Base(before))
  THEN InsertAt(layers, SelectInSeq(layers, LAMBDA x : x = Base(before)), l)
  ELSE Append(layers, l)

PutLayers(layers, ls, before) ==
  FoldLeft(LAMBDA acc, l : PutLayer(acc, l, before), layers, ls)

Without(layers, S) == SelectSeq(layers, LAMBDA x : x \notin S)

(***************************************************************************)
(* The overlay slot pool.  Each operator returns the outcomes a step can   *)
(* have, as pairs of a result and the renderer it leaves.                  *)
(***************************************************************************)
Outcome(res, r) == [res |-> res, r |-> r]

SlotLayers(i) == [p \in 1 .. Parts |-> <<"slot", i, p>>]
PoolLayers(r) == FlattenSeq([i \in 1 .. r.pool.allocated |-> SlotLayers(i)])

\* populate_static_slots on a style that was just loaded.
Populated(key, prof) ==
  [NoRenderer EXCEPT !.key = key, !.prof = prof, !.layers = BaseLayers]

\* install_slot_layers for slots up to "grown", and rollback_slot_layers of the
\* next one when "partial" of its layers were added before one failed.
Grow(r, grown, partial) ==
  LET installed == PutLayers(r.layers,
                     FlattenSeq([i \in 1 .. grown - r.pool.allocated |->
                                   SlotLayers(r.pool.allocated + i)]), r.pool.before)
      half == PutLayers(installed, SubSeq(SlotLayers(grown + 1), 1, partial), r.pool.before)
  IN [r EXCEPT !.layers = Without(half, Range(SlotLayers(grown + 1))),
               !.pool.allocated = grown]

EnsureCapacity(r, needed) ==
  LET target == IF needed < MaxSlots THEN needed ELSE MaxSlots
  IN IF r.pool.allocated >= target THEN {Outcome("ok", r)}
     ELSE {Outcome("ok", Grow(r, target, 0))}
          \cup {Outcome("failed", Grow(r, grown, partial)) :
                  grown \in r.pool.allocated .. target - 1, partial \in 0 .. Parts - 1}

\* recover_failed_move_all: the consumed layer is rebuilt and the remaining ones
\* are put on top; the ones in "lost" could not be.
RecoverFailedMove(r, layers, rest, lost) ==
  [r EXCEPT !.layers = layers \o SelectSeq(rest, LAMBDA l : l \notin lost),
            !.pool.before = 0, !.pool.reset = TRUE,
            !.pool.rebuild = @ \/ lost # {}]

MoveAllLayers(r, before) ==
  LET taken == SelectSeq(PoolLayers(r), LAMBDA l : Contains(r.layers, l))
      rest == Without(r.layers, Range(taken))
      reinserted(n) == PutLayers(rest, SubSeq(taken, 1, n), before)
      after(n) == SubSeq(taken, n + 1, Len(taken))
  IN {Outcome("ok", [r EXCEPT !.layers = reinserted(Len(taken)), !.pool.before = before,
                              !.pool.reset = FALSE])}
     \cup UNION {{Outcome("failed", RecoverFailedMove(r, reinserted(n), after(n), lost)) :
                    lost \in SUBSET Range(after(n))} : n \in 0 .. Len(taken) - 1}

\* register_pin_images: a pin image is drawn and added, or refused.
RegisterPinImages(q) == {"ok"} \cup IF q.pins THEN {"failed"} ELSE {}

\* The source gets its new data, then the pins are registered, and only then
\* does the pool record that the source has data.
SetOverlays(r, q) ==
  {Outcome(res, [r EXCEPT !.data = q.id, !.unpinned = res # "ok",
                          !.pool.data = @ \/ res = "ok"]) : res \in RegisterPinImages(q)}


ClearOverlays(r) ==
  {Outcome("ok", IF r.pool.data
                 THEN [r EXCEPT !.data = Empty, !.unpinned = FALSE, !.pool.data = FALSE]
                 ELSE r)}

\* Runs "step" on the renderers the successful outcomes leave.
Then(outcomes, step(_)) ==
  UNION {IF o.res = "ok" THEN step(o.r) ELSE {o} : o \in outcomes}

\* The band is moved when the position is degenerate or differs.
Position(r, q) ==
  IF r.pool.reset \/ r.pool.before # q.before THEN MoveAllLayers(r, q.before)
  ELSE {Outcome("ok", r)}

AssignSlots(r, q) ==
  CASE q.slots > MaxSlots -> {Outcome("failed", r)}
    [] q.slots = 0 -> ClearOverlays(r)
    [] OTHER -> Then(Then(EnsureCapacity(r, q.slots), LAMBDA a : Position(a, q)),
                     LAMBDA b : SetOverlays(b, q))

(***************************************************************************)
(* The request-local layer and the source cache behind it.                 *)
(***************************************************************************)
CachedIds(r) == {e.id : e \in Range(r.lru)}
VacantId(r, src) ==
  CHOOSE id \in {src[1]} \X (0 .. Capacity) :
    /\ id \notin CachedIds(r)
    /\ \A n \in 0 .. id[2] - 1 : <<src[1], n>> \in CachedIds(r)

Evict(r) ==
  IF Len(r.lru) < Capacity THEN r
  ELSE [r EXCEPT !.lru = Tail(@), !.sources = @ \ {Head(r.lru)}]

\* AddLayerSourceCache::ensure: reuse the entry with this content, else make
\* room and add the source under a vacant id.
EnsureSource(r, src) ==
  LET same(e) == e.src = src
      at == SelectInSeq(r.lru, same)
      room == Evict(r)
      entry == [id |-> VacantId(room, src), src |-> src]
      added == [room EXCEPT !.lru = Append(@, entry), !.sources = @ \cup {entry}]
      clash == \E e \in room.sources : e.id = entry.id
  IN IF at # 0
     THEN {Outcome("ok", [r EXCEPT !.lru = Append(RemoveAt(@, at), r.lru[at])])}
     ELSE {Outcome("failed", room)} \cup IF clash THEN {} ELSE {Outcome("ok", added)}

\* install_addlayer; when the layer is refused a source added for it goes too.
InstallAddLayer(r, q) ==
  LET known == \E e \in Range(r.lru) : e.src = q.add
      installed(a) == [a EXCEPT !.layers = PutLayer(@, AddLayer, q.before)]
      undone(a) == IF known THEN a
                   ELSE [a EXCEPT !.lru = Front(@), !.sources = @ \ {Last(a.lru)}]
  IN CASE q.add = NoAdd -> {Outcome("ok", r)}
       [] q.add = BaseSource -> {Outcome("ok", installed(r)), Outcome("failed", r)}
       [] OTHER -> Then(EnsureSource(r, q.add), LAMBDA a :
                          {Outcome("ok", installed(a)), Outcome("failed", undone(a))})

RemoveAddLayer(r) == [r EXCEPT !.layers = Without(@, {AddLayer})]

(***************************************************************************)
(* The backend.  A native render callback error is "broken", which costs   *)
(* the whole map; a request-local failure is "failed", which keeps it.     *)
(***************************************************************************)
NeedsRebuild(r, key) == r.key # key \/ (IsStatic(key) /\ r.pool.rebuild)

\* ensure_static_renderer, ensure_tile_renderer: rebuild for another mode or
\* pixel ratio, or reload the style in place.
EnsureRenderer(r, key, prof) ==
  IF NeedsRebuild(r, key)
  THEN {Outcome("ok", Populated(key, prof)), Outcome("failed", r), Outcome("broken", r)}
  ELSE IF r.prof # prof
       THEN {Outcome("ok", Populated(key, prof)), Outcome("broken", r)}
       ELSE {Outcome("ok", r)}

\* render_static_with_overlays_and_addlayer.  Whatever happens once the layer
\* is installed, it is removed again; "shot" is the style the image was taken of.
RenderStatic(r, q) ==
  LET shots == Then(InstallAddLayer(r, q), LAMBDA a : AssignSlots(a, q))
  IN UNION {IF o.res = "ok"
            THEN {[res |-> res, r |-> RemoveAddLayer(o.r), shot |-> o.r] :
                    res \in {"ok", "failed", "broken"}}
            ELSE {[res |-> o.res, r |-> RemoveAddLayer(o.r), shot |-> NoRenderer]} : o \in shots}

RenderOutcomes(q) ==
  UNION {CASE o.res # "ok" -> {[res |-> o.res, r |-> o.r, shot |-> NoRenderer]}
           [] o.res = "ok" /\ IsStatic(q.key) -> RenderStatic(o.r, q)
           [] OTHER -> {[res |-> res, r |-> o.r, shot |-> o.r] :
                          res \in {"ok", "failed", "broken"}} :
         o \in EnsureRenderer(active, q.key, style)}

(***************************************************************************)
(* run_actor's two commands.  A panic inside the backend is caught and     *)
(* ends like a broken map: cleared warm state.                             *)
(***************************************************************************)
Reset ==
  /\ loaded' = None
  /\ style' = None
  /\ active' = NoRenderer

LoadProfile(q) ==
  /\ drawn' = NothingDrawn
  /\ \/ \E o \in EnsureRenderer(active, q.key, q.prof) :
          /\ o.res = "ok"
          /\ loaded' = q.prof
          /\ style' = q.prof
          /\ active' = o.r
     \/ Reset

\* Ghost: the overlay slots that stay where they are while q is rendered,
\* because the map is reused and its band is not moved.
Kept(q) ==
  IF \/ NeedsRebuild(active, q.key) \/ active.prof # style
     \/ active.pool.reset \/ active.pool.before # q.before
  THEN 0 ELSE active.pool.allocated

Render(q) ==
  \/ /\ loaded = q.prof
     /\ \E o \in RenderOutcomes(q) :
          /\ drawn' = IF o.res = "ok" THEN [req |-> q, r |-> o.shot, kept |-> Kept(q)]
                      ELSE NothingDrawn
          /\ IF o.res = "broken" THEN Reset
             ELSE active' = o.r /\ UNCHANGED <<loaded, style>>
  \/ /\ loaded # q.prof     \* StyleNotReady is not a RenderFailed
     /\ drawn' = NothingDrawn
     /\ Reset

Init ==
  /\ loaded = None
  /\ style = None
  /\ active = NoRenderer
  /\ drawn = NothingDrawn

Next == \E q \in Requests : LoadProfile(q) \/ Render(q)

Spec == Init /\ [][Next]_vars

(***************************************************************************)
(* Properties of every image that a request is answered with.              *)
(***************************************************************************)
Drew == drawn # NothingDrawn
Shot == drawn.r
SlotOrder(n) == FlattenSeq([i \in 1 .. n |-> SlotLayers(i)])

\* An image is taken of the style document and credential partition its
\* request names, with the renderer mode and pixel ratio it asks for, whatever
\* requests and failures came before (run_actor, ensure_static_renderer).
RendersOwnStyle ==
  Drew => Shot.prof = drawn.req.prof /\ Shot.key = drawn.req.key /\ style = Shot.prof

\* No request draws what another one left behind.  Its overlay source holds its
\* own overlays, or none if it has none; the only request-local layer is its
\* own, and that layer reads the source content its request named.  The one
\* exception is what assign_slots does when register_pin_images fails: the data
\* stays in the source while has_data is not set, so requests without overlays
\* do not clear it.
DrawsOnlyItsOwn ==
  Drew =>
    /\ IF drawn.req.slots = 0 THEN Shot.data = Empty \/ Shot.unpinned
       ELSE Shot.data = drawn.req.id
    /\ Contains(Shot.layers, AddLayer) <=> drawn.req.add # NoAdd
    /\ drawn.req.add \notin {NoAdd, BaseSource} => Last(Shot.lru).src = drawn.req.add
    /\ Shot.sources = Range(Shot.lru)

\* Every overlay layer a request needs is in the style, in the request's order,
\* in one band directly below "before" or at the top, after any number of
\* failed installs, failed moves and partial recoveries (assign_slots).  The
\* request-local layer is in that band too: below every overlay layer the
\* request installed or moved, and above the ones that an earlier request had
\* left in place (install_addlayer).
OverlaysComplete ==
  Drew =>
    LET band == SelectSeq(Shot.layers, LAMBDA l : l[1] = "slot")
        add == IF drawn.req.add = NoAdd THEN <<>> ELSE <<AddLayer>>
        stayed == SubSeq(band, 1, drawn.kept * Parts)
        placed == SubSeq(band, drawn.kept * Parts + 1, Len(band))
    IN IF drawn.req.slots = 0
       THEN Without(Shot.layers, Range(band)) = PutLayers(BaseLayers, add, drawn.req.before)
       ELSE /\ IsPrefix(SlotOrder(drawn.req.slots), band)
            /\ Shot.layers =
                 PutLayers(BaseLayers, stayed \o add \o placed, drawn.req.before)

====
