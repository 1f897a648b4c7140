----------------------------- MODULE StylePublish -----------------------------
(***************************************************************************)
(* Abashiri's style publication (abashiri-core mutation.rs and style.rs,   *)
(* the PUT route and the reconciler of servers/abashiri).                  *)
(*                                                                         *)
(* A publication writes an immutable intent, then the style object with a  *)
(* conditional put that carries the intent's opaque reference, then an     *)
(* immutable completion, and only then answers.  Every store operation is  *)
(* one step; a request may stop between any two of them, because a store   *)
(* call failed, the client went away or the process crashed.  A client     *)
(* retries with the same idempotency key.  The reconciler completes the    *)
(* records of writes whose request stopped.                                *)
(*                                                                         *)
(* An absent or present object is a set of at most one record, so a        *)
(* precondition is the set of versions the object must have: {} for        *)
(* MustNotExist, {v} for MustMatch(v).                                     *)
(***************************************************************************)
EXTENDS Integers, Sequences, FiniteSets

CONSTANTS
    Calls,         \* publication requests, retries included
    Keys,          \* idempotency keys
    Bodies,        \* style documents
    KeyOf,         \* KeyOf[c]: the key of a request
    BodyOf,        \* BodyOf[c]: its style document
    Earlier,       \* the reference of a publication completed long ago
    NoRef,         \* a request that has no intent yet
    Versioned,     \* whether the store's evidence holds an object version
    Scenarios      \* which requests come in, the notifier's endpoints, and how
                   \* often an operator deletes the object and a scan fails

ASSUME StylePublishAssumption ==
    /\ IsFiniteSet(Calls)
    /\ KeyOf \in [Calls -> Keys] /\ BodyOf \in [Calls -> Bodies]
    /\ Earlier \notin Calls /\ NoRef \notin Calls \cup {Earlier}
    /\ Versioned \in BOOLEAN
    /\ \A s \in Scenarios :
          /\ s.calls \subseteq Calls /\ IsFiniteSet(s.endpoints)
          /\ s.removals \in Nat /\ s.scanErrors \in Nat

VARIABLES
    object,      \* the style object: its reference, body and version
    history,     \* every write of it, and the precondition it was made under
    intents,     \* journal/.../intent.json of each key
    completions, \* journal/.../completion.json of each key
    pc,          \* where a request is
    pre,         \* its StylePrecondition
    ref,         \* the state_reference of the intent it works for
    result,      \* the commit it is about to record or has answered
    hinted,      \* refresh hints delivered: pairs of endpoint and key
    rpc,         \* where the reconciler is
    todo,        \* intents its scan has still to visit
    rkey,        \* the intent it is visiting
    rresult,     \* the commit it found for it
    endpoints,   \* the notifier's refresh endpoints
    removals,    \* deletions by an operator still to come
    scanErrors   \* scans that may still fail

storeVars == <<object, history, intents, completions>>
callVars == <<pc, pre, ref, result>>
scanVars == <<rpc, todo, rkey, rresult, scanErrors>>
setting == <<endpoints, removals>>
vars == <<storeVars, callVars, hinted, scanVars, setting>>

Refs == Calls \cup {Earlier}

\* VersionEvidence: the ETag a store derives from the body and, on a store that
\* has them, the generation number of the write.
Versions == [e_tag : Bodies, version : Nat]
VersionOf(body, n) == [e_tag |-> body, version |-> IF Versioned THEN n ELSE 0]

\* Everything VersionEvidence and the content digest say of a commit.
Commits == [version : Versions, body : Bodies]
CommitOf(o) == [version |-> o.version, body |-> o.body]

VersionsOf(objects) == {o.version : o \in objects}
ByRef(objects, r) == {o \in objects : o.ref = r}

TypeOK ==
    /\ Cardinality(object) <= 1
    /\ \A o \in object : o.ref \in Refs /\ CommitOf(o) \in Commits
    /\ \A i \in DOMAIN history :
          /\ history[i].ref \in Refs
          /\ CommitOf(history[i]) \in Commits
          /\ history[i].pre \subseteq Versions
    /\ DOMAIN intents = Keys /\ DOMAIN completions = Keys
    /\ \A k \in Keys :
          /\ Cardinality(intents[k]) <= 1 /\ Cardinality(completions[k]) <= 1
          /\ \A t \in intents[k] : t.ref \in Calls /\ t.body \in Bodies
          /\ completions[k] \subseteq Commits
    /\ pc \in [Calls -> {"idle", "intent", "lookup", "read", "write", "race",
                         "record", "notify", "answered", "refused",
                         "disagrees", "failed"}]
    /\ \A c \in Calls : pre[c] \subseteq Versions /\ result[c] \subseteq Commits
    /\ ref \in [Calls -> Calls \cup {NoRef}]
    /\ hinted \subseteq endpoints \X Keys
    /\ rpc \in {"idle", "visit", "state", "record"}
    /\ todo \subseteq Keys /\ rkey \subseteq Keys /\ Cardinality(rkey) <= 1
    /\ rresult \subseteq Commits
    /\ removals \in Nat /\ scanErrors \in Nat

Goto(c, label) == pc' = [pc EXCEPT ![c] = label]

\* A request that is over keeps nothing but its outcome.
Finish(c, label) ==
    /\ pc' = [pc EXCEPT ![c] = label]
    /\ pre' = [pre EXCEPT ![c] = {}]
    /\ ref' = [ref EXCEPT ![c] = NoRef]
    /\ result' = [result EXCEPT ![c] = {}]

-----------------------------------------------------------------------------
(* The request. *)

\* The PUT arrives: If-None-Match: * or an ETag some answer once carried.
PublishStyle(c) ==
    /\ pc[c] = "idle"
    /\ \E p \in {{}} \cup {{history[i].version} : i \in DOMAIN history} :
          pre' = [pre EXCEPT ![c] = p]
    /\ Goto(c, "intent")
    /\ UNCHANGED <<storeVars, ref, result, hinted, scanVars, setting>>

\* matches_request: the canonical input is the precondition and the body.
MatchesRequest(t, c) == t.pre = pre[c] /\ t.body = BodyOf[c]

EnsureIntent(c) ==
    LET k == KeyOf[c] IN
    /\ pc[c] = "intent"
    /\ \/ /\ intents[k] = {}
          /\ intents' = [intents EXCEPT ![k] =
                {[ref |-> c, pre |-> pre[c], body |-> BodyOf[c]]}]
          /\ ref' = [ref EXCEPT ![c] = c]
          /\ Goto(c, "lookup")
          /\ UNCHANGED <<pre, result>>
       \/ \E t \in intents[k] :
             /\ MatchesRequest(t, c)
             /\ ref' = [ref EXCEPT ![c] = t.ref]
             /\ Goto(c, "lookup")
             /\ UNCHANGED <<intents, pre, result>>
       \/ \E t \in intents[k] :
             /\ ~MatchesRequest(t, c)
             /\ Finish(c, "refused")
             /\ UNCHANGED intents
    /\ UNCHANGED <<object, history, completions, hinted, scanVars, setting>>

\* A durable completion is answered without touching the style.
LookupCompletion(c) ==
    LET done == completions[KeyOf[c]] IN
    /\ pc[c] = "lookup"
    /\ result' = [result EXCEPT ![c] = done]
    /\ Goto(c, IF done # {} THEN "notify" ELSE "read")
    /\ UNCHANGED <<storeVars, pre, ref, hinted, scanVars, setting>>

\* existing_style_commit: the object is this mutation's and must hold its
\* content.
TakeExisting(c, o) ==
    IF o.body = BodyOf[c]
    THEN /\ result' = [result EXCEPT ![c] = {CommitOf(o)}]
         /\ Goto(c, "record")
         /\ UNCHANGED <<pre, ref>>
    ELSE Finish(c, "failed")

\* commit_style reads the object and compares reference and version with what
\* the request carries.
CommitStyle(c) ==
    LET mine == ByRef(object, ref[c]) IN
    /\ pc[c] = "read"
    /\ \/ \E o \in mine : TakeExisting(c, o)
       \/ /\ mine = {} /\ VersionsOf(object) = pre[c]
          /\ Goto(c, "write")
          /\ UNCHANGED <<pre, ref, result>>
       \/ mine = {} /\ VersionsOf(object) # pre[c] /\ Finish(c, "refused")
    /\ UNCHANGED <<storeVars, hinted, scanVars, setting>>

\* The conditional put: PutMode::Create or PutMode::Update(expected).
Put(c) ==
    LET o == [ref |-> ref[c], body |-> BodyOf[c],
              version |-> VersionOf(BodyOf[c], Len(history) + 1)]
    IN  /\ object' = {o}
        /\ history' = Append(history,
              [ref |-> o.ref, body |-> o.body, version |-> o.version,
               pre |-> pre[c], over |-> VersionsOf(object)])

AcceptsAlways(c) == TRUE

Accepts(c) == VersionsOf(object) = pre[c]

\* The reply may be lost in the client library, which repeats the put and is
\* told that the precondition no longer holds.
WriteStyle(c) ==
    /\ pc[c] = "write"
    /\ \/ /\ Accepts(c) /\ Put(c)
          /\ \/ /\ result' = [result EXCEPT ![c] = {CommitOf(o) : o \in object'}]
                /\ Goto(c, "record")
             \/ UNCHANGED result /\ Goto(c, "race")
       \/ /\ ~Accepts(c) /\ Goto(c, "race")
          /\ UNCHANGED <<object, history, result>>
    /\ UNCHANGED <<intents, completions, pre, ref, hinted, scanVars, setting>>

\* resolve_write_race: the winner may be a concurrent attempt of this mutation.
ResolveWriteRace(c) ==
    LET mine == ByRef(object, ref[c]) IN
    /\ pc[c] = "race"
    /\ \/ \E o \in mine : TakeExisting(c, o)
       \/ mine = {} /\ Finish(c, "refused")
    /\ UNCHANGED <<storeVars, hinted, scanVars, setting>>

\* record_completion: create-only; a concurrent completion must agree.
RecordCompletion(c) ==
    LET k == KeyOf[c] IN
    /\ pc[c] = "record"
    /\ \/ /\ completions[k] \in {{}, result[c]}
          /\ completions' = [completions EXCEPT ![k] = result[c]]
          /\ Goto(c, "notify")
          /\ UNCHANGED <<pre, ref, result>>
       \/ /\ completions[k] \notin {{}, result[c]}
          /\ Finish(c, "disagrees")
          /\ UNCHANGED completions
    /\ UNCHANGED <<object, history, intents, hinted, scanVars, setting>>

\* The hint goes to every endpoint at once and may be lost on the way to any;
\* then the PUT is answered.
NotifyAndAnswer(c) ==
    /\ pc[c] = "notify"
    /\ \E told \in SUBSET endpoints :
          hinted' = hinted \cup (told \X {KeyOf[c]})
    /\ pc' = [pc EXCEPT ![c] = "answered"]
    /\ pre' = [pre EXCEPT ![c] = {}]
    /\ ref' = [ref EXCEPT ![c] = NoRef]
    /\ UNCHANGED <<storeVars, result, scanVars, setting>>

\* A store call fails, the connection drops or the process dies.
Stop(c) ==
    /\ pc[c] \in {"intent", "lookup", "read", "write", "race", "record", "notify"}
    /\ Finish(c, "failed")
    /\ UNCHANGED <<storeVars, hinted, scanVars, setting>>

-----------------------------------------------------------------------------
(* The reconciler. *)

\* reconcile_unfinished lists the intents of the journal.
StartScan ==
    /\ rpc = "idle"
    /\ todo' = {k \in Keys : intents[k] # {}}
    /\ rpc' = "visit"
    /\ UNCHANGED <<storeVars, callVars, hinted, rkey, rresult, scanErrors, setting>>

FinishScan ==
    /\ rpc = "visit" /\ todo = {}
    /\ rpc' = "idle"
    /\ UNCHANGED <<storeVars, callVars, hinted, todo, rkey, rresult, scanErrors,
                   setting>>

\* unfinished_intent: an intent with a completion is skipped.
Visit(k) ==
    /\ rpc = "visit" /\ k \in todo
    /\ todo' = todo \ {k}
    /\ \/ /\ completions[k] = {} /\ rkey' = {k} /\ rpc' = "state"
       \/ /\ completions[k] # {} /\ UNCHANGED <<rkey, rpc>>
    /\ UNCHANGED <<storeVars, callVars, hinted, rresult, scanErrors, setting>>

\* reconcile_style_intent: only state that names the intent proves a commit.
ReconcileAnyState(k) ==
    /\ rpc = "state" /\ rkey = {k}
    /\ rresult' = {CommitOf(o) : o \in object}
    /\ rpc' = IF object # {} THEN "record" ELSE "visit"
    /\ rkey' = IF object # {} THEN rkey ELSE {}
    /\ UNCHANGED <<storeVars, callVars, hinted, todo, scanErrors, setting>>

ReconcileState(k) ==
    /\ rpc = "state" /\ rkey = {k}
    /\ LET mine == UNION {ByRef(object, t.ref) : t \in intents[k]} IN
       /\ rresult' = {CommitOf(o) : o \in mine}
       /\ rpc' = IF mine # {} THEN "record" ELSE "visit"
       /\ rkey' = IF mine # {} THEN rkey ELSE {}
    /\ UNCHANGED <<storeVars, callVars, hinted, todo, scanErrors, setting>>

\* complete_intent: a completion that disagrees ends the scan.
ReconcileRecordAndDrop(k) ==
    /\ rpc = "record" /\ rkey = {k}
    /\ rpc' = "visit" /\ rkey' = {} /\ rresult' = {}
    /\ UNCHANGED <<storeVars, callVars, hinted, todo, scanErrors, setting>>

ReconcileRecord(k) ==
    LET agrees == completions[k] \in {{}, rresult} IN
    /\ rpc = "record" /\ rkey = {k}
    /\ completions' =
          [completions EXCEPT ![k] = IF agrees THEN rresult ELSE @]
    /\ rpc' = IF agrees THEN "visit" ELSE "idle"
    /\ todo' = IF agrees THEN todo ELSE {}
    /\ rkey' = {} /\ rresult' = {}
    /\ UNCHANGED <<object, history, intents, callVars, hinted, scanErrors, setting>>

\* Any store error ends the scan; the next interval starts over.
ScanFails ==
    /\ rpc # "idle" /\ scanErrors > 0
    /\ rpc' = "idle" /\ todo' = {} /\ rkey' = {} /\ rresult' = {}
    /\ scanErrors' = scanErrors - 1
    /\ UNCHANGED <<storeVars, callVars, hinted, setting>>

\* An operator deletes the style object, which no route of Abashiri does.
Remove ==
    /\ removals > 0 /\ object # {}
    /\ object' = {} /\ removals' = removals - 1
    /\ UNCHANGED <<endpoints, history, intents, completions, callVars, hinted, scanVars>>

-----------------------------------------------------------------------------
\* The style is new, or was published before.  A request outside the scenario
\* looks like one that is over.
InitWith(s) ==
    /\ \/ object = {} /\ history = <<>>
       \/ \E b \in Bodies :
             LET v == VersionOf(b, 1) IN
             /\ object = {[ref |-> Earlier, body |-> b, version |-> v]}
             /\ history = <<[ref |-> Earlier, body |-> b, version |-> v,
                             pre |-> {}, over |-> {}]>>
    /\ intents = [k \in Keys |-> {}]
    /\ completions = [k \in Keys |-> {}]
    /\ pc = [c \in Calls |-> IF c \in s.calls THEN "idle" ELSE "failed"]
    /\ pre = [c \in Calls |-> {}]
    /\ ref = [c \in Calls |-> NoRef]
    /\ result = [c \in Calls |-> {}]
    /\ hinted = {}
    /\ rpc = "idle" /\ todo = {} /\ rkey = {} /\ rresult = {}
    /\ endpoints = s.endpoints
    /\ removals = s.removals /\ scanErrors = s.scanErrors

Init == \E s \in Scenarios : InitWith(s)

Request(c) ==
    \/ EnsureIntent(c)
    \/ LookupCompletion(c)
    \/ CommitStyle(c)
    \/ WriteStyle(c)
    \/ ResolveWriteRace(c)
    \/ RecordCompletion(c)
    \/ NotifyAndAnswer(c)

Reconcile ==
    \/ StartScan
    \/ FinishScan
    \/ \E k \in Keys : Visit(k) \/ ReconcileState(k) \/ ReconcileRecord(k)

Next ==
    \/ \E c \in Calls : PublishStyle(c) \/ Request(c) \/ Stop(c)
    \/ Reconcile
    \/ ScanFails
    \/ Remove

\* The reconciler runs on an interval for as long as a server process does.
Spec == Init /\ [][Next]_vars /\ WF_vars(Reconcile)

-----------------------------------------------------------------------------
(* Properties *)

\* A mutation's style write is applied at most once, however often its client
\* retries and wherever earlier attempts stopped: a retry after "state committed,
\* completion write failed" recognises the commit by its reference, or is
\* refused by its precondition once a later publication replaced it.  Only an
\* object that an operator deleted meanwhile is created again.  It is promised
\* on a store whose evidence numbers its writes (Versioned): where the ETag is
\* all there is, content that was replaced and put back looks untouched.
AppliedOnce ==
    \A i, j \in DOMAIN history :
       i < j /\ history[i].ref = history[j].ref => history[j].over = {}

\* A completion, whoever recorded it, names the version and content of a write
\* that carried the reference of its own intent.
CompletionTrue ==
    \A k \in Keys : \A done \in completions[k] :
       \E t \in intents[k], i \in DOMAIN history :
          history[i].ref = t.ref /\ CommitOf(history[i]) = done

\* Every successful answer for a key carries the version of the key's durable
\* completion, so all answers for the key agree.
AnswersAgree ==
    \A c \in Calls : pc[c] = "answered" =>
       result[c] # {} /\ result[c] = completions[KeyOf[c]]

\* A refresh hint is delivered only for a mutation whose completion is durable,
\* so a receiver that refreshes on it reads the new style or a later one.
HintedDurable == \A h \in hinted : completions[h[2]] # {}

\* Completions, answers and hints tell only of writes that happened: a
\* completion names a write made for its own intent, every answer for a key
\* carries that completion, and a hint is delivered only once it is durable
\* (ensure_intent, record_completion, notify).
RecordsTrue == TypeOK /\ CompletionTrue /\ AnswersAgree /\ HintedDurable

\* A style write whose request stopped before the completion is completed by
\* the reconciler, unless a later publication replaced the style first.
Reconciled ==
    \A k \in Keys :
       []<>((\E o \in object, t \in intents[k] : o.ref = t.ref) => completions[k] # {})

=============================================================================
