-------------------------- MODULE ControlPlaneProofs --------------------------
(***************************************************************************)
(* Proofs about StylePublish, DeliveryAuth and ManagementAuth: for any     *)
(* number of requests, idempotency keys, style documents, endpoints and    *)
(* versions of a registry, any intervals and timeouts, and wherever        *)
(* requests, scans, writers and failures interrupt one another.            *)
(***************************************************************************)
EXTENDS StylePublish, DeliveryAuth, ManagementAuth, TLAPS

USE Zenon

-----------------------------------------------------------------------------
(* The publisher.                                                          *)

Objects == [ref : Refs, body : Bodies, version : Versions]
Intents == [ref : Calls, pre : SUBSET Versions, body : Bodies]
Writes == [ref : Refs, body : Bodies, version : Versions,
           pre : SUBSET Versions, over : SUBSET Versions]

Labels == {"idle", "intent", "lookup", "read", "write", "race", "record",
           "notify", "answered", "refused", "disagrees", "failed"}

\* The labels at which a request works for an intent.
Working == {"lookup", "read", "write", "race", "record", "notify"}

AtMostOne(S) == \A x, y \in S : x = y

\* The types of TypeOK, with functions and sequences stated as such.
StoreTyped ==
    /\ object \subseteq Objects
    /\ history \in Seq(Writes)
    /\ intents \in [Keys -> SUBSET Intents]
    /\ completions \in [Keys -> SUBSET Commits]

CallsTyped ==
    /\ pc \in [Calls -> Labels]
    /\ pre \in [Calls -> SUBSET Versions]
    /\ ref \in [Calls -> Calls \cup {NoRef}]
    /\ result \in [Calls -> SUBSET Commits]

ScanTyped ==
    /\ hinted \subseteq endpoints \X Keys
    /\ rpc \in {"idle", "visit", "state", "record"}
    /\ todo \subseteq Keys /\ rkey \subseteq Keys
    /\ rresult \subseteq Commits
    /\ removals \in Nat /\ scanErrors \in Nat

\* The store holds at most one object of each name.
Single ==
    /\ AtMostOne(object) /\ AtMostOne(rkey)
    /\ \A k \in Keys : AtMostOne(intents[k]) /\ AtMostOne(completions[k])

\* A style object that is there is the last one written.
ObjectIsLast ==
    \A o \in object :
       /\ Len(history) > 0
       /\ o.ref = history[Len(history)].ref
       /\ CommitOf(o) = CommitOf(history[Len(history)])

\* The writes form a chain: each has a version of its own, was made over the
\* state its precondition named, and replaced the write just before it, unless
\* the object was absent.
Chained ==
    \A i \in DOMAIN history :
       /\ history[i].version = VersionOf(history[i].body, i)
       /\ history[i].over = history[i].pre
       /\ history[i].ref = Earlier => i = 1
       /\ \A v \in history[i].over : i > 1 /\ v = history[i - 1].version

\* The intent of a reference is the one its key durably holds.
IntentOf(r, p, b) ==
    \E t \in intents[KeyOf[r]] : t.ref = r /\ t.pre = p /\ t.body = b

\* An intent is filed under the key of the request that created it, and every
\* write carries the precondition and the content of its intent.
Intended ==
    /\ \A k \in Keys : \A t \in intents[k] : KeyOf[t.ref] = k
    /\ \A i \in DOMAIN history :
          history[i].ref # Earlier =>
             IntentOf(history[i].ref, history[i].pre, history[i].body)

Wrote(r, done) ==
    \E i \in DOMAIN history : history[i].ref = r /\ CommitOf(history[i]) = done

\* A commit that may be recorded for a key: one, written for the key's intent.
Recordable(k, commits) ==
    /\ commits # {} /\ AtMostOne(commits)
    /\ \A done \in commits : \E t \in intents[k] : Wrote(t.ref, done)

\* A request at work carries the reference of its key's intent, which it
\* matches; what it is about to record is a commit of that intent; and when it
\* notifies or has answered, it holds the durable completion.
CallOK(c) ==
    /\ pc[c] \in Working =>
          \E t \in intents[KeyOf[c]] : t.ref = ref[c] /\ MatchesRequest(t, c)
    /\ pc[c] = "record" => Recordable(KeyOf[c], result[c])
    /\ pc[c] \in {"notify", "answered"} =>
          result[c] # {} /\ result[c] = completions[KeyOf[c]]

CallsOK == \A c \in Calls : CallOK(c)

\* The same of the reconciler.
ScanOK == rpc = "record" => \A k \in rkey : Recordable(k, rresult)

\* What is durable is a commit of its key's intent.
Durable ==
    \A k \in Keys : completions[k] # {} => Recordable(k, completions[k])

\* The inductive invariant.
Inv ==
    /\ StoreTyped /\ CallsTyped /\ ScanTyped
    /\ Single
    /\ ObjectIsLast
    /\ Chained
    /\ Intended
    /\ CallsOK
    /\ ScanOK
    /\ Durable
    /\ HintedDurable
-----------------------------------------------------------------------------
(* What a step leaves alone, and what follows from it. *)

HistoryGrows ==
    \A i \in DOMAIN history : i \in DOMAIN history' /\ history'[i] = history[i]

IntentsGrow == \A k \in Keys : intents[k] \subseteq intents'[k]

CompletionsKept ==
    \A k \in Keys : completions[k] # {} => completions'[k] = completions[k]

CallKept(d) ==
    pc'[d] = pc[d] /\ pre'[d] = pre[d] /\ ref'[d] = ref[d] /\ result'[d] = result[d]

OthersKept(c) == \A d \in Calls \ {c} : CallKept(d)

ScanKept == UNCHANGED <<rpc, todo, rkey, rresult, scanErrors, endpoints, removals>>

\* What a request carries in.
LEMMA Inputs == \A c \in Calls : KeyOf[c] \in Keys /\ BodyOf[c] \in Bodies
  BY StylePublishAssumption

\* Evidence is never withdrawn: a commit that may be recorded stays one.
LEMMA RecordableKept ==
  ASSUME HistoryGrows, IntentsGrow, NEW k \in Keys, NEW S, Recordable(k, S)
  PROVE  Recordable(k, S)'
<1>1. \A r, done : Wrote(r, done) => Wrote(r, done)'
  BY DEF Wrote, HistoryGrows, CommitOf
<1>2. ASSUME NEW done \in S
      PROVE  \E t \in intents'[k] : Wrote(t.ref, done)'
  <2>1. PICK t \in intents[k] : Wrote(t.ref, done)
    BY <1>2 DEF Recordable
  <2>2. t \in intents'[k]
    BY <2>1 DEF IntentsGrow
  <2> QED
    BY <1>1, <2>1, <2>2
<1>3. S # {} /\ AtMostOne(S)
  BY DEF Recordable
<1> QED
  BY <1>2, <1>3 DEF Recordable, AtMostOne

\* A request that a step leaves alone stays as it should be.
LEMMA CallStays ==
  ASSUME HistoryGrows, IntentsGrow, CompletionsKept,
         NEW d \in Calls, CallKept(d), CallOK(d)
  PROVE  CallOK(d)'
<1>0. KeyOf[d] \in Keys
  BY Inputs
<1>1. pc'[d] \in Working =>
         \E t \in intents'[KeyOf[d]] : t.ref = ref'[d] /\ MatchesRequest(t, d)'
  BY <1>0 DEF CallOK, CallKept, IntentsGrow, MatchesRequest
<1>2. pc'[d] = "record" => Recordable(KeyOf[d], result[d])'
  BY <1>0, RecordableKept DEF CallOK, CallKept
<1>3. pc'[d] \in {"notify", "answered"} =>
         result'[d] # {} /\ result'[d] = completions'[KeyOf[d]]
  BY <1>0 DEF CallOK, CallKept, CompletionsKept
<1>4. result'[d] = result[d]
  BY DEF CallKept
<1> QED
  BY <1>1, <1>2, <1>3, <1>4 DEF CallOK, Recordable

\* While completions stay, they stay commits of their intents.
LEMMA DurableStays ==
  ASSUME Inv, HistoryGrows, IntentsGrow, UNCHANGED completions
  PROVE  Durable' /\ CompletionsKept
<1>1. Durable'
  <2> SUFFICES ASSUME NEW k \in Keys, completions'[k] # {}
               PROVE  Recordable(k, completions[k])'
    BY DEF Durable
  <2>1. Recordable(k, completions[k])
    BY DEF Inv, Durable
  <2>2. \A S : Recordable(k, S) => Recordable(k, S)'
    BY RecordableKept
  <2> QED
    BY <2>1, <2>2 DEF Recordable
<1>2. CompletionsKept
  BY DEF CompletionsKept
<1> QED
  BY <1>1, <1>2

\* What is said of requests and of hints holds after a step that moves one
\* request at most, keeps what is durable and delivers no hint.
LEMMA CallsStay ==
  ASSUME Inv, HistoryGrows, IntentsGrow, CompletionsKept, UNCHANGED hinted,
         \A d \in Calls : CallKept(d) \/ CallOK(d)'
  PROVE  CallsOK' /\ HintedDurable'
<1>1. CallsOK'
  <2> SUFFICES ASSUME NEW d \in Calls PROVE CallOK(d)'
    BY DEF CallsOK
  <2>1. CASE CallKept(d)
    <3>1. CallOK(d)
      BY DEF Inv, CallsOK
    <3> QED
      BY <2>1, <3>1, CallStays
  <2> QED
    BY <2>1
<1>2. HintedDurable'
  <2> SUFFICES ASSUME NEW h \in hinted PROVE completions'[h[2]] # {}
    BY DEF HintedDurable
  <2>1. h[2] \in Keys /\ completions[h[2]] # {}
    BY DEF Inv, HintedDurable, ScanTyped
  <2> QED
    BY <2>1 DEF CompletionsKept
<1> QED
  BY <1>1, <1>2

\* The reconciler stays as it should be while it does not move.
LEMMA ScanStays ==
  ASSUME Inv, HistoryGrows, IntentsGrow, ScanKept
  PROVE  ScanOK'
<1>1. ScanOK /\ rkey \subseteq Keys
  BY DEF Inv, ScanTyped
<1> SUFFICES ASSUME rpc' = "record", NEW k \in rkey'
             PROVE  Recordable(k, rresult)'
  BY DEF ScanOK
<1>2. k \in Keys /\ Recordable(k, rresult)
  BY <1>1 DEF ScanOK, ScanKept
<1>3. \A S : Recordable(k, S) => Recordable(k, S)'
  BY <1>2, RecordableKept
<1> QED
  BY <1>2, <1>3 DEF ScanKept, Recordable

\* A step of one request keeps the invariant if it keeps the types, the shape of
\* the store, what is durable and what is said of that request.
LEMMA CallMoves ==
  ASSUME Inv, NEW c \in Calls,
         HistoryGrows, IntentsGrow, CompletionsKept, UNCHANGED hinted,
         OthersKept(c), ScanKept, CallsTyped', CallOK(c)',
         (StoreTyped /\ Single /\ ObjectIsLast /\ Chained /\ Intended /\ Durable)'
  PROVE  Inv'
<1>1. \A d \in Calls : CallKept(d) \/ CallOK(d)'
  BY Zenon DEF OthersKept
<1>2. ScanTyped'
  BY DEF Inv, ScanTyped, ScanKept
<1> QED
  BY <1>1, <1>2, CallsStay, ScanStays DEF Inv

\* The store is untouched.
LEMMA StoreStays ==
  ASSUME Inv, UNCHANGED storeVars
  PROVE  /\ StoreTyped' /\ ObjectIsLast' /\ Chained' /\ Intended'
         /\ HistoryGrows /\ IntentsGrow /\ CompletionsKept
<1> USE DEF storeVars
<1>1. StoreTyped'
  BY DEF Inv, StoreTyped
<1>2. ObjectIsLast'
  BY Zenon DEF Inv, ObjectIsLast, CommitOf
<1>3. Chained'
  BY DEF Inv, Chained, VersionOf
<1>4. Intended'
  BY DEF Inv, Intended, IntentOf
<1>5. HistoryGrows /\ IntentsGrow /\ CompletionsKept
  BY DEF HistoryGrows, IntentsGrow, CompletionsKept
<1> QED
  BY <1>1, <1>2, <1>3, <1>4, <1>5

\* A step of one request that touches neither the store nor the reconciler.
LEMMA CallMovesAlone ==
  ASSUME Inv, NEW c \in Calls,
         UNCHANGED storeVars, UNCHANGED hinted, ScanKept,
         OthersKept(c), CallsTyped', CallOK(c)'
  PROVE  Inv'
<1>1. UNCHANGED completions
  BY DEF storeVars
<1>2. Single'
  BY DEF Inv, Single, AtMostOne, storeVars, ScanKept
<1> QED
  BY <1>1, <1>2, StoreStays, DurableStays, CallMoves
-----------------------------------------------------------------------------
(* The steps of a request. *)

\* A request that is over carries nothing.
LEMMA FinishStep ==
  ASSUME Inv, NEW c \in Calls,
         NEW label \in {"refused", "disagrees", "failed"}, Finish(c, label),
         UNCHANGED storeVars, UNCHANGED hinted, ScanKept
  PROVE  Inv'
<1>1. CallsTyped'
  BY DEF Inv, CallsTyped, Finish, Labels
<1>2. OthersKept(c)
  BY DEF Inv, CallsTyped, Finish, OthersKept, CallKept
<1>3. CallOK(c)'
  BY DEF Inv, CallsTyped, Finish, CallOK, Working
<1> QED
  BY <1>1, <1>2, <1>3, CallMovesAlone

\* PublishStyle fixes the precondition from what some answer once carried.
LEMMA PublishStyleStep ==
  ASSUME Inv, NEW c \in Calls, PublishStyle(c)
  PROVE  Inv'
<1>1. PICK p \in {{}} \cup {{history[i].version} : i \in DOMAIN history} :
         pre' = [pre EXCEPT ![c] = p]
  BY Zenon DEF PublishStyle
<1>2. p \subseteq Versions
  <2>1. \A i \in DOMAIN history : history[i].version \in Versions
    <3>1. \A i \in DOMAIN history : history[i] \in Writes
      BY SMTT(30) DEF Inv, StoreTyped
    <3> QED
      BY <3>1 DEF Writes
  <2> QED
    BY <1>1, <2>1
<1>3. CallsTyped'
  BY <1>1, <1>2 DEF Inv, CallsTyped, PublishStyle, Goto, Labels
<1>4. OthersKept(c)
  BY <1>1 DEF Inv, CallsTyped, PublishStyle, Goto, OthersKept, CallKept
<1>5. CallOK(c)'
  BY DEF Inv, CallsTyped, PublishStyle, Goto, CallOK, Working
<1>6. UNCHANGED storeVars /\ UNCHANGED hinted /\ ScanKept
  BY DEF PublishStyle, ScanKept, scanVars, setting
<1> QED
  BY <1>3, <1>4, <1>5, <1>6, CallMovesAlone

\* LookupCompletion answers a completed mutation with what is durable.
LEMMA LookupStep ==
  ASSUME Inv, NEW c \in Calls, LookupCompletion(c)
  PROVE  Inv'
<1>0. KeyOf[c] \in Keys
  BY Inputs
<1>1. CallsTyped'
  BY <1>0 DEF Inv, CallsTyped, StoreTyped, LookupCompletion, Goto, Labels
<1>2. OthersKept(c)
  BY DEF Inv, CallsTyped, LookupCompletion, Goto, OthersKept, CallKept
<1>3. CallOK(c)'
  <2>1. \E t \in intents[KeyOf[c]] : t.ref = ref[c] /\ MatchesRequest(t, c)
    BY DEF Inv, CallsOK, CallOK, LookupCompletion, Working
  <2>2. \E t \in intents'[KeyOf[c]] : t.ref = ref'[c] /\ MatchesRequest(t, c)'
    BY <2>1 DEF LookupCompletion, storeVars, MatchesRequest
  <2>3. pc'[c] \in {"notify", "read"}
    BY DEF Inv, CallsTyped, LookupCompletion, Goto
  <2>4. pc'[c] = "notify" =>
           result'[c] # {} /\ result'[c] = completions'[KeyOf[c]]
    BY DEF Inv, CallsTyped, LookupCompletion, Goto, storeVars
  <2> QED
    BY <2>2, <2>3, <2>4 DEF CallOK
<1>4. UNCHANGED storeVars /\ UNCHANGED hinted /\ ScanKept
  BY DEF LookupCompletion, ScanKept, scanVars, setting
<1> QED
  BY <1>1, <1>2, <1>3, <1>4, CallMovesAlone

\* An object that carries the request's own reference is its commit.
LEMMA TakeExistingStep ==
  ASSUME Inv, NEW c \in Calls,
         pc[c] \in Working, NEW o \in ByRef(object, ref[c]), TakeExisting(c, o),
         UNCHANGED storeVars, UNCHANGED hinted, ScanKept
  PROVE  Inv'
<1>1. CASE o.body # BodyOf[c]
  BY <1>1, FinishStep DEF TakeExisting
<1>2. CASE o.body = BodyOf[c]
  <2>0. /\ result' = [result EXCEPT ![c] = {CommitOf(o)}]
        /\ pc' = [pc EXCEPT ![c] = "record"] /\ UNCHANGED <<pre, ref>>
    BY <1>2 DEF TakeExisting, Goto
  <2>1. o \in object /\ o.ref = ref[c]
    BY DEF ByRef
  <2>2. CommitOf(o) \in Commits
    BY <2>1 DEF Inv, StoreTyped, Objects, CommitOf, Commits
  <2>3. Wrote(ref[c], CommitOf(o))
    <3>1. /\ Len(history) > 0 /\ history[Len(history)].ref = ref[c]
          /\ CommitOf(history[Len(history)]) = CommitOf(o)
      BY <2>1 DEF Inv, ObjectIsLast
    <3>2. Len(history) \in DOMAIN history
      BY <3>1, SMTT(30) DEF Inv, StoreTyped
    <3> QED
      BY <3>1, <3>2 DEF Wrote
  <2>4. PICK t \in intents[KeyOf[c]] : t.ref = ref[c] /\ MatchesRequest(t, c)
    BY DEF Inv, CallsOK, CallOK
  <2>5. CallsTyped'
    BY <2>0, <2>2 DEF Inv, CallsTyped, Labels
  <2>6. OthersKept(c)
    BY <2>0 DEF Inv, CallsTyped, OthersKept, CallKept
  <2>7. Recordable(KeyOf[c], {CommitOf(o)})
    BY <2>3, <2>4 DEF Recordable, AtMostOne
  <2>8. CallOK(c)'
    <3>1. pc'[c] = "record" /\ result'[c] = {CommitOf(o)}
      BY <2>0 DEF Inv, CallsTyped
    <3>2. \E u \in intents'[KeyOf[c]] : u.ref = ref'[c] /\ MatchesRequest(u, c)'
      BY <2>0, <2>4 DEF storeVars, MatchesRequest
    <3>3. KeyOf[c] \in Keys
      BY Inputs
    <3>4. \A S : Recordable(KeyOf[c], S) => Recordable(KeyOf[c], S)'
      BY <3>3, StoreStays, RecordableKept
    <3>5. Recordable(KeyOf[c], result[c])'
      BY <2>7, <3>1, <3>4 DEF Recordable
    <3> QED
      BY <3>1, <3>2, <3>5 DEF CallOK
  <2> QED
    BY <2>5, <2>6, <2>8, CallMovesAlone
<1> QED
  BY <1>1, <1>2

\* CommitStyle recognises its own commit, goes on to write, or is refused.
LEMMA CommitStyleStep ==
  ASSUME Inv, NEW c \in Calls, CommitStyle(c)
  PROVE  Inv'
<1>0. UNCHANGED storeVars /\ UNCHANGED hinted /\ ScanKept /\ pc[c] \in Working
  BY DEF CommitStyle, ScanKept, scanVars, setting, Working
<1>1. ASSUME NEW o \in ByRef(object, ref[c]), TakeExisting(c, o)
      PROVE  Inv'
  BY <1>0, <1>1, TakeExistingStep
<1>2. CASE Goto(c, "write") /\ UNCHANGED <<pre, ref, result>>
  <2>1. CallsTyped'
    BY <1>2 DEF Inv, CallsTyped, Goto, Labels
  <2>2. OthersKept(c)
    BY <1>2 DEF Inv, CallsTyped, Goto, OthersKept, CallKept
  <2>3. CallOK(c)'
    <3>1. \E t \in intents[KeyOf[c]] : t.ref = ref[c] /\ MatchesRequest(t, c)
      BY <1>0 DEF Inv, CallsOK, CallOK
    <3>2. \E t \in intents'[KeyOf[c]] : t.ref = ref'[c] /\ MatchesRequest(t, c)'
      BY <1>0, <1>2, <3>1 DEF storeVars, MatchesRequest
    <3>3. pc'[c] = "write"
      BY <1>2 DEF Inv, CallsTyped, Goto
    <3> QED
      BY <3>2, <3>3 DEF CallOK
  <2> QED
    BY <1>0, <2>1, <2>2, <2>3, CallMovesAlone
<1>3. CASE Finish(c, "refused")
  BY <1>0, <1>3, FinishStep
<1> QED
  BY <1>1, <1>2, <1>3 DEF CommitStyle

\* ResolveWriteRace recognises its own commit or is refused.
LEMMA ResolveWriteRaceStep ==
  ASSUME Inv, NEW c \in Calls, ResolveWriteRace(c)
  PROVE  Inv'
<1>0. UNCHANGED storeVars /\ UNCHANGED hinted /\ ScanKept /\ pc[c] \in Working
  BY DEF ResolveWriteRace, ScanKept, scanVars, setting, Working
<1>1. ASSUME NEW o \in ByRef(object, ref[c]), TakeExisting(c, o)
      PROVE  Inv'
  BY <1>0, <1>1, TakeExistingStep
<1>2. CASE Finish(c, "refused")
  BY <1>0, <1>2, FinishStep
<1> QED
  BY <1>1, <1>2 DEF ResolveWriteRace

\* A request that stops anywhere leaves its records behind.
LEMMA StopStep ==
  ASSUME Inv, NEW c \in Calls, Stop(c)
  PROVE  Inv'
  BY FinishStep DEF Stop, ScanKept, scanVars, setting

\* EnsureIntent files an intent where there is none, takes the one that matches,
\* or is refused.
LEMMA EnsureIntentStep ==
  ASSUME Inv, NEW c \in Calls, EnsureIntent(c)
  PROVE  Inv'
<1> DEFINE k == KeyOf[c]
           t == [ref |-> c, pre |-> pre[c], body |-> BodyOf[c]]
<1>0. /\ UNCHANGED <<object, history, completions>> /\ UNCHANGED hinted /\ ScanKept
      /\ k \in Keys
  BY Inputs DEF EnsureIntent, ScanKept, scanVars, setting
<1>1. CASE /\ intents[k] = {} /\ intents' = [intents EXCEPT ![k] = {t}]
           /\ ref' = [ref EXCEPT ![c] = c] /\ Goto(c, "lookup")
           /\ UNCHANGED <<pre, result>>
  <2>1. t \in Intents
    BY Inputs DEF Inv, CallsTyped, Intents
  <2>2. intents' \in [Keys -> SUBSET Intents] /\ intents'[k] = {t}
        /\ \A j \in Keys \ {k} : intents'[j] = intents[j]
    BY <1>0, <1>1, <2>1 DEF Inv, StoreTyped
  <2>3. HistoryGrows /\ IntentsGrow
    BY <1>0, <1>1, <2>2 DEF HistoryGrows, IntentsGrow
  <2>4. StoreTyped' /\ CallsTyped'
    BY <1>0, <1>1, <2>2 DEF Inv, StoreTyped, CallsTyped, Goto, Labels
  <2>5. Single'
    BY <1>0, <2>2, SMTT(30) DEF Inv, Single, AtMostOne, ScanKept
  <2>6. ObjectIsLast'
    BY <1>0, Zenon DEF Inv, ObjectIsLast, CommitOf
  <2>7. Chained'
    BY <1>0 DEF Inv, Chained, VersionOf
  <2>8. Intended'
    <3>1. \A j \in Keys : \A u \in intents'[j] : KeyOf[u.ref] = j
      BY <1>0, <2>2, SMTT(30) DEF Inv, Intended
    <3>2. ASSUME NEW i \in DOMAIN history, history[i].ref # Earlier
          PROVE  IntentOf(history[i].ref, history[i].pre, history[i].body)'
      <4>1. KeyOf[history[i].ref] \in Keys
        <5>1. history[i] \in Writes
          BY SMTT(30) DEF Inv, StoreTyped
        <5> QED
          BY <3>2, <5>1, Inputs DEF Writes, Refs
      <4>2. IntentOf(history[i].ref, history[i].pre, history[i].body)
        BY <3>2 DEF Inv, Intended
      <4> QED
        BY <1>0, <2>3, <4>1, <4>2 DEF IntentOf, IntentsGrow
    <3> QED
      BY <1>0, <3>1, <3>2 DEF Intended, IntentOf
  <2>9. OthersKept(c)
    BY <1>1 DEF Inv, CallsTyped, Goto, OthersKept, CallKept
  <2>10. CallOK(c)'
    <3>1. pc'[c] = "lookup" /\ ref'[c] = c /\ pre'[c] = pre[c]
      BY <1>1 DEF Inv, CallsTyped, Goto
    <3> QED
      BY <2>2, <3>1, SMTT(30) DEF CallOK, MatchesRequest
  <2> QED
    BY <1>0, <2>3, <2>4, <2>5, <2>6, <2>7, <2>8, <2>9, <2>10, DurableStays, CallMoves
<1>2. ASSUME NEW u \in intents[k], MatchesRequest(u, c),
             ref' = [ref EXCEPT ![c] = u.ref], Goto(c, "lookup"),
             UNCHANGED <<intents, pre, result>>
      PROVE  Inv'
  <2>1. u.ref \in Calls
    BY <1>0, <1>2, SMTT(30) DEF Inv, StoreTyped, Intents
  <2>2. CallsTyped'
    BY <1>2, <2>1 DEF Inv, CallsTyped, Goto, Labels
  <2>3. OthersKept(c)
    BY <1>2 DEF Inv, CallsTyped, Goto, OthersKept, CallKept
  <2>4. CallOK(c)'
    <3>1. pc'[c] = "lookup" /\ ref'[c] = u.ref /\ pre'[c] = pre[c]
      BY <1>2, <2>1 DEF Inv, CallsTyped, Goto
    <3> QED
      BY <1>2, <3>1 DEF CallOK, MatchesRequest
  <2>5. UNCHANGED storeVars
    BY <1>0, <1>2 DEF storeVars
  <2> QED
    BY <1>0, <2>2, <2>3, <2>4, <2>5, CallMovesAlone
<1>3. CASE Finish(c, "refused") /\ UNCHANGED intents
  BY <1>0, <1>3, FinishStep DEF storeVars
<1> QED
  BY <1>1, <1>2, <1>3 DEF EnsureIntent

\* An accepted put adds one write to the chain: made under the precondition of
\* the request's intent, over the state that precondition names.
LEMMA PutStep ==
  ASSUME Inv, NEW c \in Calls, pc[c] \in Working, Accepts(c), Put(c),
         UNCHANGED <<intents, completions>>, UNCHANGED rkey
  PROVE  /\ HistoryGrows
         /\ \E o \in Objects : object' = {o} /\ o.ref = ref[c]
         /\ (StoreTyped /\ Single /\ ObjectIsLast /\ Chained /\ Intended)'
<1> DEFINE n == Len(history) + 1
           o == [ref |-> ref[c], body |-> BodyOf[c], version |-> VersionOf(BodyOf[c], n)]
           e == [ref |-> ref[c], body |-> BodyOf[c], version |-> VersionOf(BodyOf[c], n),
                 pre |-> pre[c], over |-> pre[c]]
<1>1. object' = {o} /\ history' = Append(history, e)
  BY DEF Put, Accepts
<1>2. PICK t \in intents[KeyOf[c]] : t.ref = ref[c] /\ MatchesRequest(t, c)
  BY DEF Inv, CallsOK, CallOK
<1>3. KeyOf[c] \in Keys /\ BodyOf[c] \in Bodies
  BY Inputs
<1>4. ref[c] \in Calls /\ ref[c] # Earlier /\ KeyOf[ref[c]] = KeyOf[c]
  <2>1. t.ref \in Calls /\ KeyOf[t.ref] = KeyOf[c]
    BY <1>2, <1>3, SMTT(30) DEF Inv, StoreTyped, Intents, Intended
  <2> QED
    BY <1>2, <2>1, StylePublishAssumption
<1>5. n \in Nat /\ VersionOf(BodyOf[c], n) \in Versions
  BY <1>3, SMTT(30) DEF Inv, StoreTyped, VersionOf, Versions
<1>6. e \in Writes /\ o \in Objects
  BY <1>3, <1>4, <1>5 DEF Inv, CallsTyped, Writes, Objects, Refs
<1>7. /\ history' \in Seq(Writes) /\ Len(history') = n /\ DOMAIN history' = 1..n
      /\ history'[n] = e /\ n = Len(history) + 1
      /\ DOMAIN history = 1..Len(history) /\ Len(history) \in Nat
      /\ \A i \in DOMAIN history : history'[i] = history[i]
  BY <1>1, <1>6, SMTT(30) DEF Inv, StoreTyped
<1> HIDE DEF n, o, e
<1>8. HistoryGrows
  BY <1>7, SMTT(30) DEF HistoryGrows
<1>9. StoreTyped'
  BY <1>1, <1>6, <1>7 DEF Inv, StoreTyped
<1>10. Single'
  BY <1>1 DEF Inv, Single, AtMostOne
<1>11. ObjectIsLast'
  <2>1. \A x \in object' : x = o
    BY <1>1
  <2>2. o.ref = e.ref /\ CommitOf(o) = CommitOf(e)
    BY DEF o, e, CommitOf
  <2>3. Len(history') > 0 /\ history'[Len(history')] = e
    BY <1>7, SMTT(30)
  <2> QED
    BY <2>1, <2>2, <2>3 DEF ObjectIsLast, CommitOf
<1>12. Chained'
  <2> SUFFICES ASSUME NEW i \in 1..n
               PROVE  /\ history'[i].version = VersionOf(history'[i].body, i)
                      /\ history'[i].over = history'[i].pre
                      /\ history'[i].ref = Earlier => i = 1
                      /\ \A v \in history'[i].over :
                            i > 1 /\ v = history'[i - 1].version
    BY <1>7 DEF Chained, VersionOf
  <2>1. CASE i \in DOMAIN history
    <3>1. history'[i] = history[i] /\ (i > 1 => history'[i - 1] = history[i - 1])
      BY <1>7, <2>1, SMTT(30)
    <3>2. /\ history[i].version = VersionOf(history[i].body, i)
          /\ history[i].over = history[i].pre
          /\ history[i].ref = Earlier => i = 1
          /\ \A v \in history[i].over : i > 1 /\ v = history[i - 1].version
      BY <2>1 DEF Inv, Chained
    <3> QED
      BY <3>1, <3>2
  <2>2. CASE i = n
    <3>1. history'[i] = e
      BY <1>7, <2>2
    <3>2. /\ e.version = VersionOf(e.body, n) /\ e.over = e.pre
          /\ e.ref # Earlier /\ e.over = VersionsOf(object)
      BY <1>4 DEF e, Accepts
    <3>3. ASSUME NEW v \in VersionsOf(object)
          PROVE  n > 1 /\ v = history'[n - 1].version
      <4>1. PICK x \in object : x.version = v
        BY <3>3 DEF VersionsOf
      <4>2. Len(history) > 0 /\ CommitOf(x) = CommitOf(history[Len(history)])
        BY <4>1 DEF Inv, ObjectIsLast
      <4>3. x.version = history[Len(history)].version
        BY <4>2 DEF CommitOf
      <4>4. Len(history) \in DOMAIN history /\ n - 1 = Len(history) /\ n > 1
        BY <1>7, <4>2, SMTT(30)
      <4> QED
        BY <1>7, <4>1, <4>3, <4>4
    <3> QED
      BY <2>2, <3>1, <3>2, <3>3
  <2> QED
    BY <1>7, <2>1, <2>2, SMTT(30)
<1>13. Intended'
  <2>1. \A j \in Keys : \A u \in intents'[j] : KeyOf[u.ref] = j
    BY DEF Inv, Intended
  <2>2. ASSUME NEW i \in DOMAIN history', history'[i].ref # Earlier
        PROVE  IntentOf(history'[i].ref, history'[i].pre, history'[i].body)
    <3>1. CASE i \in DOMAIN history
      BY <1>7, <2>2, <3>1 DEF Inv, Intended
    <3>2. CASE i = n
      <4>1. IntentOf(ref[c], pre[c], BodyOf[c])
        BY <1>2, <1>4 DEF IntentOf, MatchesRequest
      <4> QED
        BY <1>7, <3>2, <4>1, SMTT(30) DEF e
    <3> QED
      BY <1>7, <2>2, <3>1, <3>2, SMTT(30)
  <2> QED
    BY <2>1, <2>2 DEF Intended, IntentOf
<1>14. o.ref = ref[c]
  BY DEF o
<1> QED
  BY <1>8, <1>9, <1>10, <1>11, <1>12, <1>13, <1>14, <1>1, <1>6

\* WriteStyle commits, or leaves the race to be resolved.
LEMMA WriteStyleStep ==
  ASSUME Inv, NEW c \in Calls, WriteStyle(c)
  PROVE  Inv'
<1>0. /\ UNCHANGED <<intents, completions>> /\ UNCHANGED hinted /\ ScanKept
      /\ pc[c] \in Working /\ UNCHANGED <<pre, ref>>
  BY DEF WriteStyle, ScanKept, scanVars, setting, Working
<1>1. PICK t \in intents[KeyOf[c]] : t.ref = ref[c] /\ MatchesRequest(t, c)
  BY <1>0 DEF Inv, CallsOK, CallOK
<1>2. KeyOf[c] \in Keys
  BY Inputs
<1>3. t \in intents'[KeyOf[c]] /\ t.ref = ref'[c] /\ MatchesRequest(t, c)'
  BY <1>0, <1>1 DEF MatchesRequest
<1>4. IntentsGrow
  BY <1>0 DEF IntentsGrow
<1>5. CASE Accepts(c) /\ Put(c)
  <2>0. UNCHANGED rkey
    BY <1>0 DEF ScanKept
  <2>1. /\ HistoryGrows
        /\ (StoreTyped /\ Single /\ ObjectIsLast /\ Chained /\ Intended)'
    BY <1>0, <1>5, <2>0, PutStep
  <2>2. PICK o \in Objects : object' = {o} /\ o.ref = ref[c]
    BY <1>0, <1>5, <2>0, PutStep
  <2>3. CASE result' = [result EXCEPT ![c] = {CommitOf(x) : x \in object'}]
             /\ Goto(c, "record")
    <3>0. {CommitOf(x) : x \in object'} = {CommitOf(o)}
      BY <2>2
    <3>1. CommitOf(o) \in Commits
      BY <2>2 DEF Objects, CommitOf, Commits
    <3>2. /\ pc' = [pc EXCEPT ![c] = "record"]
          /\ result' = [result EXCEPT ![c] = {CommitOf(o)}]
      BY <2>3, <3>0, Zenon DEF Goto
    <3>3. CallsTyped'
      BY <1>0, <3>1, <3>2 DEF Inv, CallsTyped, Labels
    <3>4. OthersKept(c)
      BY <1>0, <3>2 DEF Inv, CallsTyped, OthersKept, CallKept
    <3>5. pc'[c] = "record" /\ result'[c] = {CommitOf(o)}
      BY <3>2 DEF Inv, CallsTyped
    <3>6. Wrote(t.ref, CommitOf(o))'
      <4>1. /\ Len(history') > 0 /\ history'[Len(history')].ref = t.ref
            /\ CommitOf(history[Len(history)])' = CommitOf(o)
        BY <1>1, <2>1, <2>2 DEF ObjectIsLast, CommitOf
      <4>2. Len(history') \in DOMAIN history'
        BY <2>1, <4>1, SMTT(30) DEF StoreTyped
      <4> QED
        BY <4>1, <4>2 DEF Wrote, CommitOf
    <3>7. Recordable(KeyOf[c], result[c])'
      BY <1>3, <3>5, <3>6 DEF Recordable, AtMostOne, Wrote
    <3>8. CallOK(c)'
      BY <1>3, <3>5, <3>7 DEF CallOK
    <3> QED
      BY <1>0, <1>4, <2>1, <3>3, <3>4, <3>8, DurableStays, CallMoves
  <2>4. CASE UNCHANGED result /\ Goto(c, "race")
    <3>1. CallsTyped'
      BY <1>0, <2>4 DEF Inv, CallsTyped, Goto, Labels
    <3>2. OthersKept(c)
      BY <1>0, <2>4 DEF Inv, CallsTyped, Goto, OthersKept, CallKept
    <3>3. pc'[c] = "race"
      BY <2>4 DEF Inv, CallsTyped, Goto
    <3>4. CallOK(c)'
      BY <1>3, <3>3 DEF CallOK
    <3> QED
      BY <1>0, <1>4, <2>1, <3>1, <3>2, <3>4, DurableStays, CallMoves
  <2> QED
    BY <1>5, <2>3, <2>4 DEF WriteStyle
<1>6. CASE Goto(c, "race") /\ UNCHANGED <<object, history, result>>
  <2>1. CallsTyped'
    BY <1>0, <1>6 DEF Inv, CallsTyped, Goto, Labels
  <2>2. OthersKept(c)
    BY <1>0, <1>6 DEF Inv, CallsTyped, Goto, OthersKept, CallKept
  <2>3. pc'[c] = "race"
    BY <1>6 DEF Inv, CallsTyped, Goto
  <2>4. CallOK(c)'
    BY <1>3, <2>3 DEF CallOK
  <2>5. UNCHANGED storeVars
    BY <1>0, <1>6 DEF storeVars
  <2> QED
    BY <1>0, <2>1, <2>2, <2>4, <2>5, CallMovesAlone
<1> QED
  BY <1>5, <1>6 DEF WriteStyle

\* Recording for a key that has nothing else recorded: what is durable stays,
\* and stays a commit of its key's intent.
LEMMA RecordStep ==
  ASSUME Inv, NEW k \in Keys, NEW S, Recordable(k, S), S \subseteq Commits,
         completions[k] \in {{}, S}, completions' = [completions EXCEPT ![k] = S],
         UNCHANGED <<object, history, intents>>
  PROVE  /\ StoreTyped' /\ ObjectIsLast' /\ Chained' /\ Intended' /\ Durable'
         /\ HistoryGrows /\ IntentsGrow /\ CompletionsKept
         /\ \A j \in Keys : AtMostOne(intents'[j]) /\ AtMostOne(completions'[j])
<1>1. /\ completions' \in [Keys -> SUBSET Commits] /\ completions'[k] = S
      /\ \A j \in Keys \ {k} : completions'[j] = completions[j]
  BY DEF Inv, StoreTyped
<1>2. StoreTyped'
  BY <1>1 DEF Inv, StoreTyped
<1>3. ObjectIsLast'
  BY Zenon DEF Inv, ObjectIsLast, CommitOf
<1>4. Chained'
  BY DEF Inv, Chained, VersionOf
<1>5. Intended'
  BY DEF Inv, Intended, IntentOf
<1>6. HistoryGrows /\ IntentsGrow /\ CompletionsKept
  BY <1>1 DEF HistoryGrows, IntentsGrow, CompletionsKept
<1>7. Durable'
  <2> SUFFICES ASSUME NEW j \in Keys, completions'[j] # {}
               PROVE  Recordable(j, completions[j])'
    BY DEF Durable
  <2>1. Recordable(j, completions'[j])
    BY <1>1 DEF Inv, Durable
  <2>2. \A T : Recordable(j, T) => Recordable(j, T)'
    BY <1>6, RecordableKept
  <2> QED
    BY <2>1, <2>2 DEF Recordable
<1>8. \A j \in Keys : AtMostOne(intents'[j]) /\ AtMostOne(completions'[j])
  BY <1>1 DEF Inv, Single, Recordable, AtMostOne
<1> QED
  BY <1>2, <1>3, <1>4, <1>5, <1>6, <1>7, <1>8

\* RecordCompletion creates the completion, agrees with the one there, or fails.
LEMMA RecordCompletionStep ==
  ASSUME Inv, NEW c \in Calls, RecordCompletion(c)
  PROVE  Inv'
<1> DEFINE k == KeyOf[c]
<1>0. /\ UNCHANGED <<object, history, intents>> /\ UNCHANGED hinted /\ ScanKept
      /\ pc[c] = "record" /\ k \in Keys
  BY Inputs DEF RecordCompletion, ScanKept, scanVars, setting
<1>1. CASE /\ completions[k] \in {{}, result[c]}
           /\ completions' = [completions EXCEPT ![k] = result[c]]
           /\ Goto(c, "notify") /\ UNCHANGED <<pre, ref, result>>
  <2>1. Recordable(k, result[c]) /\ result[c] \subseteq Commits
    BY <1>0 DEF Inv, CallsOK, CallOK, CallsTyped
  <2>2. /\ (StoreTyped /\ ObjectIsLast /\ Chained /\ Intended /\ Durable)'
        /\ HistoryGrows /\ IntentsGrow /\ CompletionsKept
        /\ \A j \in Keys : AtMostOne(intents'[j]) /\ AtMostOne(completions'[j])
    BY <1>0, <1>1, <2>1, RecordStep, ZenonT(30)
  <2>3. Single'
    BY <1>0, <2>2 DEF Inv, Single, AtMostOne, ScanKept
  <2>4. CallsTyped'
    BY <1>1 DEF Inv, CallsTyped, Goto, Labels
  <2>5. OthersKept(c)
    BY <1>1 DEF Inv, CallsTyped, Goto, OthersKept, CallKept
  <2>6. CallOK(c)'
    <3>1. \E t \in intents[k] : t.ref = ref[c] /\ MatchesRequest(t, c)
      BY <1>0 DEF Inv, CallsOK, CallOK, Working
    <3>2. \E t \in intents'[k] : t.ref = ref'[c] /\ MatchesRequest(t, c)'
      BY <1>0, <1>1, <3>1 DEF MatchesRequest
    <3>3. pc'[c] = "notify" /\ result'[c] # {} /\ result'[c] = completions'[k]
      BY <1>0, <1>1, <2>1 DEF Inv, CallsTyped, StoreTyped, Goto, Recordable
    <3> QED
      BY <3>2, <3>3 DEF CallOK
  <2> QED
    BY <1>0, <2>2, <2>3, <2>4, <2>5, <2>6, CallMoves
<1>2. CASE Finish(c, "disagrees") /\ UNCHANGED completions
  BY <1>0, <1>2, FinishStep DEF storeVars
<1> QED
  BY <1>1, <1>2 DEF RecordCompletion

\* NotifyAndAnswer delivers hints of what is durable, and answers with it.
LEMMA NotifyStep ==
  ASSUME Inv, NEW c \in Calls, NotifyAndAnswer(c)
  PROVE  Inv'
<1>0. /\ UNCHANGED storeVars /\ ScanKept /\ pc[c] = "notify" /\ UNCHANGED result
      /\ pc' = [pc EXCEPT ![c] = "answered"] /\ pre' = [pre EXCEPT ![c] = {}]
      /\ ref' = [ref EXCEPT ![c] = NoRef] /\ KeyOf[c] \in Keys
  BY Inputs DEF NotifyAndAnswer, ScanKept, scanVars, setting
<1>1. PICK told \in SUBSET endpoints : hinted' = hinted \cup (told \X {KeyOf[c]})
  BY DEF NotifyAndAnswer
<1>2. result[c] # {} /\ result[c] = completions[KeyOf[c]]
  BY <1>0 DEF Inv, CallsOK, CallOK
<1>3. /\ (StoreTyped /\ ObjectIsLast /\ Chained /\ Intended)'
      /\ HistoryGrows /\ IntentsGrow /\ CompletionsKept
  BY <1>0, StoreStays
<1>4. Durable'
  BY <1>0, <1>3, DurableStays DEF storeVars
<1>5. Single'
  BY <1>0 DEF Inv, Single, AtMostOne, storeVars, ScanKept
<1>6. CallsTyped'
  BY <1>0 DEF Inv, CallsTyped, Labels
<1>7. ScanTyped'
  BY <1>0, <1>1 DEF Inv, ScanTyped, ScanKept
<1>8. CallsOK'
  <2> SUFFICES ASSUME NEW d \in Calls PROVE CallOK(d)'
    BY DEF CallsOK
  <2>1. CASE d = c
    <3>1. pc'[d] = "answered" /\ result'[d] = result[c]
      BY <1>0, <2>1 DEF Inv, CallsTyped
    <3> QED
      BY <1>0, <1>2, <2>1, <3>1 DEF CallOK, Working, storeVars
  <2>2. CASE d # c
    <3>1. CallKept(d) /\ CallOK(d)
      BY <1>0, <2>2 DEF CallKept, Inv, CallsOK, CallsTyped
    <3> QED
      BY <1>3, <3>1, CallStays
  <2> QED
    BY <2>1, <2>2
<1>9. HintedDurable'
  BY <1>0, <1>1, <1>2 DEF Inv, HintedDurable, storeVars
<1> QED
  BY <1>0, <1>3, <1>4, <1>5, <1>6, <1>7, <1>8, <1>9, ScanStays DEF Inv

-----------------------------------------------------------------------------
(* The steps of the reconciler and of the operator. *)

\* A step that moves no request and leaves the store alone.
LEMMA ScanMoves ==
  ASSUME Inv, UNCHANGED storeVars, UNCHANGED callVars, UNCHANGED hinted,
         ScanTyped', AtMostOne(rkey)', ScanOK'
  PROVE  Inv'
<1>1. /\ (StoreTyped /\ ObjectIsLast /\ Chained /\ Intended)'
      /\ HistoryGrows /\ IntentsGrow /\ CompletionsKept
  BY StoreStays
<1>2. Durable'
  BY <1>1, DurableStays DEF storeVars
<1>3. Single'
  BY DEF Inv, Single, AtMostOne, storeVars
<1>4. CallsTyped'
  BY DEF Inv, CallsTyped, callVars
<1>5. \A d \in Calls : CallKept(d)
  BY DEF CallKept, callVars
<1>6. CallsOK' /\ HintedDurable'
  BY <1>1, <1>5, CallsStay
<1> QED
  BY <1>1, <1>2, <1>3, <1>4, <1>6 DEF Inv

\* StartScan, FinishScan, Visit and ScanFails only move the reconciler about.
LEMMA ScanStep ==
  ASSUME Inv, StartScan \/ FinishScan \/ ScanFails \/ \E k \in Keys : Visit(k)
  PROVE  Inv'
<1>1. UNCHANGED storeVars /\ UNCHANGED callVars /\ UNCHANGED hinted
  BY DEF StartScan, FinishScan, ScanFails, Visit
<1>2. ScanTyped' /\ rpc' # "record" /\ AtMostOne(rkey)'
  <2> USE DEF Inv, ScanTyped, Single, AtMostOne, setting
  <2>1. CASE StartScan
    BY <2>1 DEF StartScan
  <2>2. CASE FinishScan
    BY <2>2 DEF FinishScan
  <2>3. CASE ScanFails
    BY <2>3, SMTT(30) DEF ScanFails
  <2>4. ASSUME NEW k \in Keys, Visit(k)
        PROVE  ScanTyped' /\ rpc' # "record" /\ AtMostOne(rkey)'
    BY <2>4 DEF Visit
  <2> QED
    BY <2>1, <2>2, <2>3, <2>4
<1>3. ScanOK'
  BY <1>2 DEF ScanOK
<1> QED
  BY <1>1, <1>2, <1>3, ScanMoves

\* ReconcileState takes only an object that carries the intent's reference.
LEMMA ReconcileStateStep ==
  ASSUME Inv, NEW k \in Keys, ReconcileState(k)
  PROVE  Inv'
<1> DEFINE mine == UNION {ByRef(object, t.ref) : t \in intents[k]}
<1>0. /\ UNCHANGED storeVars /\ UNCHANGED callVars /\ UNCHANGED hinted
      /\ UNCHANGED <<todo, scanErrors, endpoints, removals>> /\ rkey = {k}
      /\ rresult' = {CommitOf(o) : o \in mine}
      /\ rpc' = (IF mine # {} THEN "record" ELSE "visit")
      /\ rkey' = (IF mine # {} THEN rkey ELSE {})
  BY DEF ReconcileState, setting
<1>1. mine \subseteq object /\ \A o \in mine : \E t \in intents[k] : o.ref = t.ref
  BY DEF ByRef
<1> HIDE DEF mine
<1>2. \A o \in object : CommitOf(o) \in Commits
  BY DEF Inv, StoreTyped, Objects, CommitOf, Commits
<1>3. ScanTyped'
  <2>1. rresult' \subseteq Commits
    BY <1>0, <1>1, <1>2
  <2> QED
    BY <1>0, <2>1 DEF Inv, ScanTyped
<1>4. AtMostOne(rkey)'
  BY <1>0 DEF AtMostOne
<1>5. ScanOK'
  <2> SUFFICES ASSUME rpc' = "record", NEW j \in rkey'
               PROVE  Recordable(j, rresult)'
    BY DEF ScanOK
  <2>1. j = k /\ mine # {}
    BY <1>0
  <2>2. rresult' # {} /\ AtMostOne(rresult')
    BY <1>0, <1>1, <2>1, SMTT(30) DEF Inv, Single, AtMostOne
  <2>3. ASSUME NEW done \in rresult'
        PROVE  \E t \in intents[k] : Wrote(t.ref, done)
    <3>1. PICK o \in mine : done = CommitOf(o)
      BY <1>0, <2>3
    <3>2. PICK t \in intents[k] : o.ref = t.ref
      BY <1>1, <3>1
    <3>3. /\ Len(history) > 0 /\ history[Len(history)].ref = t.ref
          /\ CommitOf(history[Len(history)]) = done
      BY <1>1, <3>1, <3>2 DEF Inv, ObjectIsLast
    <3>4. Len(history) \in DOMAIN history
      BY <3>3, SMTT(30) DEF Inv, StoreTyped
    <3> QED
      BY <3>3, <3>4 DEF Wrote
  <2>4. Recordable(k, rresult')
    BY <2>2, <2>3 DEF Recordable
  <2>5. \A T : Recordable(k, T) => Recordable(k, T)'
    BY <1>0, StoreStays, RecordableKept
  <2> QED
    BY <2>1, <2>4, <2>5 DEF Recordable
<1> QED
  BY <1>0, <1>3, <1>4, <1>5, ScanMoves

\* ReconcileRecord creates the completion, agrees with it, or ends the scan.
LEMMA ReconcileRecordStep ==
  ASSUME Inv, NEW k \in Keys, ReconcileRecord(k)
  PROVE  Inv'
<1>0. /\ UNCHANGED <<object, history, intents>> /\ UNCHANGED callVars
      /\ UNCHANGED hinted /\ UNCHANGED <<scanErrors, endpoints, removals>>
      /\ rpc = "record" /\ rkey = {k} /\ rkey' = {} /\ rresult' = {}
      /\ rpc' \in {"visit", "idle"} /\ todo' \subseteq todo
  BY DEF ReconcileRecord, setting
<1>1. ScanTyped' /\ AtMostOne(rkey)' /\ ScanOK'
  BY <1>0 DEF Inv, ScanTyped, ScanOK, AtMostOne
<1>2. CASE completions[k] \in {{}, rresult}
  <2>1. completions' = [completions EXCEPT ![k] = rresult]
    BY <1>2 DEF ReconcileRecord
  <2>2. Recordable(k, rresult) /\ rresult \subseteq Commits
    BY <1>0 DEF Inv, ScanOK, ScanTyped
  <2>3. /\ (StoreTyped /\ ObjectIsLast /\ Chained /\ Intended /\ Durable)'
        /\ HistoryGrows /\ IntentsGrow /\ CompletionsKept
        /\ \A j \in Keys : AtMostOne(intents'[j]) /\ AtMostOne(completions'[j])
    BY <1>0, <1>2, <2>1, <2>2, RecordStep, ZenonT(30)
  <2>4. Single'
    BY <1>0, <1>1, <2>3 DEF Inv, Single, AtMostOne
  <2>5. CallsTyped'
    BY <1>0 DEF Inv, CallsTyped, callVars
  <2>6. \A d \in Calls : CallKept(d)
    BY <1>0 DEF CallKept, callVars
  <2>7. CallsOK' /\ HintedDurable'
    BY <1>0, <2>3, <2>6, CallsStay
  <2> QED
    BY <1>1, <2>3, <2>4, <2>5, <2>7 DEF Inv
<1>3. CASE completions[k] \notin {{}, rresult}
  <2>1. completions' = [completions EXCEPT ![k] = completions[k]]
    BY <1>3 DEF ReconcileRecord
  <2>2. UNCHANGED storeVars
    BY <1>0, <2>1 DEF Inv, StoreTyped, storeVars
  <2> QED
    BY <1>0, <1>1, <2>2, ScanMoves
<1> QED
  BY <1>2, <1>3

\* Remove deletes the object; the chain of writes and every record stay.
LEMMA RemoveStep ==
  ASSUME Inv, Remove
  PROVE  Inv'
<1>0. /\ object' = {} /\ UNCHANGED <<history, intents, completions>>
      /\ UNCHANGED callVars /\ UNCHANGED hinted /\ UNCHANGED endpoints
      /\ UNCHANGED <<rpc, todo, rkey, rresult, scanErrors>>
      /\ removals > 0 /\ removals' = removals - 1
  BY DEF Remove, scanVars
<1>1. StoreTyped' /\ CallsTyped' /\ ScanTyped'
  BY <1>0, SMTT(30) DEF Inv, StoreTyped, CallsTyped, ScanTyped, callVars
<1>2. Single' /\ ObjectIsLast'
  BY <1>0 DEF Inv, Single, AtMostOne, ObjectIsLast
<1>3. Chained'
  BY <1>0 DEF Inv, Chained, VersionOf
<1>4. Intended'
  BY <1>0 DEF Inv, Intended, IntentOf
<1>5. HistoryGrows /\ IntentsGrow
  BY <1>0 DEF HistoryGrows, IntentsGrow
<1>6. Durable' /\ CompletionsKept
  BY <1>0, <1>5, DurableStays
<1>7. \A d \in Calls : CallKept(d)
  BY <1>0 DEF CallKept, callVars
<1>8. CallsOK' /\ HintedDurable'
  BY <1>0, <1>5, <1>6, <1>7, CallsStay
<1>9. ScanOK'
  <2> SUFFICES ASSUME rpc' = "record", NEW k \in rkey'
               PROVE  Recordable(k, rresult)'
    BY DEF ScanOK
  <2>1. k \in Keys /\ Recordable(k, rresult)
    BY <1>0 DEF Inv, ScanOK, ScanTyped
  <2>2. \A T : Recordable(k, T) => Recordable(k, T)'
    BY <1>5, <2>1, RecordableKept
  <2> QED
    BY <1>0, <2>1, <2>2 DEF Recordable
<1> QED
  BY <1>1, <1>2, <1>3, <1>4, <1>6, <1>8, <1>9 DEF Inv
-----------------------------------------------------------------------------

\* A new style, or one published before.
LEMMA InitInv == Init => Inv
<1> SUFFICES ASSUME NEW s \in Scenarios, InitWith(s) PROVE Inv
  BY DEF Init
<1>0. /\ intents = [k \in Keys |-> {}] /\ completions = [k \in Keys |-> {}]
      /\ pc = [c \in Calls |-> IF c \in s.calls THEN "idle" ELSE "failed"]
      /\ pre = [c \in Calls |-> {}] /\ ref = [c \in Calls |-> NoRef]
      /\ result = [c \in Calls |-> {}] /\ hinted = {}
      /\ rpc = "idle" /\ todo = {} /\ rkey = {} /\ rresult = {}
      /\ removals \in Nat /\ scanErrors \in Nat
  BY StylePublishAssumption DEF InitWith
<1>1. CallsTyped /\ ScanTyped
  BY <1>0 DEF CallsTyped, ScanTyped, Labels
<1>2. CallsOK /\ ScanOK /\ Durable /\ HintedDurable
  BY <1>0 DEF CallsOK, CallOK, ScanOK, Durable, HintedDurable, Working
<1> DEFINE Started ==
             /\ object \subseteq Objects /\ history \in Seq(Writes)
             /\ AtMostOne(object) /\ ObjectIsLast /\ Chained
             /\ \A i \in DOMAIN history : history[i].ref = Earlier
<1>3. Started
  <2>1. CASE object = {} /\ history = <<>>
    <3>1. DOMAIN history = {} /\ history \in Seq(Writes)
      BY <2>1, SMTT(30)
    <3> QED
      BY <2>1, <3>1 DEF AtMostOne, ObjectIsLast, Chained
  <2>2. ASSUME NEW b \in Bodies,
               object = {[ref |-> Earlier, body |-> b, version |-> VersionOf(b, 1)]},
               history = <<[ref |-> Earlier, body |-> b, version |-> VersionOf(b, 1),
                            pre |-> {}, over |-> {}]>>
        PROVE  Started
    <3> DEFINE e == [ref |-> Earlier, body |-> b, version |-> VersionOf(b, 1),
                     pre |-> {}, over |-> {}]
               o == [ref |-> Earlier, body |-> b, version |-> VersionOf(b, 1)]
    <3>1. VersionOf(b, 1) \in Versions
      BY DEF VersionOf, Versions
    <3>2. e \in Writes /\ o \in Objects
      BY <3>1 DEF Writes, Objects, Refs
    <3>3. /\ history \in Seq(Writes) /\ Len(history) = 1 /\ DOMAIN history = {1}
          /\ history[1] = e
      BY <2>2, <3>2, SMTT(30)
    <3>4. object = {o} /\ o.ref = e.ref /\ CommitOf(o) = CommitOf(e)
      BY <2>2 DEF CommitOf
    <3>5. /\ e.version = VersionOf(e.body, 1) /\ e.over = e.pre /\ e.over = {}
          /\ e.ref = Earlier
      OBVIOUS
    <3> HIDE DEF e, o
    <3>6. ObjectIsLast
      BY <3>3, <3>4, SMTT(30) DEF ObjectIsLast
    <3>7. \A i \in DOMAIN history : i = 1 /\ history[i] = e
      BY <3>3
    <3>8. Chained
      BY <3>5, <3>7, Zenon DEF Chained
    <3>9. \A i \in DOMAIN history : history[i].ref = Earlier
      BY <3>5, <3>7
    <3>10. object \subseteq Objects /\ AtMostOne(object)
      BY <3>2, <3>4 DEF AtMostOne
    <3> QED
      BY <3>3, <3>6, <3>8, <3>9, <3>10
  <2>3. \/ object = {} /\ history = <<>>
        \/ \E b \in Bodies :
              /\ object = {[ref |-> Earlier, body |-> b, version |-> VersionOf(b, 1)]}
              /\ history = <<[ref |-> Earlier, body |-> b, version |-> VersionOf(b, 1),
                              pre |-> {}, over |-> {}]>>
    BY Zenon DEF InitWith
  <2> QED
    BY <2>1, <2>2, <2>3
<1>4. StoreTyped /\ Single /\ Intended
  BY <1>0, <1>3 DEF StoreTyped, Single, AtMostOne, Intended
<1> QED
  BY <1>1, <1>2, <1>3, <1>4 DEF Inv

\* Every step of a request, of the reconciler or of the operator keeps the
\* invariant.
LEMMA NextInv == Inv /\ [Next]_vars => Inv'
<1> SUFFICES ASSUME Inv, [Next]_vars PROVE Inv'
  OBVIOUS
<1>1. ASSUME NEW c \in Calls, PublishStyle(c) \/ Request(c) \/ Stop(c)
      PROVE  Inv'
  BY <1>1, PublishStyleStep, EnsureIntentStep, LookupStep, CommitStyleStep,
     WriteStyleStep, ResolveWriteRaceStep, RecordCompletionStep, NotifyStep,
     StopStep DEF Request
<1>2. CASE Reconcile \/ ScanFails
  BY <1>2, ScanStep, ReconcileStateStep, ReconcileRecordStep DEF Reconcile
<1>3. CASE Remove
  BY <1>3, RemoveStep
<1>4. CASE UNCHANGED vars
  <2>1. UNCHANGED storeVars /\ UNCHANGED callVars /\ UNCHANGED hinted /\ ScanKept
    BY <1>4 DEF vars, ScanKept, scanVars, setting
  <2>2. ScanTyped' /\ AtMostOne(rkey)'
    BY <2>1 DEF Inv, ScanTyped, Single, AtMostOne, ScanKept
  <2>3. ScanOK'
    BY <2>1, StoreStays, ScanStays
  <2> QED
    BY <2>1, <2>2, <2>3, ScanMoves
<1> QED
  BY <1>1, <1>2, <1>3, <1>4 DEF Next

\* The invariant holds in every state of every behaviour.
THEOREM Invariance == Spec => []Inv
  BY InitInv, NextInv, PTL DEF Spec

\* AppliedOnce, on a store whose evidence numbers its writes (an object version
\* or generation): however often a mutation is retried, its style is written
\* over an existing object once.  An ETag alone would not do: another
\* publication may bring the old content, and with it the old ETag, back.
THEOREM WritesAppliedOnce ==
  ASSUME Versioned = TRUE
  PROVE  Spec => []AppliedOnce
<1>1. ASSUME Inv PROVE AppliedOnce
  <2> SUFFICES ASSUME NEW i \in DOMAIN history, NEW j \in DOMAIN history,
                      i < j, history[i].ref = history[j].ref,
                      NEW v \in history[j].over
               PROVE  FALSE
    BY DEF AppliedOnce
  <2>1. DOMAIN history \subseteq Nat /\ history[i] \in Writes
    BY <1>1, SMTT(30) DEF Inv, StoreTyped
  <2>2. history[j].ref # Earlier
    BY <1>1, <2>1, SMTT(30) DEF Inv, Chained
  <2>3. KeyOf[history[i].ref] \in Keys
    BY <2>1, <2>2, Inputs DEF Writes, Refs
  <2>4. history[i].pre = history[j].pre
    <3>1. /\ IntentOf(history[i].ref, history[i].pre, history[i].body)
          /\ IntentOf(history[i].ref, history[j].pre, history[j].body)
      BY <1>1, <2>2 DEF Inv, Intended
    <3>2. AtMostOne(intents[KeyOf[history[i].ref]])
      BY <1>1, <2>3 DEF Inv, Single
    <3> QED
      BY <3>1, <3>2 DEF IntentOf, AtMostOne
  <2>5. /\ i > 1 /\ v = history[i - 1].version
        /\ j > 1 /\ v = history[j - 1].version
    BY <1>1, <2>4 DEF Inv, Chained
  <2>6. i - 1 \in DOMAIN history /\ j - 1 \in DOMAIN history
    BY <1>1, <2>1, <2>5, SMTT(30) DEF Inv, StoreTyped
  <2>7. /\ v = VersionOf(history[i - 1].body, i - 1)
        /\ v = VersionOf(history[j - 1].body, j - 1)
    <3>1. \A m \in DOMAIN history : history[m].version = VersionOf(history[m].body, m)
      BY <1>1 DEF Inv, Chained
    <3> QED
      BY <2>5, <2>6, <3>1, Zenon
  <2>8. v.version = i - 1 /\ v.version = j - 1
    BY <2>7, SMTT(30) DEF VersionOf
  <2> QED
    BY <2>1, <2>8, SMTT(30)
<1> QED
  BY <1>1, Invariance, PTL

\* The journal is append-only: an intent is never withdrawn or replaced, and a
\* completion that is durable never changes, whoever comes to record it.
JournalAppendOnly == [][IntentsGrow /\ CompletionsKept]_vars

THEOREM JournalIsAppendOnly == Spec => JournalAppendOnly
<1>1. ASSUME Inv, [Next]_vars
      PROVE  IntentsGrow /\ CompletionsKept
  <2>1. CASE UNCHANGED <<intents, completions>>
    BY <2>1 DEF IntentsGrow, CompletionsKept
  <2>2. ASSUME NEW c \in Calls, EnsureIntent(c)
        PROVE  IntentsGrow /\ CompletionsKept
    <3>1. CASE UNCHANGED intents
      BY <2>2, <3>1 DEF EnsureIntent, IntentsGrow, CompletionsKept
    <3>2. CASE /\ intents[KeyOf[c]] = {}
               /\ intents' = [intents EXCEPT ![KeyOf[c]] =
                     {[ref |-> c, pre |-> pre[c], body |-> BodyOf[c]]}]
      BY <1>1, <2>2, <3>2, Inputs
      DEF EnsureIntent, IntentsGrow, CompletionsKept, Inv, StoreTyped
    <3> QED
      BY <2>2, <3>1, <3>2 DEF EnsureIntent
  <2>3. ASSUME NEW c \in Calls, RecordCompletion(c)
        PROVE  IntentsGrow /\ CompletionsKept
    BY <1>1, <2>3, Inputs
    DEF RecordCompletion, IntentsGrow, CompletionsKept, Inv, StoreTyped
  <2>4. ASSUME NEW k \in Keys, ReconcileRecord(k)
        PROVE  IntentsGrow /\ CompletionsKept
    BY <1>1, <2>4
    DEF ReconcileRecord, IntentsGrow, CompletionsKept, Inv, StoreTyped
  <2>5. ASSUME NEW c \in Calls, PublishStyle(c) \/ LookupCompletion(c)
                 \/ CommitStyle(c) \/ ResolveWriteRace(c) \/ NotifyAndAnswer(c)
                 \/ Stop(c) \/ WriteStyle(c)
        PROVE  UNCHANGED <<intents, completions>>
    BY <2>5, Zenon DEF PublishStyle, LookupCompletion, CommitStyle, ResolveWriteRace,
       NotifyAndAnswer, Stop, WriteStyle, storeVars
  <2>6. ASSUME NEW k \in Keys, StartScan \/ FinishScan \/ ScanFails \/ Remove
                 \/ Visit(k) \/ ReconcileState(k)
        PROVE  UNCHANGED <<intents, completions>>
    BY <2>6, Zenon DEF StartScan, FinishScan, ScanFails, Remove, Visit,
       ReconcileState, storeVars
  <2>7. CASE UNCHANGED vars
    BY <2>7, <2>1 DEF vars, storeVars
  <2>8. CASE StartScan \/ FinishScan \/ ScanFails \/ Remove
    BY <2>8, <2>1 DEF StartScan, FinishScan, ScanFails, Remove, storeVars
  <2> QED
    BY <1>1, <2>1, <2>2, <2>3, <2>4, <2>5, <2>6, <2>7, <2>8
    DEF Next, Request, Reconcile
<1> QED
  BY <1>1, Invariance, PTL DEF Spec, JournalAppendOnly

INSTANCE FiniteSetTheorems

\* A set without two different elements has at most one.
LEMMA AtMostOneCardinality ==
  ASSUME NEW S, AtMostOne(S)
  PROVE  Cardinality(S) <= 1
<1>1. CASE S = {}
  BY <1>1, FS_EmptySet, SMTT(30)
<1>2. ASSUME NEW x \in S PROVE Cardinality(S) <= 1
  <2>1. S = {x}
    BY <1>2 DEF AtMostOne
  <2> QED
    <3>1. Cardinality(S) = 1
      BY <2>1, FS_Singleton, Zenon
    <3> QED
      BY <3>1, SMTT(30)
<1> QED
  BY <1>1, <1>2

\* RecordsTrue: completions, answers and hints tell only of writes that
\* happened, for the intent of their own key, however requests, retries, the
\* reconciler and failures interleave (ensure_intent, record_completion, notify).
THEOREM RecordsStayTrue == Spec => []RecordsTrue
<1>1. ASSUME Inv PROVE RecordsTrue
  <2>1. TypeOK
    <3>1. /\ Cardinality(object) <= 1 /\ Cardinality(rkey) <= 1
          /\ \A k \in Keys :
                Cardinality(intents[k]) <= 1 /\ Cardinality(completions[k]) <= 1
      BY <1>1, AtMostOneCardinality DEF Inv, Single
    <3>2. \A o \in object : o.ref \in Refs /\ CommitOf(o) \in Commits
      BY <1>1 DEF Inv, StoreTyped, Objects, CommitOf, Commits
    <3>3. ASSUME NEW i \in DOMAIN history
          PROVE  /\ history[i].ref \in Refs /\ CommitOf(history[i]) \in Commits
                 /\ history[i].pre \subseteq Versions
      <4>1. history[i] \in Writes
        BY <1>1, SMTT(30) DEF Inv, StoreTyped
      <4> QED
        BY <4>1 DEF Writes, CommitOf, Commits
    <3>4. /\ DOMAIN intents = Keys /\ DOMAIN completions = Keys
          /\ \A k \in Keys : /\ \A t \in intents[k] : t.ref \in Calls /\ t.body \in Bodies
                             /\ completions[k] \subseteq Commits
      BY <1>1, SMTT(30) DEF Inv, StoreTyped, Intents
    <3> QED
      BY <1>1, <3>1, <3>2, <3>3, <3>4 DEF Inv, TypeOK, CallsTyped, ScanTyped, Labels
  <2>2. CompletionTrue
    BY <1>1 DEF Inv, Durable, Recordable, Wrote, CompletionTrue
  <2>3. AnswersAgree /\ HintedDurable
    BY <1>1 DEF Inv, CallsOK, CallOK, AnswersAgree
  <2> QED
    BY <2>1, <2>2, <2>3 DEF RecordsTrue
<1> QED
  BY <1>1, Invariance, PTL

-----------------------------------------------------------------------------
(* The readers of a registry: what both keep true.                         *)

TaskStates == {"idle", "check", "begin", "follow", "lock", "get", "body"}
TaskType == [st : TaskStates, prev : Nat, got : Nat, began : Nat]
CacheType == [id : Nat, due : Nat, failing : BOOLEAN]

WorldTyped ==
    /\ sc \in RegistryType /\ now \in Nat
    /\ registry \in Nat /\ registry # 0 /\ registry <= Len(sc.versions)
    /\ since \in [1 .. Len(sc.versions) -> Nat]

CacheTyped ==
    cached \in CacheType /\ cached.id <= registry /\ (cached.id = 0 => cached = Nothing)

TasksTyped == req \in [Requests -> TaskType]

Works(x) == x.st \in {"get", "body"}

\* A refresh is not older than its timeout, and a version it has read was
\* replaced, if at all, after the refresh began.
InTime(x) ==
    /\ Works(x) => x.began <= now /\ now <= x.began + Timeout
    /\ x.st = "body" => /\ x.got # 0 /\ x.got <= registry
                        /\ x.got < registry => x.began <= since[x.got + 1]

TasksInTime == \A r \in Requests : InTime(req[r])

\* A snapshot whose refreshes do not fail is due one interval after the refresh
\* that found its version, at the latest.
CachedInTime ==
    cached.id # 0 /\ cached.failing = FALSE =>
       /\ cached.id = registry => cached.due <= now + Interval
       /\ cached.id < registry => cached.due <= since[cached.id + 1] + Interval + Timeout

ReaderOK ==
    /\ WorldTyped /\ CacheTyped /\ TasksTyped /\ TasksInTime /\ CachedInTime
    /\ served \in Nat

\* What a step promises of its answer.
AnswerSafe ==
    Answered => Rev(last') >= served /\ (Outlived => cached'.failing)

\* No request begins a refresh.
Calmer == \A q \in Requests : req'[q] = req[q] \/ ~Works(req'[q])

\* The registry and the clock rest; what is left to happen may be used up.
WorldRests == sc' \in RegistryType /\ sc'.versions = sc.versions /\ UNCHANGED <<now, registry, since>>

\* One thing less is left to happen.
LEMMA Spent ==
    ASSUME sc \in RegistryType,
           \/ sc' = sc
           \/ sc.requests > 0 /\ sc' = [sc EXCEPT !.requests = @ - 1]
           \/ sc.faults > 0 /\ sc' = [sc EXCEPT !.faults = @ - 1]
           \/ sc.cancels > 0 /\ sc' = [sc EXCEPT !.cancels = @ - 1]
           \/ sc.evictions > 0 /\ sc' = [sc EXCEPT !.evictions = @ - 1]
    PROVE  sc' \in RegistryType /\ sc'.versions = sc.versions
<1>1. CASE sc' = sc
    BY <1>1
<1>2. CASE sc.requests > 0 /\ sc' = [sc EXCEPT !.requests = @ - 1]
    <2>1. sc.requests \in Nat
        BY DEF RegistryType
    <2>2. sc.requests - 1 \in Nat
        BY <1>2, <2>1, SMTT(30)
    <2> QED
        BY <1>2, <2>2 DEF RegistryType
<1>3. CASE sc.faults > 0 /\ sc' = [sc EXCEPT !.faults = @ - 1]
    <2>1. sc.faults \in Nat
        BY DEF RegistryType
    <2>2. sc.faults - 1 \in Nat
        BY <1>3, <2>1, SMTT(30)
    <2> QED
        BY <1>3, <2>2 DEF RegistryType
<1>4. CASE sc.cancels > 0 /\ sc' = [sc EXCEPT !.cancels = @ - 1]
    <2>1. sc.cancels \in Nat
        BY DEF RegistryType
    <2>2. sc.cancels - 1 \in Nat
        BY <1>4, <2>1, SMTT(30)
    <2> QED
        BY <1>4, <2>2 DEF RegistryType
<1>5. CASE sc.evictions > 0 /\ sc' = [sc EXCEPT !.evictions = @ - 1]
    <2>1. sc.evictions \in Nat
        BY DEF RegistryType
    <2>2. sc.evictions - 1 \in Nat
        BY <1>5, <2>1, SMTT(30)
    <2> QED
        BY <1>5, <2>2 DEF RegistryType
<1> QED
    BY <1>1, <1>2, <1>3, <1>4, <1>5

\* The constants are durations.
LEMMA Durations == Interval \in Nat /\ Cooldown \in Nat /\ Timeout \in Nat /\ Horizon \in Nat
    BY RegistryAssumption

\* An element of a sequence.
LEMMA ElementOfSeq ==
    ASSUME NEW S, NEW s \in Seq(S), NEW i \in 1 .. Len(s)
    PROVE  s[i] \in S
    BY SMTT(30)

\* A version has a revision.
LEMMA RevTyped ==
    ASSUME WorldTyped, NEW id \in Nat, id <= registry
    PROVE  Rev(id) \in Nat
<1>1. CASE id = 0
    BY <1>1, SMTT(30) DEF Rev
<1>2. CASE id # 0
    <2>1. sc.versions \in Seq([rev : Nat, ok : BOOLEAN]) /\ id \in 1 .. Len(sc.versions)
        BY <1>2, SMTT(30) DEF WorldTyped, RegistryType
    <2>2. sc.versions[id] \in [rev : Nat, ok : BOOLEAN]
        BY <2>1, ElementOfSeq
    <2> QED
        BY <1>2, <2>2 DEF Rev
<1> QED
    BY <1>1, <1>2

\* The world stays well formed while it rests.
LEMMA WorldStays ==
    ASSUME WorldTyped, WorldRests
    PROVE  WorldTyped' /\ \A id : Rev(id)' = Rev(id)
    BY DEF WorldTyped, WorldRests, Rev

\* Tasks by their fields.
LEMMA TaskTyped ==
    ASSUME NEW st \in TaskStates, NEW prev \in Nat, NEW got \in Nat, NEW began \in Nat
    PROVE  Task(st, prev, got, began) \in TaskType
    BY DEF Task, TaskType

\* A task that does not refresh.
LEMMA AtTyped ==
    ASSUME NEW st \in {"idle", "check", "begin", "follow", "lock"}
    PROVE  At(st) \in TaskType /\ At(st).st = st /\ ~Works(At(st))
<1>1. st \in TaskStates /\ st \notin {"get", "body"} /\ 0 \in Nat
    BY SMTT(30) DEF TaskStates
<1>2. At(st).st = st
    BY DEF At, Task
<1> QED
    BY <1>1, <1>2, TaskTyped DEF At, Works

\* A snapshot by its fields.
LEMMA SnapshotTyped ==
    ASSUME NEW id \in Nat, NEW due \in Nat, NEW failing \in BOOLEAN
    PROVE  Snapshot(id, due, failing) \in CacheType
    BY DEF Snapshot, CacheType

\* One request moves.
LEMMA MoveEffect ==
    ASSUME TasksTyped, NEW r \in Requests, NEW t \in TaskType, Move(r, t)
    PROVE  TasksTyped' /\ req'[r] = t /\ \A q \in Requests \ {r} : req'[q] = req[q]
<1>1. req' = [req EXCEPT ![r] = t] /\ req \in [Requests -> TaskType]
    BY DEF Move, TasksTyped
<1>2. req' \in [Requests -> TaskType]
    BY <1>1
<1>3. req'[r] = t /\ \A q \in Requests \ {r} : req'[q] = req[q]
    BY <1>1
<1> QED
    BY <1>2, <1>3 DEF TasksTyped

\* One request moves to where it does not refresh.
LEMMA RestEffect ==
    ASSUME TasksTyped, NEW r \in Requests, NEW st \in {"idle", "check", "begin", "follow", "lock"},
           Move(r, At(st))
    PROVE  /\ TasksTyped' /\ Calmer /\ req'[r].st = st
           /\ \A q \in Requests \ {r} : req'[q] = req[q]
<1>1. At(st) \in TaskType /\ At(st).st = st /\ ~Works(At(st))
    BY AtTyped
<1>2. TasksTyped' /\ req'[r] = At(st) /\ \A q \in Requests \ {r} : req'[q] = req[q]
    BY <1>1, MoveEffect
<1> QED
    BY <1>1, <1>2 DEF Calmer

\* The refreshes that go on are still in time.
LEMMA TasksStay ==
    ASSUME TasksInTime, WorldRests, Calmer
    PROVE  TasksInTime'
<1> SUFFICES ASSUME NEW q \in Requests
             PROVE  InTime(req[q])'
    BY DEF TasksInTime
<1>1. CASE req'[q] = req[q]
    BY <1>1 DEF TasksInTime, InTime, WorldRests, Works
<1>2. CASE ~Works(req'[q])
    BY <1>2 DEF InTime, Works
<1> QED
    BY <1>1, <1>2 DEF Calmer

\* So is the snapshot.
LEMMA CacheStays ==
    ASSUME CacheTyped, CachedInTime, WorldRests, cached' = cached
    PROVE  CacheTyped' /\ CachedInTime'
    BY DEF CacheTyped, CachedInTime, WorldRests, Nothing, Snapshot

\* A snapshot of the object's version is due in time.
LEMMA RenewedInTime ==
    ASSUME WorldTyped, WorldRests, NEW id \in Nat, id # 0, id <= registry,
           id < registry => now <= since[id + 1] + Timeout,
           cached' = Snapshot(id, now + Interval, FALSE)
    PROVE  CacheTyped' /\ CachedInTime' /\ cached'.id = id /\ cached'.failing = FALSE
<1>1. cached'.id = id /\ cached'.due = now + Interval /\ cached'.failing = FALSE
    BY DEF Snapshot
<1>2. now \in Nat /\ now + Interval \in Nat
    BY Durations, SMTT(30) DEF WorldTyped
<1>3. cached' \in CacheType
    BY <1>2, SnapshotTyped
<1>4. CacheTyped'
    BY <1>1, <1>3 DEF CacheTyped, WorldRests
<1>5. id = registry => now + Interval <= now + Interval
    BY <1>2, SMTT(30)
<1>6. id < registry => now + Interval <= since[id + 1] + Interval + Timeout
    <2> SUFFICES ASSUME id < registry
                 PROVE  now + Interval <= since[id + 1] + Interval + Timeout
        OBVIOUS
    <2>1. id + 1 \in 1 .. Len(sc.versions)
        BY SMTT(30) DEF WorldTyped, RegistryType
    <2>2. since[id + 1] \in Nat
        BY <2>1 DEF WorldTyped
    <2> QED
        BY <1>2, <2>2, Durations, SMTT(30)
<1> QED
    BY <1>1, <1>4, <1>5, <1>6 DEF CachedInTime, WorldRests

\* What an answer does to the greatest revision.
LEMMA CountedFacts ==
    ASSUME WorldTyped, served \in Nat, NEW id \in Nat, id <= registry, Counted(id)
    PROVE  /\ last' = id /\ served' \in Nat /\ served' >= served /\ Rev(id) \in Nat
           /\ \A n \in Nat : served <= n /\ Rev(id) <= n => served' <= n
<1>1. Rev(id) \in Nat
    BY RevTyped
<1>2. last' = id /\ served' = IF served < Rev(id) THEN Rev(id) ELSE served
    BY DEF Counted, Later
<1> QED
    BY <1>1, <1>2, SMTT(30)

\* A step that makes no request idle answers none, nor does a refusal.
LEMMA NoAnswer ==
    ASSUME last' = 0 \/ \A q \in Requests : req'[q].st = "idle" => req[q].st = "idle"
    PROVE  AnswerSafe
    BY DEF AnswerSafe, Answered

\* A task that works has begun; one that has read a version has read one that is
\* not outlived yet.
LEMMA BodyInTime ==
    ASSUME WorldTyped, TasksTyped, TasksInTime, NEW r \in Requests, req[r].st = "body"
    PROVE  /\ req[r].got \in Nat /\ req[r].got # 0 /\ req[r].got <= registry
           /\ req[r].got < registry => now <= since[req[r].got + 1] + Timeout
<1>1. req[r].got \in Nat /\ req[r].began \in Nat
    BY DEF TasksTyped, TaskType
<1>2. /\ req[r].began <= now /\ now <= req[r].began + Timeout
      /\ req[r].got # 0 /\ req[r].got <= registry
      /\ req[r].got < registry => req[r].began <= since[req[r].got + 1]
    BY DEF TasksInTime, InTime, Works
<1>3. ASSUME req[r].got < registry
      PROVE  now <= since[req[r].got + 1] + Timeout
    <2>1. req[r].got + 1 \in 1 .. Len(sc.versions)
        BY <1>1, <1>3, SMTT(30) DEF WorldTyped, RegistryType
    <2>2. since[req[r].got + 1] \in Nat /\ now \in Nat
        BY <2>1 DEF WorldTyped
    <2> QED
        BY <1>1, <1>2, <1>3, <2>2, Durations, SMTT(30)
<1> QED
    BY <1>1, <1>2, <1>3

\* A version found within the timeout is not outlived.
LEMMA RecentNotOutlived ==
    ASSUME WorldTyped, NEW id \in Nat, id <= registry, last' = id,
           id < registry => now <= since[id + 1] + Timeout
    PROVE  ~Outlived
<1> SUFFICES ASSUME id < registry
             PROVE  ~(since[id + 1] + Interval + Timeout < now)
    BY DEF Outlived
<1>1. id + 1 \in 1 .. Len(sc.versions)
    BY SMTT(30) DEF WorldTyped, RegistryType
<1>2. since[id + 1] \in Nat /\ now \in Nat
    BY <1>1 DEF WorldTyped
<1> QED
    BY <1>2, Durations, SMTT(30)

\* A snapshot that is not due is not outlived, unless its refreshes fail.
LEMMA FreshNotOutlived ==
    ASSUME ReaderOK, cached.due > now, last' = cached.id, cached' = cached
    PROVE  Answered /\ Outlived => cached'.failing
<1> SUFFICES ASSUME last' # 0, Outlived, cached.failing = FALSE
             PROVE  FALSE
    BY DEF Answered, ReaderOK, CacheTyped, CacheType
<1>1. cached.id \in Nat /\ cached.due \in Nat /\ now \in Nat /\ cached.id < registry
    BY DEF ReaderOK, CacheTyped, CacheType, WorldTyped, Outlived
<1>2. cached.id + 1 \in 1 .. Len(sc.versions)
    BY <1>1, SMTT(30) DEF ReaderOK, WorldTyped, RegistryType
<1>3. since[cached.id + 1] \in Nat
    BY <1>2 DEF ReaderOK, WorldTyped
<1>4. cached.due <= since[cached.id + 1] + Interval + Timeout
    BY <1>1 DEF ReaderOK, CachedInTime
<1>5. since[cached.id + 1] + Interval + Timeout < now
    BY DEF Outlived
<1> QED
    BY <1>1, <1>3, <1>4, <1>5, Durations, SMTT(30)

\* A request comes.
LEMMA ArriveEffect ==
    ASSUME ReaderOK, NEW r \in Requests, Arrive(r)
    PROVE  /\ WorldRests /\ TasksTyped' /\ Calmer /\ AnswerSafe
           /\ UNCHANGED <<cached, served>>
<1>1. WorldRests
    BY Spent DEF Arrive, WorldRests, ReaderOK, WorldTyped
<1>2. /\ TasksTyped' /\ Calmer /\ req'[r].st = "check"
      /\ \A q \in Requests \ {r} : req'[q] = req[q]
    BY RestEffect DEF Arrive, ReaderOK
<1>3. "check" # "idle"
    BY SMTT(30)
<1> QED
    BY <1>1, <1>2, <1>3, NoAnswer DEF Arrive

\* The object's bytes arrive, of the version it holds.
LEMMA ReadEffect ==
    ASSUME ReaderOK, NEW r \in Requests, Works(req[r]), Read(r)
    PROVE  /\ ReaderOK' /\ AnswerSafe /\ Works(req'[r]) /\ req'[r].prev = req[r].prev
           /\ \A q \in Requests \ {r} : req'[q] = req[q]
           /\ UNCHANGED <<sc, now, registry, since, cached, served>>
<1>1. PICK t : t = Task("body", req[r].prev, registry, req[r].began)
    OBVIOUS
<1>2. /\ t \in TaskType /\ t.st = "body" /\ t.prev = req[r].prev /\ t.got = registry
      /\ t.began = req[r].began
    <2>1. "body" \in TaskStates
        BY SMTT(30) DEF TaskStates
    <2>2. req[r].prev \in Nat /\ req[r].began \in Nat /\ registry \in Nat
        BY DEF ReaderOK, TasksTyped, TaskType, WorldTyped
    <2>3. t \in TaskType
        BY <1>1, <2>1, <2>2, TaskTyped
    <2> QED
        BY <1>1, <2>3 DEF Task
<1>3. /\ TasksTyped' /\ req'[r] = t /\ \A q \in Requests \ {r} : req'[q] = req[q]
      /\ UNCHANGED <<sc, now, registry, since, cached, served, last>>
    BY <1>1, <1>2, MoveEffect DEF Read, ReaderOK
<1>4. TasksInTime'
    <2> SUFFICES ASSUME NEW q \in Requests
                 PROVE  InTime(req[q])'
        BY DEF TasksInTime
    <2>1. CASE q = r
        <3>1. t.began <= now /\ now <= t.began + Timeout
            BY <1>2 DEF ReaderOK, TasksInTime, InTime
        <3>2. registry # 0 /\ registry <= registry /\ ~(registry < registry)
            BY SMTT(30) DEF ReaderOK, WorldTyped
        <3> QED
            BY <1>2, <1>3, <2>1, <3>1, <3>2 DEF InTime
    <2>2. CASE q # r
        BY <1>3, <2>2 DEF ReaderOK, TasksInTime, InTime, Works
    <2> QED
        BY <2>1, <2>2
<1>5. WorldTyped' /\ CacheTyped' /\ CachedInTime' /\ served' \in Nat
    BY <1>3 DEF ReaderOK, WorldTyped, CacheTyped, CachedInTime, Nothing, Snapshot
<1>6. AnswerSafe
    <2>1. "body" # "idle"
        BY SMTT(30)
    <2> QED
        BY <1>2, <1>3, <2>1, NoAnswer
<1> QED
    BY <1>2, <1>3, <1>4, <1>5, <1>6 DEF ReaderOK, Works

\* The object is replaced.
LEMMA WriteEffect ==
    ASSUME ReaderOK, WriteRegistry
    PROVE  /\ ReaderOK' /\ AnswerSafe /\ registry <= registry'
           /\ UNCHANGED <<sc, cached, req, served>>
<1>1. /\ registry < Len(sc.versions) /\ registry' = registry + 1
      /\ since' = [since EXCEPT ![registry + 1] = now]
      /\ UNCHANGED <<sc, now, cached, retry, req, last, served>>
    BY DEF WriteRegistry
<1>2. /\ registry \in Nat /\ registry # 0 /\ now \in Nat /\ Len(sc.versions) \in Nat
      /\ since \in [1 .. Len(sc.versions) -> Nat] /\ sc \in RegistryType
    <2>1. sc.versions \in Seq([rev : Nat, ok : BOOLEAN])
        BY DEF ReaderOK, WorldTyped, RegistryType
    <2>2. Len(sc.versions) \in Nat
        BY <2>1, SMTT(30)
    <2> QED
        BY <2>2 DEF ReaderOK, WorldTyped
<1>3. /\ registry + 1 \in Nat /\ registry + 1 # 0 /\ registry + 1 <= Len(sc.versions)
      /\ registry + 1 \in 1 .. Len(sc.versions) /\ registry <= registry + 1
    BY <1>1, <1>2, SMTT(30)
<1>4. since' \in [1 .. Len(sc.versions) -> Nat] /\ since'[registry + 1] = now
    BY <1>1, <1>2, <1>3
<1>5. WorldTyped'
    BY <1>1, <1>2, <1>3, <1>4 DEF WorldTyped
<1>6. \A id \in Nat : id < registry => since'[id + 1] = since[id + 1] /\ since[id + 1] \in Nat
    <2> SUFFICES ASSUME NEW id \in Nat, id < registry
                 PROVE  since'[id + 1] = since[id + 1] /\ since[id + 1] \in Nat
        OBVIOUS
    <2>1. id + 1 # registry + 1 /\ id + 1 \in 1 .. Len(sc.versions)
        BY <1>1, <1>2, SMTT(30)
    <2> QED
        BY <1>1, <1>2, <2>1
<1>7. TasksInTime'
    <2> SUFFICES ASSUME NEW q \in Requests
                 PROVE  InTime(req[q])'
        BY DEF TasksInTime
    <2>1. PICK x \in TaskType : x = req[q]
        BY DEF ReaderOK, TasksTyped
    <2>2. x.got \in Nat /\ x.began \in Nat
        BY DEF TaskType
    <2>3. /\ Works(x) => x.began <= now /\ now <= x.began + Timeout
          /\ x.st = "body" => /\ x.got # 0 /\ x.got <= registry
                              /\ x.got < registry => x.began <= since[x.got + 1]
        BY <2>1 DEF ReaderOK, TasksInTime, InTime
    <2>4. x.st = "body" => /\ x.got # 0 /\ x.got <= registry + 1
                           /\ x.got < registry + 1 => x.began <= since'[x.got + 1]
        <3> SUFFICES ASSUME x.st = "body"
                     PROVE  /\ x.got # 0 /\ x.got <= registry + 1
                            /\ x.got < registry + 1 => x.began <= since'[x.got + 1]
            OBVIOUS
        <3>1. Works(x)
            BY DEF Works
        <3>2. x.got <= registry + 1 /\ (x.got < registry \/ x.got = registry)
            BY <1>2, <2>2, <2>3, SMTT(30)
        <3>3. CASE x.got < registry
            BY <1>6, <2>2, <2>3, <3>2, <3>3
        <3>4. CASE x.got = registry
            BY <1>4, <2>3, <3>1, <3>2, <3>4
        <3> QED
            BY <3>2, <3>3, <3>4
    <2> QED
        BY <1>1, <2>1, <2>3, <2>4 DEF InTime, Works
<1>8. cached.id \in Nat /\ cached.due \in Nat /\ cached.id <= registry /\ cached \in CacheType
    BY DEF ReaderOK, CacheTyped, CacheType
<1>9. CacheTyped'
    <2>1. cached.id <= registry + 1
        BY <1>2, <1>8, SMTT(30)
    <2> QED
        BY <1>1, <1>8, <2>1 DEF ReaderOK, CacheTyped, Nothing, Snapshot
<1>10. CachedInTime'
    <2> SUFFICES ASSUME cached.id # 0, cached.failing = FALSE
                 PROVE  /\ cached.id = registry + 1 => cached.due <= now + Interval
                        /\ cached.id < registry + 1 =>
                              cached.due <= since'[cached.id + 1] + Interval + Timeout
        BY <1>1 DEF CachedInTime
    <2>1. cached.id # registry + 1 /\ (cached.id < registry \/ cached.id = registry)
        BY <1>2, <1>8, SMTT(30)
    <2>2. CASE cached.id < registry
        BY <1>6, <1>8, <2>1, <2>2 DEF ReaderOK, CachedInTime
    <2>3. CASE cached.id = registry
        <3>1. cached.due <= now + Interval
            BY <2>3 DEF ReaderOK, CachedInTime
        <3>2. cached.due <= now + Interval + Timeout
            BY <1>2, <1>8, <3>1, Durations, SMTT(30)
        <3> QED
            BY <1>4, <2>1, <2>3, <3>2
    <2> QED
        BY <2>1, <2>2, <2>3
<1>11. AnswerSafe
    BY <1>1, NoAnswer
<1> QED
    BY <1>1, <1>3, <1>5, <1>7, <1>9, <1>10, <1>11 DEF ReaderOK, TasksTyped

\* Time passes.
LEMMA ElapseEffect ==
    ASSUME ReaderOK, Elapse
    PROVE  /\ ReaderOK' /\ AnswerSafe
           /\ UNCHANGED <<sc, registry, cached, req, served>>
<1>1. /\ now' = now + 1 /\ \A r \in Requests : Works(req[r]) => now < req[r].began + Timeout
      /\ UNCHANGED <<sc, registry, since, cached, retry, req, last, served>>
    BY DEF Elapse, Refreshing, Works
<1>2. now \in Nat /\ now + 1 \in Nat
    BY SMTT(30) DEF ReaderOK, WorldTyped
<1>3. WorldTyped' /\ CacheTyped' /\ TasksTyped' /\ served' \in Nat
    BY <1>1, <1>2 DEF ReaderOK, WorldTyped, CacheTyped, TasksTyped, Nothing, Snapshot
<1>4. TasksInTime'
    <2> SUFFICES ASSUME NEW q \in Requests
                 PROVE  InTime(req[q])'
        BY DEF TasksInTime
    <2>1. PICK x \in TaskType : x = req[q]
        BY DEF ReaderOK, TasksTyped
    <2>2. x.began \in Nat
        BY DEF TaskType
    <2>3. Works(x) => x.began <= now /\ now < x.began + Timeout
        BY <1>1, <2>1 DEF ReaderOK, TasksInTime, InTime
    <2>4. Works(x) => x.began <= now + 1 /\ now + 1 <= x.began + Timeout
        BY <1>2, <2>2, <2>3, Durations, SMTT(30)
    <2>5. x.st = "body" => /\ x.got # 0 /\ x.got <= registry
                           /\ x.got < registry => x.began <= since[x.got + 1]
        BY <2>1 DEF ReaderOK, TasksInTime, InTime
    <2> QED
        BY <1>1, <2>1, <2>4, <2>5 DEF InTime, Works
<1>5. CachedInTime'
    <2>1. cached.due \in Nat
        BY DEF ReaderOK, CacheTyped, CacheType
    <2>2. cached.due <= now + Interval => cached.due <= (now + 1) + Interval
        BY <1>2, <2>1, Durations, SMTT(30)
    <2> QED
        BY <1>1, <2>2 DEF ReaderOK, CachedInTime
<1>6. AnswerSafe
    BY <1>1, NoAnswer
<1> QED
    BY <1>1, <1>3, <1>4, <1>5, <1>6 DEF ReaderOK

\* A reader starts with nothing.
LEMMA ReaderStart == ReaderInit => ReaderOK /\ cached.id = 0 /\ cached.failing = FALSE /\ served = 0
<1> SUFFICES ASSUME ReaderInit
             PROVE  ReaderOK /\ cached.id = 0 /\ cached.failing = FALSE /\ served = 0
    OBVIOUS
<1>1. cached = Nothing /\ cached.id = 0 /\ cached.due = 0 /\ cached.failing = FALSE /\ served = 0
    BY DEF ReaderInit, Nothing, Snapshot
<1>2. 0 \in Nat /\ 1 \in Nat /\ 1 # 0 /\ 0 <= 1
    BY SMTT(30)
<1>3. sc \in RegistryType /\ 1 <= Len(sc.versions) /\ DOMAIN sc.versions = 1 .. Len(sc.versions)
    <2>1. sc \in RegistryType /\ Len(sc.versions) >= 1
        BY RegistryAssumption DEF ReaderInit
    <2>2. sc.versions \in Seq([rev : Nat, ok : BOOLEAN])
        BY <2>1 DEF RegistryType
    <2> QED
        BY <2>1, <2>2, SMTT(30)
<1>4. since \in [1 .. Len(sc.versions) -> Nat]
    BY <1>2, <1>3 DEF ReaderInit
<1>5. WorldTyped
    BY <1>2, <1>3, <1>4 DEF WorldTyped, ReaderInit
<1>6. CacheTyped
    <2>1. cached \in CacheType
        BY <1>1, <1>2, SnapshotTyped DEF Nothing
    <2> QED
        BY <1>1, <1>2, <2>1 DEF CacheTyped, ReaderInit
<1>7. At("idle") \in TaskType /\ ~Works(At("idle"))
    BY AtTyped
<1>8. TasksTyped /\ \A r \in Requests : ~Works(req[r])
    BY <1>7 DEF TasksTyped, ReaderInit
<1>9. TasksInTime
    BY <1>8 DEF TasksInTime, InTime, Works
<1>10. CachedInTime
    BY <1>1 DEF CachedInTime
<1> QED
    BY <1>1, <1>2, <1>5, <1>6, <1>8, <1>9, <1>10 DEF ReaderOK

-----------------------------------------------------------------------------
(* Delivery: the cache may forget a snapshot, installed_revisions does not, *)
(* and there is one leader.                                                 *)

\* At most one request refreshes, from what is installed.
LeaderOK ==
    \A q \in Requests :
       Works(req[q]) => /\ req[q].prev \in {0, installed}
                        /\ \A r \in Requests : Works(req[r]) => q = r

\* Nothing newer than what is installed was served, and nothing else is cached.
InstalledOK ==
    /\ installed \in Nat /\ installed <= registry
    /\ served <= Rev(installed)
    /\ cached.id \in {0, installed}

DeliveryInv == ReaderOK /\ InstalledOK /\ LeaderOK

\* Delivery starts with nothing installed.
LEMMA DeliveryStart == DeliveryInit => DeliveryInv
<1> SUFFICES ASSUME DeliveryInit
             PROVE  DeliveryInv
    OBVIOUS
<1>1. ReaderOK /\ cached.id = 0 /\ served = 0 /\ installed = 0
    BY ReaderStart DEF DeliveryInit
<1>2. 0 \in Nat /\ 0 <= registry /\ 0 <= 0
    BY <1>1, SMTT(30) DEF ReaderOK, WorldTyped
<1>3. InstalledOK
    BY <1>1, <1>2 DEF InstalledOK, Rev
<1>4. ~Works(At("idle"))
    BY AtTyped
<1>5. LeaderOK
    BY <1>4 DEF LeaderOK, DeliveryInit, ReaderInit
<1> QED
    BY <1>1, <1>3, <1>5 DEF DeliveryInv

\* The leader's end.
LEMMA LeaderEndsEffect ==
    ASSUME TasksTyped, NEW r \in Requests, NEW id, NEW error \in BOOLEAN, LeaderEnds(r, id, error)
    PROVE  TasksTyped' /\ Calmer /\ req'[r].st = "idle" /\ Counted(id)
<1>1. /\ At("idle") \in TaskType /\ At("idle").st = "idle" /\ ~Works(At("idle"))
      /\ At("check") \in TaskType /\ ~Works(At("check"))
    BY AtTyped
<1>2. At(IF error THEN "idle" ELSE "check") \in TaskType /\ ~Works(At(IF error THEN "idle" ELSE "check"))
    BY <1>1
<1>3. \A q \in Requests :
         req'[q] = IF q = r THEN At("idle")
                   ELSE IF req[q].st = "follow" THEN At(IF error THEN "idle" ELSE "check")
                   ELSE req[q]
    BY DEF LeaderEnds
<1>4. \A q \in Requests : req'[q] \in TaskType /\ (req'[q] = req[q] \/ ~Works(req'[q]))
    BY <1>1, <1>2, <1>3 DEF TasksTyped
<1>5. req' = [q \in Requests |->
                IF q = r THEN At("idle")
                ELSE IF req[q].st = "follow" THEN At(IF error THEN "idle" ELSE "check")
                ELSE req[q]]
    BY DEF LeaderEnds
<1>6. req' \in [Requests -> TaskType]
    BY <1>1, <1>2, <1>5 DEF TasksTyped
<1> QED
    BY <1>1, <1>3, <1>4, <1>6 DEF TasksTyped, Calmer, LeaderEnds

\* A step by which nobody becomes a leader and nothing is installed.
LEMMA QuietStep ==
    ASSUME DeliveryInv, WorldRests, Calmer, TasksTyped', CacheTyped', CachedInTime',
           cached'.id \in {0, installed}, installed' = installed,
           served' = served \/ \E id \in {0, installed} : Counted(id)
    PROVE  DeliveryInv'
<1>1. WorldTyped' /\ TasksInTime' /\ \A id : Rev(id)' = Rev(id)
    BY WorldStays, TasksStay DEF DeliveryInv, ReaderOK
<1>2. installed \in Nat /\ installed <= registry /\ Rev(installed) \in Nat
    BY RevTyped DEF DeliveryInv, InstalledOK, ReaderOK
<1>3. served' \in Nat /\ served' <= Rev(installed)
    <2>1. CASE served' = served
        BY <2>1 DEF DeliveryInv, InstalledOK, ReaderOK
    <2>2. CASE \E id \in {0, installed} : Counted(id)
        <3>1. PICK id \in {0, installed} : Counted(id)
            BY <2>2
        <3>2. id \in Nat /\ id <= registry /\ Rev(id) <= Rev(installed)
            <4>1. CASE id = 0
                BY <1>2, <4>1, SMTT(30) DEF Rev, DeliveryInv, ReaderOK, WorldTyped
            <4>2. CASE id = installed
                BY <1>2, <4>2, SMTT(30)
            <4> QED
                BY <4>1, <4>2
        <3>3. served \in Nat /\ served <= Rev(installed)
            BY DEF DeliveryInv, InstalledOK, ReaderOK
        <3> QED
            BY <1>2, <3>1, <3>2, <3>3, CountedFacts DEF DeliveryInv, ReaderOK
    <2> QED
        BY <2>1, <2>2
<1>4. InstalledOK'
    <2>1. Rev(installed)' = Rev(installed)
        BY DEF Rev, WorldRests
    <2> QED
        BY <1>2, <1>3, <2>1 DEF InstalledOK, WorldRests
<1>5. LeaderOK'
    BY DEF LeaderOK, DeliveryInv, Calmer, Works
<1> QED
    BY <1>1, <1>3, <1>4, <1>5 DEF DeliveryInv, ReaderOK

\* An answer with what is installed does not go back.
LEMMA InstalledIsForward ==
    ASSUME DeliveryInv, last' \in {0, installed}
    PROVE  Answered => Rev(last') >= served
<1> SUFFICES ASSUME last' = installed
             PROVE  Rev(last') >= served
    BY DEF Answered
<1>1. Rev(installed) \in Nat /\ served \in Nat /\ served <= Rev(installed)
    BY RevTyped DEF DeliveryInv, InstalledOK, ReaderOK
<1>2. Rev(installed) >= served
    BY <1>1, SMTT(30)
<1> QED
    BY <1>2

\* Steps of the snapshot's loop, outside the refresh.
LEMMA LoopSteps ==
    ASSUME DeliveryInv, NEW r \in Requests,
           Authorize(r) \/ Serve(r) \/ Reject(r) \/ FindDue(r) \/ Cancel(r)
    PROVE  DeliveryInv' /\ AnswerSafe
<1> USE DEF DeliveryInv
<1>1. CASE Authorize(r)
    <2>1. /\ WorldRests /\ TasksTyped' /\ Calmer /\ AnswerSafe
          /\ UNCHANGED <<cached, served>> /\ installed' = installed
        BY <1>1, ArriveEffect DEF Authorize
    <2>2. CacheTyped' /\ CachedInTime'
        BY <2>1, CacheStays DEF ReaderOK
    <2> QED
        BY <2>1, <2>2, QuietStep DEF InstalledOK
<1>2. CASE Serve(r)
    <2>1. /\ cached.due > now /\ Move(r, At("idle")) /\ Counted(cached.id)
          /\ UNCHANGED <<sc, now, registry, since, cached, retry, installed>>
        BY <1>2 DEF Serve, Answer
    <2>2. WorldRests
        BY <2>1 DEF WorldRests, ReaderOK, WorldTyped
    <2>3. TasksTyped' /\ Calmer
        BY <2>1, RestEffect DEF ReaderOK
    <2>4. CacheTyped' /\ CachedInTime'
        BY <2>1, <2>2, CacheStays DEF ReaderOK
    <2>5. DeliveryInv'
        BY <2>1, <2>2, <2>3, <2>4, QuietStep DEF InstalledOK
    <2>6. last' = cached.id
        BY <2>1 DEF Counted
    <2>7. AnswerSafe
        BY <2>1, <2>6, InstalledIsForward, FreshNotOutlived DEF AnswerSafe, InstalledOK
    <2> QED
        BY <2>5, <2>7
<1>3. CASE Reject(r)
    <2>1. /\ Move(r, At("idle")) /\ Counted(0)
          /\ UNCHANGED <<sc, now, registry, since, cached, retry, installed>>
        BY <1>3 DEF Reject, Answer
    <2>2. WorldRests
        BY <2>1 DEF WorldRests, ReaderOK, WorldTyped
    <2>3. TasksTyped' /\ Calmer
        BY <2>1, RestEffect DEF ReaderOK
    <2>4. CacheTyped' /\ CachedInTime'
        BY <2>1, <2>2, CacheStays DEF ReaderOK
    <2>5. DeliveryInv'
        BY <2>1, <2>2, <2>3, <2>4, QuietStep DEF InstalledOK
    <2>6. last' = 0
        BY <2>1 DEF Counted
    <2> QED
        BY <2>5, <2>6, NoAnswer
<1>4. CASE FindDue(r)
    <2>1. /\ Move(r, At("begin")) /\ req[r].st = "check"
          /\ UNCHANGED <<sc, now, registry, since, cached, retry, installed, last, served>>
        BY <1>4 DEF FindDue
    <2>2. WorldRests
        BY <2>1 DEF WorldRests, ReaderOK, WorldTyped
    <2>3. /\ TasksTyped' /\ Calmer /\ req'[r].st = "begin"
          /\ \A q \in Requests \ {r} : req'[q] = req[q]
        BY <2>1, RestEffect DEF ReaderOK
    <2>4. CacheTyped' /\ CachedInTime'
        BY <2>1, <2>2, CacheStays DEF ReaderOK
    <2>5. DeliveryInv'
        BY <2>1, <2>2, <2>3, <2>4, QuietStep DEF InstalledOK
    <2>6. "begin" # "idle"
        BY SMTT(30)
    <2> QED
        BY <2>3, <2>5, <2>6, NoAnswer
<1>5. CASE Cancel(r)
    <2>1. /\ sc.cancels > 0 /\ sc' = [sc EXCEPT !.cancels = @ - 1]
          /\ UNCHANGED <<now, registry, since, cached, retry, installed>>
          /\ LeaderEnds(r, 0, FALSE) \/ (Move(r, At("idle")) /\ Counted(0))
        BY <1>5 DEF Cancel, Answer
    <2>2. WorldRests
        BY <2>1, Spent DEF WorldRests, ReaderOK, WorldTyped
    <2>3. TasksTyped' /\ Calmer /\ Counted(0)
        <3>1. CASE LeaderEnds(r, 0, FALSE)
            BY <3>1, LeaderEndsEffect DEF ReaderOK
        <3>2. CASE Move(r, At("idle")) /\ Counted(0)
            BY <3>2, RestEffect DEF ReaderOK
        <3> QED
            BY <2>1, <3>1, <3>2
    <2>4. CacheTyped' /\ CachedInTime'
        BY <2>1, <2>2, CacheStays DEF ReaderOK
    <2>5. DeliveryInv'
        BY <2>1, <2>2, <2>3, <2>4, QuietStep DEF InstalledOK
    <2>6. last' = 0
        BY <2>3 DEF Counted
    <2> QED
        BY <2>5, <2>6, NoAnswer
<1> QED
    BY <1>1, <1>2, <1>3, <1>4, <1>5

\* A leader begins, or a follower waits for one.
LEMMA BeginStep ==
    ASSUME DeliveryInv, NEW r \in Requests, Begin(r)
    PROVE  DeliveryInv' /\ AnswerSafe
<1> USE DEF DeliveryInv
<1>1. /\ req[r].st = "begin"
      /\ UNCHANGED <<sc, now, registry, since, cached, retry, installed, last, served>>
    BY DEF Begin
<1>2. WorldRests
    BY <1>1 DEF WorldRests, ReaderOK, WorldTyped
<1>3. CacheTyped' /\ CachedInTime'
    BY <1>1, <1>2, CacheStays DEF ReaderOK
<1>4. "begin" # "idle" /\ "follow" # "idle" /\ "get" # "idle" /\ "get" \in TaskStates /\ "get" # "body"
    BY SMTT(30) DEF TaskStates
<1>5. CASE ~Leads
    <2>1. Move(r, At("follow"))
        BY <1>5 DEF Begin
    <2>2. /\ TasksTyped' /\ Calmer /\ req'[r].st = "follow"
          /\ \A q \in Requests \ {r} : req'[q] = req[q]
        BY <2>1, RestEffect DEF ReaderOK
    <2>3. DeliveryInv'
        BY <1>1, <1>2, <1>3, <2>2, QuietStep DEF InstalledOK
    <2> QED
        BY <1>4, <2>2, <2>3, NoAnswer
<1>6. CASE Leads
    <2>1. PICK t : t = Task("get", cached.id, 0, now)
        OBVIOUS
    <2>2. cached.id \in Nat /\ now \in Nat /\ 0 \in Nat
        BY SMTT(30) DEF ReaderOK, CacheTyped, CacheType, WorldTyped
    <2>3. t \in TaskType /\ t.st = "get" /\ t.prev = cached.id /\ t.began = now
        <3>1. t \in TaskType
            BY <1>4, <2>1, <2>2, TaskTyped
        <3> QED
            BY <2>1, <3>1 DEF Task
    <2>4. Move(r, t)
        BY <1>6, <2>1 DEF Begin
    <2>5. TasksTyped' /\ req'[r] = t /\ \A q \in Requests \ {r} : req'[q] = req[q]
        BY <2>3, <2>4, MoveEffect DEF ReaderOK
    <2>6. \A q \in Requests : ~Works(req[q])
        BY <1>6 DEF Leads, Refreshing, Works
    <2>7. now <= now /\ now <= now + Timeout
        BY <2>2, Durations, SMTT(30)
    <2>8. TasksInTime'
        <3> SUFFICES ASSUME NEW q \in Requests
                     PROVE  InTime(req[q])'
            BY DEF TasksInTime
        <3>1. CASE q = r
            BY <1>1, <1>4, <2>3, <2>5, <2>7, <3>1 DEF InTime
        <3>2. CASE q # r
            BY <2>5, <2>6, <3>2 DEF InTime, Works
        <3> QED
            BY <3>1, <3>2
    <2>9. LeaderOK'
        BY <1>1, <2>3, <2>5, <2>6 DEF LeaderOK, InstalledOK, Works
    <2>10. ReaderOK'
        BY <1>1, <1>2, <1>3, <2>5, <2>8, WorldStays DEF ReaderOK
    <2>11. InstalledOK'
        <3>1. Rev(installed)' = Rev(installed)
            BY <1>1 DEF Rev
        <3> QED
            BY <1>1, <3>1 DEF InstalledOK
    <2>12. AnswerSafe
        BY <1>4, <2>3, <2>5, NoAnswer
    <2> QED
        BY <2>9, <2>10, <2>11, <2>12
<1> QED
    BY <1>5, <1>6

\* The refresh fails: the snapshot stays, and says so.
LEMMA DeferStep ==
    ASSUME DeliveryInv, NEW r \in Requests, DeferFailedRefresh(r),
           sc' \in RegistryType, sc'.versions = sc.versions
    PROVE  DeliveryInv' /\ AnswerSafe
<1> USE DEF DeliveryInv
<1>1. /\ LeaderEnds(r, cached.id, cached = Nothing) /\ UNCHANGED <<now, registry, since, installed>>
      /\ cached' = IF cached = Nothing THEN Nothing ELSE Snapshot(cached.id, now + Cooldown, TRUE)
    BY DEF DeferFailedRefresh
<1>2. WorldRests
    BY <1>1 DEF WorldRests
<1>3. (cached = Nothing) \in BOOLEAN
    OBVIOUS
<1>4. TasksTyped' /\ Calmer /\ Counted(cached.id)
    BY <1>1, <1>3, LeaderEndsEffect DEF ReaderOK
<1>5. Nothing.id = 0 /\ Nothing.failing = FALSE
    BY DEF Nothing, Snapshot
<1>6. cached \in CacheType /\ cached.id \in Nat /\ cached.id <= registry
    BY DEF ReaderOK, CacheTyped, CacheType
<1>7. CASE cached = Nothing
    <2>1. cached' = cached
        BY <1>1, <1>7
    <2>2. CacheTyped' /\ CachedInTime'
        BY <1>2, <2>1, CacheStays DEF ReaderOK
    <2>3. DeliveryInv'
        BY <1>1, <1>2, <1>4, <2>1, <2>2, QuietStep DEF InstalledOK
    <2>4. last' = 0
        BY <1>4, <1>5, <1>7 DEF Counted
    <2> QED
        BY <2>3, <2>4, NoAnswer
<1>8. CASE cached # Nothing
    <2>1. cached' = Snapshot(cached.id, now + Cooldown, TRUE)
        BY <1>1, <1>8
    <2>2. now + Cooldown \in Nat
        BY Durations, SMTT(30) DEF ReaderOK, WorldTyped
    <2>3. cached' \in CacheType /\ cached'.id = cached.id /\ cached'.failing = TRUE
        BY <1>6, <2>1, <2>2, SnapshotTyped DEF Snapshot
    <2>4. cached.id # 0
        BY <1>8 DEF ReaderOK, CacheTyped
    <2>5. CacheTyped' /\ CachedInTime'
        BY <1>1, <1>6, <2>3, <2>4 DEF CacheTyped, CachedInTime
    <2>6. DeliveryInv'
        BY <1>1, <1>2, <1>4, <2>3, <2>5, QuietStep DEF InstalledOK
    <2>7. last' = cached.id
        BY <1>4 DEF Counted
    <2>8. Answered => Rev(last') >= served
        BY <2>7, InstalledIsForward DEF InstalledOK
    <2> QED
        BY <2>3, <2>6, <2>8 DEF AnswerSafe
<1> QED
    BY <1>7, <1>8

\* A 304.
LEMMA NotModifiedStep ==
    ASSUME DeliveryInv, NEW r \in Requests, NotModified(r)
    PROVE  DeliveryInv' /\ AnswerSafe
<1> USE DEF DeliveryInv
<1>1. PICK id : id = req[r].prev
    OBVIOUS
<1>2. /\ req[r].st = "get" /\ id # 0 /\ id = registry
      /\ cached' = Snapshot(id, now + Interval, FALSE)
      /\ LeaderEnds(r, id, FALSE)
      /\ UNCHANGED <<sc, now, registry, since, retry, installed>>
    BY <1>1 DEF NotModified
<1>3. WorldRests
    BY <1>2 DEF WorldRests, ReaderOK, WorldTyped
<1>4. TasksTyped' /\ Calmer /\ Counted(id)
    BY <1>2, LeaderEndsEffect DEF ReaderOK
<1>5. id \in Nat /\ id <= registry /\ ~(id < registry)
    BY <1>2, SMTT(30) DEF ReaderOK, WorldTyped
<1>6. id = installed
    BY <1>1, <1>2 DEF LeaderOK, Works
<1>7. CacheTyped' /\ CachedInTime' /\ cached'.id = id
    BY <1>2, <1>3, <1>5, RenewedInTime DEF ReaderOK
<1>8. DeliveryInv'
    BY <1>2, <1>3, <1>4, <1>6, <1>7, QuietStep
<1>9. last' = id
    BY <1>4 DEF Counted
<1>10. ~Outlived
    BY <1>5, <1>9 DEF Outlived
<1> QED
    BY <1>6, <1>8, <1>9, <1>10, InstalledIsForward DEF AnswerSafe

\* The leader has the object's bytes.
LEMMA GetStep ==
    ASSUME DeliveryInv, NEW r \in Requests, Get(r)
    PROVE  DeliveryInv' /\ AnswerSafe
<1> USE DEF DeliveryInv
<1>1. Works(req[r]) /\ Read(r) /\ installed' = installed
    BY DEF Get, Works
<1>2. /\ ReaderOK' /\ AnswerSafe /\ Works(req'[r]) /\ req'[r].prev = req[r].prev
      /\ \A q \in Requests \ {r} : req'[q] = req[q]
      /\ UNCHANGED <<sc, now, registry, since, cached, served>>
    BY <1>1, ReadEffect
<1>3. InstalledOK'
    <2>1. Rev(installed)' = Rev(installed)
        BY <1>1, <1>2 DEF Rev
    <2> QED
        BY <1>1, <1>2, <2>1 DEF InstalledOK
<1>4. \A q \in Requests : Works(req'[q]) => Works(req[q]) /\ req'[q].prev = req[q].prev
    BY <1>1, <1>2
<1>5. LeaderOK'
    BY <1>1, <1>4 DEF LeaderOK
<1> QED
    BY <1>2, <1>3, <1>5

\* The leader installs what it read.
LEMMA InstallStep ==
    ASSUME DeliveryInv, NEW r \in Requests, Install(r)
    PROVE  DeliveryInv' /\ AnswerSafe
<1> USE DEF DeliveryInv
<1>1. PICK id : id = req[r].got
    OBVIOUS
<1>2. /\ req[r].st = "body" /\ Succeeds(id) /\ installed' = id
      /\ cached' = Snapshot(id, now + Interval, FALSE)
      /\ LeaderEnds(r, id, FALSE)
      /\ UNCHANGED <<sc, now, registry, since>>
    BY <1>1 DEF Install
<1>3. WorldRests
    BY <1>2 DEF WorldRests, ReaderOK, WorldTyped
<1>4. TasksTyped' /\ Calmer /\ req'[r].st = "idle" /\ Counted(id)
    BY <1>2, LeaderEndsEffect DEF ReaderOK
<1>5. /\ id \in Nat /\ id # 0 /\ id <= registry
      /\ id < registry => now <= since[id + 1] + Timeout
    BY <1>1, <1>2, BodyInTime DEF ReaderOK
<1>6. CacheTyped' /\ CachedInTime' /\ cached'.id = id
    BY <1>2, <1>3, <1>5, RenewedInTime DEF ReaderOK
<1>7. /\ served \in Nat /\ Rev(installed) \in Nat /\ Rev(id) \in Nat
      /\ served <= Rev(installed) /\ Rev(id) >= Rev(installed)
    BY <1>2, <1>5, RevTyped DEF ReaderOK, InstalledOK, Succeeds
<1>8. served <= Rev(id) /\ Rev(id) >= served /\ Rev(id) <= Rev(id)
    BY <1>7, SMTT(30)
<1>9. last' = id /\ served' \in Nat /\ served' <= Rev(id)
    BY <1>4, <1>5, <1>7, <1>8, CountedFacts DEF ReaderOK
<1>10. \A q \in Requests : ~Works(req'[q])
    <2>1. Works(req[r]) /\ ~Works(req'[r])
        BY <1>2, <1>4, SMTT(30) DEF Works
    <2> QED
        BY <1>4, <2>1 DEF DeliveryInv, LeaderOK, Calmer
<1>11. ReaderOK'
    BY <1>3, <1>4, <1>6, <1>9, WorldStays, TasksStay DEF ReaderOK
<1>12. InstalledOK'
    <2>1. Rev(installed)' = Rev(id)
        BY <1>2 DEF Rev
    <2> QED
        BY <1>2, <1>5, <1>6, <1>9, <2>1 DEF InstalledOK
<1>13. LeaderOK'
    BY <1>10 DEF LeaderOK
<1>14. ~Outlived
    BY <1>5, <1>9, RecentNotOutlived DEF ReaderOK
<1>15. AnswerSafe
    BY <1>8, <1>9, <1>14 DEF AnswerSafe
<1> QED
    BY <1>11, <1>12, <1>13, <1>15

\* A refresh that ends without a version.
LEMMA FailingSteps ==
    ASSUME DeliveryInv, NEW r \in Requests, Refuse(r) \/ Fail(r) \/ Overdue(r)
    PROVE  DeliveryInv' /\ AnswerSafe
<1>1. sc \in RegistryType
    BY DEF DeliveryInv, ReaderOK, WorldTyped
<1>2. DeferFailedRefresh(r)
    BY DEF Refuse, Fail, Overdue
<1>3. sc' = sc \/ (sc.faults > 0 /\ sc' = [sc EXCEPT !.faults = @ - 1])
    BY DEF Refuse, Fail, Overdue
<1>4. sc' \in RegistryType /\ sc'.versions = sc.versions
    BY <1>1, <1>3, Spent
<1> QED
    BY <1>2, <1>4, DeferStep

\* The cache forgets, and the world goes on.
LEMMA OutsideSteps ==
    ASSUME DeliveryInv, Evict \/ ((WriteRegistry \/ Elapse) /\ UNCHANGED installed)
    PROVE  DeliveryInv' /\ AnswerSafe
<1> USE DEF DeliveryInv
<1>1. CASE Evict
    <2>1. /\ sc.evictions > 0 /\ sc' = [sc EXCEPT !.evictions = @ - 1] /\ cached' = Nothing
          /\ UNCHANGED <<now, registry, since, retry, installed, req, last, served>>
        BY <1>1 DEF Evict
    <2>2. WorldRests
        BY <2>1, Spent DEF WorldRests, ReaderOK, WorldTyped
    <2>3. TasksTyped' /\ Calmer
        BY <2>1 DEF TasksTyped, Calmer, ReaderOK
    <2>4. cached'.id = 0
        BY <2>1 DEF Nothing, Snapshot
    <2>5. 0 \in Nat /\ 0 <= registry
        BY SMTT(30) DEF ReaderOK, WorldTyped
    <2>6. Nothing \in CacheType
        BY <2>5, SnapshotTyped DEF Nothing
    <2>7. CacheTyped' /\ CachedInTime'
        BY <2>1, <2>4, <2>5, <2>6 DEF CacheTyped, CachedInTime, Nothing, Snapshot
    <2>8. DeliveryInv'
        BY <2>1, <2>2, <2>3, <2>4, <2>7, QuietStep
    <2> QED
        BY <2>1, <2>8, NoAnswer
<1>2. CASE (WriteRegistry \/ Elapse) /\ UNCHANGED installed
    <2>1. /\ ReaderOK' /\ AnswerSafe
          /\ UNCHANGED <<sc, cached, req, served, installed>>
        BY <1>2, WriteEffect, ElapseEffect
    <2>2. registry <= registry' /\ registry \in Nat /\ registry' \in Nat
        <3>1. registry \in Nat /\ registry' \in Nat
            BY <2>1 DEF ReaderOK, WorldTyped
        <3>2. CASE WriteRegistry
            BY <3>1, <3>2, WriteEffect
        <3>3. CASE Elapse
            BY <3>1, <3>3, ElapseEffect, SMTT(30)
        <3> QED
            BY <1>2, <3>1, <3>2, <3>3
    <2>3. installed <= registry'
        BY <2>2, SMTT(30) DEF InstalledOK
    <2>4. Rev(installed)' = Rev(installed)
        BY <2>1 DEF Rev
    <2>5. InstalledOK'
        BY <2>1, <2>3, <2>4 DEF InstalledOK
    <2>6. LeaderOK'
        BY <2>1 DEF LeaderOK
    <2> QED
        BY <2>1, <2>5, <2>6
<1> QED
    BY <1>1, <1>2

\* Every step of delivery keeps the invariant and answers safely.
LEMMA DeliveryStepSafe ==
    ASSUME DeliveryInv, DeliveryNext
    PROVE  DeliveryInv' /\ AnswerSafe
<1>1. CASE \E r \in Requests : Authorize(r) \/ DeliveryStep(r) \/ Fail(r) \/ Cancel(r)
    <2>1. PICK r \in Requests : Authorize(r) \/ DeliveryStep(r) \/ Fail(r) \/ Cancel(r)
        BY <1>1
    <2>2. CASE Authorize(r) \/ Serve(r) \/ Reject(r) \/ FindDue(r) \/ Cancel(r)
        BY <2>2, LoopSteps
    <2>3. CASE Begin(r)
        BY <2>3, BeginStep
    <2>4. CASE NotModified(r)
        BY <2>4, NotModifiedStep
    <2>5. CASE Get(r)
        BY <2>5, GetStep
    <2>6. CASE Install(r)
        BY <2>6, InstallStep
    <2>7. CASE Refuse(r) \/ Fail(r) \/ Overdue(r)
        BY <2>7, FailingSteps
    <2> QED
        BY <2>1, <2>2, <2>3, <2>4, <2>5, <2>6, <2>7 DEF DeliveryStep
<1>2. CASE Evict \/ ((WriteRegistry \/ Elapse) /\ UNCHANGED installed)
    BY <1>2, OutsideSteps
<1> QED
    BY <1>1, <1>2 DEF DeliveryNext

\* A step that changes nothing keeps the invariant.
LEMMA DeliveryStutter ==
    ASSUME DeliveryInv, UNCHANGED deliveryVars
    PROVE  DeliveryInv'
<1>1. UNCHANGED <<sc, now, registry, since, cached, retry, req, last, served, installed>>
    BY DEF deliveryVars, readerVars
<1>2. ReaderOK'
    BY <1>1 DEF DeliveryInv, ReaderOK, WorldTyped, CacheTyped, TasksTyped, TasksInTime, InTime,
                CachedInTime, Nothing, Snapshot, Works
<1>3. InstalledOK' /\ LeaderOK'
    BY <1>1 DEF DeliveryInv, InstalledOK, LeaderOK, Rev
<1> QED
    BY <1>2, <1>3 DEF DeliveryInv

\* What delivery keeps true: one leader, nothing served that is newer than what
\* is installed, and a snapshot whose due time is at most one interval after the
\* refresh that found it, unless its refreshes fail (snapshot and refresh in
\* mmpf-auth).
THEOREM DeliveryKeeps == DeliverySpec => []DeliveryInv
<1>1. DeliveryInit => DeliveryInv
    BY DeliveryStart
<1>2. DeliveryInv /\ [DeliveryNext]_deliveryVars => DeliveryInv'
    BY DeliveryStepSafe, DeliveryStutter
<1> QED
    BY <1>1, <1>2, PTL DEF DeliverySpec

\* Delivery is never authorized with an older revision than before, whatever is
\* written, evicted or cancelled (installed_revisions in refresh).
THEOREM DeliveryGoesForward == DeliverySpec => RevisionForward
<1>1. DeliveryInv /\ [DeliveryNext]_deliveryVars => [Answered => Rev(last') >= served]_readerVars
    BY DeliveryStepSafe DEF AnswerSafe, deliveryVars
<1> QED
    BY <1>1, DeliveryKeeps, PTL DEF DeliverySpec, RevisionForward

\* Delivery uses an outlived policy only while its refreshes are seen to fail
\* (defer_failed_refresh).
THEOREM DeliveryStaleVisible == DeliverySpec => StaleVisible
<1>1. DeliveryInv /\ [DeliveryNext]_deliveryVars =>
         [Answered /\ Outlived => cached'.failing]_readerVars
    BY DeliveryStepSafe DEF AnswerSafe, deliveryVars
<1> QED
    BY <1>1, DeliveryKeeps, PTL DEF DeliverySpec, StaleVisible

-----------------------------------------------------------------------------
(* Management: what is cached was never replaced by an older revision, and *)
(* its refreshes leave no mark when they fail.                             *)

ManagementInv == ReaderOK /\ cached.failing = FALSE /\ served <= Rev(cached.id)

\* A step that leaves the snapshot and starts no refresh.
LEMMA CalmStep ==
    ASSUME ManagementInv, WorldRests, Calmer, TasksTyped', cached' = cached,
           served' = served \/ \E id \in {0, cached.id} : Counted(id)
    PROVE  ManagementInv'
<1>1. WorldTyped' /\ TasksInTime' /\ CacheTyped' /\ CachedInTime'
    BY WorldStays, TasksStay, CacheStays DEF ManagementInv, ReaderOK
<1>2. cached.id \in Nat /\ cached.id <= registry
    BY DEF ManagementInv, ReaderOK, CacheTyped, CacheType
<1>3. Rev(cached.id) \in Nat
    BY <1>2, RevTyped DEF ManagementInv, ReaderOK
<1>4. served' \in Nat /\ served' <= Rev(cached.id)
    <2>1. CASE served' = served
        BY <2>1 DEF ManagementInv, ReaderOK
    <2>2. CASE \E id \in {0, cached.id} : Counted(id)
        <3>1. PICK id \in {0, cached.id} : Counted(id)
            BY <2>2
        <3>2. id \in Nat /\ id <= registry /\ Rev(id) <= Rev(cached.id)
            <4>1. CASE id = 0
                <5>1. 0 \in Nat /\ 0 <= registry /\ 0 <= Rev(cached.id)
                    BY <1>3, SMTT(30) DEF ManagementInv, ReaderOK, WorldTyped
                <5> QED
                    BY <4>1, <5>1 DEF Rev
            <4>2. CASE id = cached.id
                BY <1>2, <1>3, <4>2, SMTT(30)
            <4> QED
                BY <4>1, <4>2
        <3> QED
            BY <1>3, <3>1, <3>2, CountedFacts DEF ManagementInv, ReaderOK
    <2> QED
        BY <2>1, <2>2
<1>5. Rev(cached.id)' = Rev(cached.id)
    BY DEF Rev, WorldRests
<1> QED
    BY <1>1, <1>4, <1>5 DEF ManagementInv, ReaderOK

\* An answer with the snapshot does not go back.
LEMMA CachedIsForward ==
    ASSUME ManagementInv, last' = cached.id
    PROVE  Rev(last') >= served
<1>1. cached.id \in Nat /\ cached.id <= registry
    BY DEF ManagementInv, ReaderOK, CacheTyped, CacheType
<1>2. Rev(cached.id) \in Nat
    BY <1>1, RevTyped DEF ManagementInv, ReaderOK
<1>3. Rev(cached.id) >= served
    BY <1>2, SMTT(30) DEF ManagementInv, ReaderOK
<1> QED
    BY <1>3

\* The two looks at the snapshot, before the lock and under it.
LEMMA AnsweringSteps ==
    ASSUME ManagementInv, NEW r \in Requests, req[r].st \in {"check", "lock"},
           NEW t, Resolved(r, t), Fresh \/ Deferred
    PROVE  ManagementInv' /\ AnswerSafe
<1>1. UNCHANGED <<sc, now, registry, since, cached, retry>>
    BY DEF Resolved
<1>2. WorldRests
    BY <1>1 DEF WorldRests, ManagementInv, ReaderOK, WorldTyped
<1>3. CASE Fresh
    <2>1. Move(r, At("idle")) /\ Counted(cached.id)
        BY <1>3 DEF Resolved, Answer
    <2>2. TasksTyped' /\ Calmer
        BY <2>1, RestEffect DEF ManagementInv, ReaderOK
    <2>3. ManagementInv'
        BY <1>1, <1>2, <2>1, <2>2, CalmStep
    <2>4. last' = cached.id
        BY <2>1 DEF Counted
    <2>5. cached.due > now
        <3>1. cached.due \in Nat /\ now \in Nat /\ now < cached.due
            BY <1>3 DEF Fresh, ManagementInv, ReaderOK, CacheTyped, CacheType, WorldTyped
        <3> QED
            BY <3>1, SMTT(30)
    <2>6. Answered /\ Outlived => cached'.failing
        BY <1>1, <2>4, <2>5, FreshNotOutlived DEF ManagementInv
    <2> QED
        BY <2>3, <2>4, <2>6, CachedIsForward DEF AnswerSafe
<1>4. CASE ~Fresh
    <2>1. Move(r, At("idle")) /\ Counted(0)
        BY <1>4 DEF Resolved, Answer
    <2>2. TasksTyped' /\ Calmer
        BY <2>1, RestEffect DEF ManagementInv, ReaderOK
    <2>3. ManagementInv'
        BY <1>1, <1>2, <2>1, <2>2, CalmStep
    <2>4. last' = 0
        BY <2>1 DEF Counted
    <2> QED
        BY <2>3, <2>4, NoAnswer
<1> QED
    BY <1>3, <1>4

\* A request waits for the lock.
LEMMA CheckStep ==
    ASSUME ManagementInv, NEW r \in Requests, Check(r)
    PROVE  ManagementInv' /\ AnswerSafe
<1>1. req[r].st \in {"check", "lock"} /\ req[r].st = "check" /\ Resolved(r, At("lock"))
    BY DEF Check
<1>2. CASE Fresh \/ Deferred
    BY <1>1, <1>2, AnsweringSteps
<1>3. CASE ~Fresh /\ ~Deferred
    <2>1. Move(r, At("lock")) /\ UNCHANGED <<sc, now, registry, since, cached, retry, last, served>>
        BY <1>1, <1>3 DEF Resolved
    <2>2. WorldRests
        BY <2>1 DEF WorldRests, ManagementInv, ReaderOK, WorldTyped
    <2>3. /\ TasksTyped' /\ Calmer /\ req'[r].st = "lock"
          /\ \A q \in Requests \ {r} : req'[q] = req[q]
        BY <2>1, RestEffect DEF ManagementInv, ReaderOK
    <2>4. ManagementInv'
        BY <2>1, <2>2, <2>3, CalmStep
    <2>5. "lock" # "idle"
        BY SMTT(30)
    <2> QED
        BY <2>3, <2>4, <2>5, NoAnswer
<1> QED
    BY <1>2, <1>3

\* A request takes the lock, and looks again.
LEMMA LockStep ==
    ASSUME ManagementInv, NEW r \in Requests, Lock(r)
    PROVE  ManagementInv' /\ AnswerSafe
<1>1. PICK t : t = Task("get", 0, 0, now)
    OBVIOUS
<1>2. req[r].st \in {"check", "lock"} /\ Resolved(r, t)
    BY <1>1 DEF Lock
<1>3. CASE Fresh \/ Deferred
    BY <1>2, <1>3, AnsweringSteps
<1>4. CASE ~Fresh /\ ~Deferred
    <2>1. Move(r, t) /\ UNCHANGED <<sc, now, registry, since, cached, retry, last, served>>
        BY <1>2, <1>4 DEF Resolved
    <2>2. WorldRests
        BY <2>1 DEF WorldRests, ManagementInv, ReaderOK, WorldTyped
    <2>3. now \in Nat /\ 0 \in Nat /\ "get" \in TaskStates /\ "get" # "idle" /\ "get" # "body"
        BY SMTT(30) DEF ManagementInv, ReaderOK, WorldTyped, TaskStates
    <2>4. t \in TaskType /\ t.st = "get" /\ t.began = now
        <3>1. t \in TaskType
            BY <1>1, <2>3, TaskTyped
        <3> QED
            BY <1>1, <3>1 DEF Task
    <2>5. TasksTyped' /\ req'[r] = t /\ \A q \in Requests \ {r} : req'[q] = req[q]
        BY <2>1, <2>4, MoveEffect DEF ManagementInv, ReaderOK
    <2>6. now <= now /\ now <= now + Timeout
        BY <2>3, Durations, SMTT(30)
    <2>7. TasksInTime'
        <3> SUFFICES ASSUME NEW q \in Requests
                     PROVE  InTime(req[q])'
            BY DEF TasksInTime
        <3>1. CASE q = r
            BY <2>1, <2>3, <2>4, <2>5, <2>6, <3>1 DEF InTime
        <3>2. CASE q # r
            BY <2>1, <2>5, <3>2 DEF ManagementInv, ReaderOK, TasksInTime, InTime, Works
        <3> QED
            BY <3>1, <3>2
    <2>8. WorldTyped' /\ CacheTyped' /\ CachedInTime' /\ served' \in Nat
        BY <2>1, <2>2, WorldStays, CacheStays DEF ManagementInv, ReaderOK
    <2>9. Rev(cached.id)' = Rev(cached.id)
        BY <2>1 DEF Rev
    <2>10. ManagementInv'
        BY <2>1, <2>5, <2>7, <2>8, <2>9 DEF ManagementInv, ReaderOK
    <2> QED
        BY <2>3, <2>4, <2>5, <2>10, NoAnswer
<1> QED
    BY <1>3, <1>4

\* The candidate has been read.
LEMMA LoadStep ==
    ASSUME ManagementInv, NEW r \in Requests, Load(r)
    PROVE  ManagementInv' /\ AnswerSafe
<1>1. Works(req[r]) /\ Read(r)
    BY DEF Load, Works
<1>2. ReaderOK' /\ AnswerSafe /\ UNCHANGED <<sc, now, registry, since, cached, served>>
    BY <1>1, ReadEffect DEF ManagementInv
<1>3. Rev(cached.id)' = Rev(cached.id)
    BY <1>2 DEF Rev
<1> QED
    BY <1>2, <1>3 DEF ManagementInv

\* The candidate is installed.
LEMMA CandidateStep ==
    ASSUME ManagementInv, NEW r \in Requests, InstallCandidate(r)
    PROVE  ManagementInv' /\ AnswerSafe
<1> USE DEF ManagementInv
<1>1. PICK id : id = req[r].got
    OBVIOUS
<1>2. /\ req[r].st = "body" /\ ValidSuccessor(id)
      /\ cached' = Snapshot(id, now + Interval, FALSE)
      /\ Move(r, At("idle")) /\ Counted(id)
      /\ UNCHANGED <<sc, now, registry, since>>
    BY <1>1 DEF InstallCandidate, Answer
<1>3. WorldRests
    BY <1>2 DEF WorldRests, ReaderOK, WorldTyped
<1>4. TasksTyped' /\ Calmer
    BY <1>2, RestEffect DEF ReaderOK
<1>5. /\ id \in Nat /\ id # 0 /\ id <= registry
      /\ id < registry => now <= since[id + 1] + Timeout
    BY <1>1, <1>2, BodyInTime DEF ReaderOK
<1>6. CacheTyped' /\ CachedInTime' /\ cached'.id = id /\ cached'.failing = FALSE
    BY <1>2, <1>3, <1>5, RenewedInTime DEF ReaderOK
<1>7. cached.id \in Nat /\ cached.id <= registry
    BY DEF ReaderOK, CacheTyped, CacheType
<1>8. Rev(id) \in Nat /\ Rev(cached.id) \in Nat /\ Rev(id) >= Rev(cached.id)
    BY <1>2, <1>5, <1>7, RevTyped DEF ReaderOK, ValidSuccessor
<1>9. served <= Rev(id) /\ Rev(id) >= served /\ Rev(id) <= Rev(id)
    BY <1>8, SMTT(30) DEF ReaderOK
<1>10. last' = id /\ served' \in Nat /\ served' <= Rev(id)
    BY <1>2, <1>5, <1>8, <1>9, CountedFacts DEF ReaderOK
<1>11. ReaderOK'
    BY <1>3, <1>4, <1>6, <1>10, WorldStays, TasksStay DEF ReaderOK
<1>12. Rev(cached.id)' = Rev(id)
    BY <1>2, <1>6 DEF Rev
<1>13. ~Outlived
    BY <1>5, <1>10, RecentNotOutlived DEF ReaderOK
<1>14. AnswerSafe
    BY <1>9, <1>10, <1>13 DEF AnswerSafe
<1> QED
    BY <1>6, <1>10, <1>11, <1>12, <1>14

\* A refresh that fails, and a caller that leaves.
LEMMA RefusingSteps ==
    ASSUME ManagementInv, NEW r \in Requests,
           RefuseCandidate(r) \/ LoadFails(r) \/ LoadTimesOut(r) \/ CallerLeaves(r)
    PROVE  ManagementInv' /\ AnswerSafe
<1>1. sc \in RegistryType
    BY DEF ManagementInv, ReaderOK, WorldTyped
<1>2. /\ Move(r, At("idle")) /\ Counted(0)
      /\ UNCHANGED <<now, registry, since, cached>>
    BY DEF RefuseCandidate, LoadFails, LoadTimesOut, CallerLeaves, Refused, Answer
<1>3. \/ sc' = sc
      \/ sc.faults > 0 /\ sc' = [sc EXCEPT !.faults = @ - 1]
      \/ sc.cancels > 0 /\ sc' = [sc EXCEPT !.cancels = @ - 1]
    BY DEF RefuseCandidate, LoadFails, LoadTimesOut, CallerLeaves
<1>4. WorldRests
    BY <1>1, <1>2, <1>3, Spent DEF WorldRests
<1>5. TasksTyped' /\ Calmer
    BY <1>2, RestEffect DEF ManagementInv, ReaderOK
<1>6. ManagementInv'
    BY <1>2, <1>4, <1>5, CalmStep
<1>7. last' = 0
    BY <1>2 DEF Counted
<1> QED
    BY <1>6, <1>7, NoAnswer

\* Every step of management keeps the invariant and answers safely.
LEMMA ManagementStepSafe ==
    ASSUME ManagementInv, ManagementNext
    PROVE  ManagementInv' /\ AnswerSafe
<1>1. CASE \E r \in Requests :
              Authenticate(r) \/ ManagementStep(r) \/ LoadFails(r) \/ CallerLeaves(r)
    <2>1. PICK r \in Requests :
              Authenticate(r) \/ ManagementStep(r) \/ LoadFails(r) \/ CallerLeaves(r)
        BY <1>1
    <2>2. CASE Authenticate(r)
        <3>1. /\ WorldRests /\ TasksTyped' /\ Calmer /\ AnswerSafe
              /\ UNCHANGED <<cached, served>>
            BY <2>2, ArriveEffect DEF Authenticate, ManagementInv
        <3> QED
            BY <3>1, CalmStep
    <2>3. CASE Check(r)
        BY <2>3, CheckStep
    <2>4. CASE Lock(r)
        BY <2>4, LockStep
    <2>5. CASE Load(r)
        BY <2>5, LoadStep
    <2>6. CASE InstallCandidate(r)
        BY <2>6, CandidateStep
    <2>7. CASE RefuseCandidate(r) \/ LoadFails(r) \/ LoadTimesOut(r) \/ CallerLeaves(r)
        BY <2>7, RefusingSteps
    <2> QED
        BY <2>1, <2>2, <2>3, <2>4, <2>5, <2>6, <2>7 DEF ManagementStep
<1>2. CASE WriteRegistry \/ Elapse
    <2>1. ReaderOK' /\ AnswerSafe /\ UNCHANGED <<sc, cached, req, served>>
        BY <1>2, WriteEffect, ElapseEffect DEF ManagementInv
    <2>2. Rev(cached.id)' = Rev(cached.id)
        BY <2>1 DEF Rev
    <2> QED
        BY <2>1, <2>2 DEF ManagementInv
<1> QED
    BY <1>1, <1>2 DEF ManagementNext

\* What management keeps true: nothing newer than the snapshot was served, and
\* the snapshot is due at most one interval after the refresh that found it
\* (snapshot in abashiri-core/src/auth.rs).
THEOREM ManagementKeeps == ManagementSpec => []ManagementInv
<1>1. ReaderInit => ManagementInv
    <2> SUFFICES ASSUME ReaderInit
                 PROVE  ManagementInv
        OBVIOUS
    <2>1. ReaderOK /\ cached.id = 0 /\ cached.failing = FALSE /\ served = 0
        BY ReaderStart
    <2>2. 0 <= 0
        BY SMTT(30)
    <2> QED
        BY <2>1, <2>2 DEF ManagementInv, Rev
<1>2. ManagementInv /\ UNCHANGED readerVars => ManagementInv'
    <2> SUFFICES ASSUME ManagementInv, UNCHANGED readerVars
                 PROVE  ManagementInv'
        OBVIOUS
    <2>1. UNCHANGED <<sc, now, registry, since, cached, retry, req, last, served>>
        BY DEF readerVars
    <2> QED
        BY <2>1 DEF ManagementInv, ReaderOK, WorldTyped, CacheTyped, TasksTyped, TasksInTime, InTime,
                    CachedInTime, Nothing, Snapshot, Works, Rev
<1>3. ManagementInv /\ [ManagementNext]_readerVars => ManagementInv'
    BY <1>2, ManagementStepSafe
<1> QED
    BY <1>1, <1>3, PTL DEF ManagementSpec

\* Management is never authenticated with an older revision than before
\* (valid_successor).
THEOREM ManagementGoesForward == ManagementSpec => RevisionForward
<1>1. ManagementInv /\ [ManagementNext]_readerVars => [Answered => Rev(last') >= served]_readerVars
    BY ManagementStepSafe DEF AnswerSafe
<1> QED
    BY <1>1, ManagementKeeps, PTL DEF ManagementSpec, RevisionForward

\* Management fails closed: whatever fails and however long, nobody is
\* authenticated with a version that was replaced longer ago than one interval
\* and one refresh (a snapshot that is due is refreshed or refused).
THEOREM ManagementFailsClosed == ManagementSpec => [][Answered => ~Outlived]_readerVars
<1>1. ManagementInv /\ [ManagementNext]_readerVars => [Answered => ~Outlived]_readerVars
    BY ManagementStepSafe DEF AnswerSafe, ManagementInv
<1> QED
    BY <1>1, ManagementKeeps, PTL DEF ManagementSpec
===============================================================================
