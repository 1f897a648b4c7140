-------------------------- MODULE RenderCacheProofs --------------------------
(***************************************************************************)
(* Proofs about RenderCache, for any number of callers, keys, styles and   *)
(* invalidations.                                                          *)
(***************************************************************************)
EXTENDS RenderCache, TLAPS

USE Zenon

\* Phases in which the caller's flight is in the in_flight map.
Holding == LeaderPhases \ {"notifying"}

\* The in_flight map holds exactly the leaders that have not removed theirs.
FlightsHeld ==
    \A c \in Callers : c \in flights <=> pc[c] \in Holding

\* The cache is a map, and it stores the grant of the caller that rendered.
CacheIsMap ==
    /\ \A e, f \in cache : e.key = f.key => e = f
    /\ \A e \in cache : e.required = e.by

\* A request's generation is in the past.
AskedPast ==
    \A c \in Callers : pc[c] # "idle" => asked[c] <= gen[StyleOf[key[c]]]

\* The fence: while the epoch a leader read is current, no invalidation has
\* happened since its render began.
Fence ==
    \A c \in Callers :
        /\ pc[c] \in {"leading", "rendering"} => leaderEpoch[c] <= epoch
        /\ pc[c] = "rendering" =>
             /\ asked[c] <= renderGen[c]
             /\ leaderEpoch[c] = epoch => renderGen[c] = gen[StyleOf[key[c]]]

\* Only a caller that is about to return has an answer.
AnswerPhases ==
    \A c \in Callers :
        answer[c] # {} => pc[c] \in {"dropping", "notifying", "served"}

\* The inductive invariant.
Inv ==
    /\ TypeOK
    /\ FlightsHeld
    /\ SingleLeader
    /\ CacheIsMap
    /\ NoStaleResident
    /\ AskedPast
    /\ Fence
    /\ AnswerPhases
    /\ AnswersFresh
    /\ AnswersAuthorized
    /\ NoLostWakeup
-----------------------------------------------------------------------------

\* Every action of the cache keeps the type invariant.
LEMMA TypeStep == TypeOK /\ [Next]_vars => TypeOK'
<1> SUFFICES ASSUME TypeOK, [Next]_vars PROVE TypeOK'
  OBVIOUS
<1> USE RenderCacheAssumption DEF TypeOK, Phases
<1>1. ASSUME NEW c \in Callers, NEW k \in Keys, Request(c, k)
      PROVE  TypeOK'
  BY <1>1, SMTT(30) DEF Request, ReadCache, HitsFor
<1>2. ASSUME NEW c \in Callers, JoinOrLead(c)
      PROVE  TypeOK'
  BY <1>2, SMTT(30) DEF JoinOrLead, HitsFor, FlightOf
<1>3. ASSUME NEW c \in Callers, LoadEpoch(c)
      PROVE  TypeOK'
  BY <1>3 DEF LoadEpoch
<1>4. ASSUME NEW c \in Callers, BeginRender(c)
      PROVE  TypeOK'
  BY <1>4 DEF BeginRender
<1>5. ASSUME NEW c \in Callers, CompleteRender(c)
      PROVE  TypeOK'
  <2>1. Rendered(c) \in Output
    BY DEF Rendered, Output
  <2>2. InsertFromOutcome(c) \subseteq Output
    BY <2>1 DEF InsertFromOutcome
  <2> QED
    BY <1>5, <2>1, <2>2 DEF CompleteRender
<1>6. ASSUME NEW c \in Callers, Abandon(c)
      PROVE  TypeOK'
  BY <1>6 DEF Abandon
<1>7. ASSUME NEW c \in Callers, RemoveFlight(c)
      PROVE  TypeOK'
  BY <1>7 DEF RemoveFlight
<1>8. ASSUME NEW c \in Callers, Notify(c)
      PROVE  TypeOK'
  BY <1>8 DEF Notify, AfterLeading
<1>9. ASSUME NEW c \in Callers, Recheck(c)
      PROVE  TypeOK'
  BY <1>9, SMTT(30) DEF Recheck, ReadCache, HitsFor
<1>10. ASSUME NEW c \in Callers, Deadline(c)
       PROVE  TypeOK'
  BY <1>10 DEF Deadline
<1>11. ASSUME NEW c \in Callers, Finish(c)
       PROVE  TypeOK'
  BY <1>11 DEF Finish
<1>12. ASSUME NEW s \in Styles, InvalidateStyle(s)
       PROVE  TypeOK'
  BY <1>12, SMTT(30) DEF InvalidateStyle
<1>13. ASSUME NEW e \in cache, Evict(e)
       PROVE  TypeOK'
  BY <1>13 DEF Evict
<1>14. CASE UNCHANGED vars
  BY <1>14 DEF vars
<1> QED
  BY <1>1, <1>2, <1>3, <1>4, <1>5, <1>6, <1>7, <1>8, <1>9, <1>10, <1>11,
     <1>12, <1>13, <1>14 DEF Next, CallerStep
\* An entry that is_authorized_for accepts was rendered under a grant that the
\* reader's grant covers.
LEMMA AuthorizedCovers ==
    ASSUME NEW required \in Grants, NEW readable \in Grants,
           IsAuthorizedFor(required, readable)
    PROVE  /\ required = {} <=> readable = {}
           /\ Wildcard \notin readable => required \subseteq readable
  BY RenderCacheAssumption DEF IsAuthorizedFor, Allows, Grants

\* What a cache read may answer satisfies the two properties of answers.
LEMMA HitIsGood ==
    ASSUME Inv, NEW c \in Callers, NEW k \in Keys, NEW e \in HitsFor(c, k)
    PROVE  /\ e \in Output
           /\ e.key = k
           /\ e.gen = gen[StyleOf[k]]
           /\ e.by = {} <=> Grant[c] = {}
           /\ Wildcard \notin Grant[c] => e.by \subseteq Grant[c]
<1>1. /\ e \in cache
      /\ e.key = k
      /\ IsAuthorizedFor(e.required, Grant[c])
  BY DEF HitsFor
<1>2. e \in Output /\ e.required = e.by /\ e.gen = gen[StyleOf[k]]
  BY <1>1 DEF Inv, TypeOK, CacheIsMap, NoStaleResident
<1>3. e.required \in Grants /\ Grant[c] \in Grants
  BY <1>2, RenderCacheAssumption DEF Output
<1> QED
  BY <1>1, <1>2, <1>3, AuthorizedCovers

\* Reading the cache, for a new request or after a wakeup, keeps the invariant.
LEMMA ReadCacheStep ==
    ASSUME Inv, TypeOK', NEW c \in Callers, NEW k \in Keys,
           pc[c] \in {"idle", "woken"},
           key' = [key EXCEPT ![c] = k],
           asked'[c] <= gen[StyleOf[k]],
           \A d \in Callers \ {c} : asked'[d] = asked[d] /\ waitOn'[d] = waitOn[d],
           ReadCache(c, k),
           UNCHANGED <<cache, flights, epoch, gen, leaderEpoch, renderGen>>
    PROVE  Inv'
<1> USE RenderCacheAssumption
<1>a. /\ pc'[c] \in {"served", "missed"}
      /\ \A d \in Callers \ {c} : /\ pc'[d] = pc[d]
                                  /\ key'[d] = key[d]
                                  /\ answer'[d] = answer[d]
      /\ key'[c] = k
      /\ answer'[c] # {} => /\ pc'[c] = "served"
                           /\ \E e \in HitsFor(c, k) : answer'[c] = {e}
  BY SMTT(30) DEF ReadCache, Inv, TypeOK, AnswerPhases
<1>1. FlightsHeld'
  BY <1>a DEF Inv, FlightsHeld, Holding, LeaderPhases
<1>2. SingleLeader'
  BY <1>a, SMTT(30) DEF Inv, SingleLeader, LeaderPhases
<1>3. CacheIsMap' /\ NoStaleResident'
  BY DEF Inv, CacheIsMap, NoStaleResident
<1>4. AskedPast'
  BY <1>a, SMTT(30) DEF Inv, AskedPast
<1>5. Fence'
  BY <1>a DEF Inv, Fence
<1>6. AnswerPhases'
  BY <1>a DEF Inv, AnswerPhases
<1>7. AnswersFresh'
  BY <1>a, HitIsGood, SMTT(30) DEF Inv, AnswersFresh, TypeOK
<1>8. AnswersAuthorized'
  BY <1>a, HitIsGood, SMTT(30) DEF Inv, AnswersAuthorized
<1>9. NoLostWakeup'
  <2> SUFFICES ASSUME NEW d \in Callers, pc'[d] = "waiting"
               PROVE  pc'[waitOn'[d]] \in LeaderPhases
    BY DEF NoLostWakeup
  <2>1. d # c /\ pc[d] = "waiting" /\ waitOn'[d] = waitOn[d]
    BY <1>a
  <2>2. waitOn[d] \in Callers /\ pc[waitOn[d]] \in LeaderPhases
    BY <2>1 DEF Inv, NoLostWakeup, TypeOK
  <2>3. waitOn[d] # c
    BY <2>2 DEF LeaderPhases
  <2> QED
    BY <1>a, <2>1, <2>2, <2>3
<1> QED
  BY <1>1, <1>2, <1>3, <1>4, <1>5, <1>6, <1>7, <1>8, <1>9 DEF Inv
\* Every action of the cache keeps the inductive invariant.
LEMMA InvStep == Inv /\ [Next]_vars => Inv'
<1> SUFFICES ASSUME Inv, [Next]_vars PROVE Inv'
  OBVIOUS
<1>0. TypeOK /\ TypeOK'
  BY TypeStep DEF Inv
<1> USE RenderCacheAssumption
<1>1. ASSUME NEW c \in Callers, NEW k \in Keys, Request(c, k)
      PROVE  Inv'
  <2>1. gen[StyleOf[k]] \in Nat /\ gen[StyleOf[k]] <= gen[StyleOf[k]]
    BY <1>0, SMTT(30) DEF TypeOK
  <2>2. asked'[c] <= gen[StyleOf[k]]
    BY <1>0, <1>1, <2>1 DEF Request, TypeOK
  <2>3. \A d \in Callers \ {c} : asked'[d] = asked[d] /\ waitOn'[d] = waitOn[d]
    BY <1>0, <1>1 DEF Request, TypeOK
  <2> QED
    BY <1>0, <1>1, <2>2, <2>3, ReadCacheStep, ZenonT(30) DEF Request
<1>2. ASSUME NEW c \in Callers, JoinOrLead(c)
      PROVE  Inv'
  <2>a. /\ pc[c] = "missed"
        /\ pc'[c] \in {"served", "waiting", "elected"}
        /\ \A d \in Callers \ {c} : /\ pc'[d] = pc[d]
                                    /\ answer'[d] = answer[d]
                                    /\ waitOn'[d] = waitOn[d]
        /\ UNCHANGED <<cache, epoch, gen, key, asked, leaderEpoch, renderGen>>
    BY <1>0, <1>2, SMTT(30) DEF JoinOrLead, TypeOK
  <2>b. /\ answer'[c] # {} => /\ pc'[c] = "served"
                             /\ \E e \in HitsFor(c, key[c]) : answer'[c] = {e}
        /\ pc'[c] = "waiting" => waitOn'[c] \in flights /\ waitOn'[c] # c
        /\ pc'[c] = "elected" => FlightOf(key[c]) = {} /\ flights' = flights \cup {c}
        /\ pc'[c] # "elected" => flights' = flights
    BY <1>0, <1>2, SMTT(30) DEF JoinOrLead, TypeOK, Inv, AnswerPhases, FlightsHeld,
                      Holding, LeaderPhases, FlightOf
  <2>1. FlightsHeld'
    BY <1>0, <2>a, <2>b DEF Inv, FlightsHeld, Holding, LeaderPhases, TypeOK
  <2>2. SingleLeader'
    BY <2>a, <2>b, SMTT(30) DEF Inv, SingleLeader, FlightsHeld, FlightOf, Holding,
                      LeaderPhases
  <2>3. CacheIsMap' /\ NoStaleResident'
    BY <2>a DEF Inv, CacheIsMap, NoStaleResident
  <2>4. AskedPast' /\ Fence'
    BY <2>a DEF Inv, AskedPast, Fence
  <2>5. AnswerPhases'
    BY <2>a, <2>b DEF Inv, AnswerPhases
  <2>6. AnswersFresh' /\ AnswersAuthorized'
    <3> SUFFICES ASSUME NEW d \in Callers, NEW a \in answer'[d]
                 PROVE  /\ a.key = key[d] /\ a.gen >= asked[d]
                        /\ a.by = {} <=> Grant[d] = {}
                        /\ Wildcard \notin Grant[d] => a.by \subseteq Grant[d]
      BY <2>a DEF AnswersFresh, AnswersAuthorized
    <3>1. CASE d = c
      <4>1. a \in HitsFor(c, key[c])
        BY <2>b, <3>1
      <4>2. asked[c] <= gen[StyleOf[key[c]]] /\ key[c] \in Keys
        BY <1>0, <2>a DEF Inv, AskedPast, TypeOK
      <4>3. asked[c] \in Nat /\ gen[StyleOf[key[c]]] \in Nat
        BY <1>0 DEF TypeOK
      <4> QED
        BY <3>1, <4>1, <4>2, <4>3, HitIsGood, SMTT(30)
    <3>2. CASE d # c
      BY <2>a, <3>2 DEF Inv, AnswersFresh, AnswersAuthorized
    <3> QED
      BY <3>1, <3>2
  <2>7. NoLostWakeup'
    <3> SUFFICES ASSUME NEW d \in Callers, pc'[d] = "waiting"
                 PROVE  pc'[waitOn'[d]] \in LeaderPhases
      BY DEF NoLostWakeup
    <3>1. CASE d = c
      BY <1>0, <2>a, <2>b, <3>1 DEF Inv, FlightsHeld, Holding, TypeOK
    <3>2. CASE d # c
      <4>1. waitOn[d] \in Callers /\ pc[waitOn[d]] \in LeaderPhases
        BY <1>0, <2>a, <3>2 DEF Inv, NoLostWakeup, TypeOK
      <4>2. waitOn[d] # c
        BY <2>a, <4>1 DEF LeaderPhases
      <4> QED
        BY <2>a, <3>2, <4>1, <4>2
    <3> QED
      BY <3>1, <3>2
  <2> QED
    BY <1>0, <2>1, <2>2, <2>3, <2>4, <2>5, <2>6, <2>7 DEF Inv
<1>3. ASSUME NEW c \in Callers, LoadEpoch(c)
      PROVE  Inv'
  <2>1. FlightsHeld' /\ SingleLeader'
    BY <1>0, <1>3, SMTT(30) DEF LoadEpoch, Inv, TypeOK, FlightsHeld, Holding,
       LeaderPhases, SingleLeader
  <2>2. CacheIsMap' /\ NoStaleResident'
    BY <1>3 DEF LoadEpoch, Inv, CacheIsMap, NoStaleResident
  <2>3. AskedPast' /\ Fence'
    BY <1>0, <1>3, SMTT(30) DEF LoadEpoch, Inv, TypeOK, AskedPast, Fence
  <2>4. AnswerPhases' /\ AnswersFresh' /\ AnswersAuthorized'
    BY <1>0, <1>3 DEF LoadEpoch, Inv, TypeOK, AnswerPhases, AnswersFresh, AnswersAuthorized
  <2>5. NoLostWakeup'
    BY <1>0, <1>3 DEF LoadEpoch, Inv, TypeOK, NoLostWakeup, LeaderPhases
  <2> QED
    BY <1>0, <2>1, <2>2, <2>3, <2>4, <2>5 DEF Inv
<1>4. ASSUME NEW c \in Callers, BeginRender(c)
      PROVE  Inv'
  <2>1. FlightsHeld' /\ SingleLeader'
    BY <1>0, <1>4, SMTT(30) DEF BeginRender, Inv, TypeOK, FlightsHeld, Holding,
       LeaderPhases, SingleLeader
  <2>2. CacheIsMap' /\ NoStaleResident'
    BY <1>4 DEF BeginRender, Inv, CacheIsMap, NoStaleResident
  <2>3. AskedPast' /\ Fence'
    BY <1>0, <1>4 DEF BeginRender, Inv, TypeOK, AskedPast, Fence
  <2>4. AnswerPhases' /\ AnswersFresh' /\ AnswersAuthorized'
    BY <1>0, <1>4 DEF BeginRender, Inv, TypeOK, AnswerPhases, AnswersFresh, AnswersAuthorized
  <2>5. NoLostWakeup'
    BY <1>0, <1>4 DEF BeginRender, Inv, TypeOK, NoLostWakeup, LeaderPhases
  <2> QED
    BY <1>0, <2>1, <2>2, <2>3, <2>4, <2>5 DEF Inv
<1>5. ASSUME NEW c \in Callers, CompleteRender(c)
      PROVE  Inv'
  <2>a. /\ pc[c] = "rendering" /\ pc'[c] = "dropping"
        /\ answer'[c] = {Rendered(c)}
        /\ \A d \in Callers \ {c} : pc'[d] = pc[d] /\ answer'[d] = answer[d]
        /\ UNCHANGED <<flights, epoch, gen, key, asked, leaderEpoch, renderGen,
                       waitOn>>
    BY <1>0, <1>5 DEF CompleteRender, TypeOK
  <2>b. cache' = InsertFromOutcome(c)
    BY <1>5 DEF CompleteRender
  <2>1. FlightsHeld' /\ SingleLeader'
    BY <2>a DEF Inv, FlightsHeld, SingleLeader, Holding, LeaderPhases
  <2>2. CacheIsMap'
    BY <2>b, SMTT(30) DEF Inv, CacheIsMap, InsertFromOutcome, Rendered
  <2>3. NoStaleResident'
    <3>1. leaderEpoch[c] = epoch => renderGen[c] = gen[StyleOf[key[c]]]
      BY <2>a DEF Inv, Fence
    <3> QED
      BY <2>a, <2>b, <3>1, SMTT(30) DEF Inv, NoStaleResident, InsertFromOutcome, Rendered
  <2>4. AskedPast' /\ Fence' /\ AnswerPhases'
    BY <2>a, SMTT(30) DEF Inv, AskedPast, Fence, AnswerPhases
  <2>5. AnswersFresh'
    BY <1>0, <2>a, SMTT(30) DEF Inv, AnswersFresh, Fence, Rendered, TypeOK
  <2>6. AnswersAuthorized'
    BY <2>a, SMTT(30) DEF Inv, AnswersAuthorized, Rendered
  <2>7. NoLostWakeup'
    BY <1>0, <2>a DEF Inv, NoLostWakeup, LeaderPhases, TypeOK
  <2> QED
    BY <1>0, <2>1, <2>2, <2>3, <2>4, <2>5, <2>6, <2>7 DEF Inv
<1>6. ASSUME NEW c \in Callers, Abandon(c)
      PROVE  Inv'
  <2>1. FlightsHeld' /\ SingleLeader'
    BY <1>0, <1>6, SMTT(30) DEF Abandon, Inv, TypeOK, FlightsHeld, Holding,
       LeaderPhases, SingleLeader
  <2>2. CacheIsMap' /\ NoStaleResident'
    BY <1>6 DEF Abandon, Inv, CacheIsMap, NoStaleResident
  <2>3. AskedPast' /\ Fence'
    BY <1>0, <1>6 DEF Abandon, Inv, TypeOK, AskedPast, Fence
  <2>4. AnswerPhases' /\ AnswersFresh' /\ AnswersAuthorized'
    BY <1>0, <1>6 DEF Abandon, Inv, TypeOK, AnswerPhases, AnswersFresh, AnswersAuthorized
  <2>5. NoLostWakeup'
    BY <1>0, <1>6 DEF Abandon, Inv, TypeOK, NoLostWakeup, LeaderPhases
  <2> QED
    BY <1>0, <2>1, <2>2, <2>3, <2>4, <2>5 DEF Inv
<1>7. ASSUME NEW c \in Callers, RemoveFlight(c)
      PROVE  Inv'
  <2>1. FlightsHeld' /\ SingleLeader'
    BY <1>0, <1>7, SMTT(30) DEF RemoveFlight, Inv, TypeOK, FlightsHeld, Holding,
       LeaderPhases, SingleLeader
  <2>2. CacheIsMap' /\ NoStaleResident'
    BY <1>7 DEF RemoveFlight, Inv, CacheIsMap, NoStaleResident
  <2>3. AskedPast' /\ Fence'
    BY <1>0, <1>7 DEF RemoveFlight, Inv, TypeOK, AskedPast, Fence
  <2>4. AnswerPhases' /\ AnswersFresh' /\ AnswersAuthorized'
    BY <1>0, <1>7 DEF RemoveFlight, Inv, TypeOK, AnswerPhases, AnswersFresh, AnswersAuthorized
  <2>5. NoLostWakeup'
    BY <1>0, <1>7 DEF RemoveFlight, Inv, TypeOK, NoLostWakeup, LeaderPhases
  <2> QED
    BY <1>0, <2>1, <2>2, <2>3, <2>4, <2>5 DEF Inv
<1>8. ASSUME NEW c \in Callers, Notify(c)
      PROVE  Inv'
  <2>a. /\ pc[c] = "notifying"
        /\ pc'[c] \in {"idle", "served"}
        /\ answer[c] # {} => pc'[c] = "served"
        /\ \A d \in Callers \ {c} :
             pc'[d] = IF pc[d] = "waiting" /\ waitOn[d] = c
                      THEN "woken" ELSE pc[d]
        /\ \A d \in Callers \ {c} :
             leaderEpoch'[d] = leaderEpoch[d] /\ renderGen'[d] = renderGen[d]
        /\ UNCHANGED <<cache, flights, epoch, gen, key, asked, waitOn, answer>>
    BY <1>0, <1>8 DEF Notify, AfterLeading, TypeOK
  <2>1. FlightsHeld' /\ SingleLeader'
    BY <2>a DEF Inv, FlightsHeld, SingleLeader, Holding, LeaderPhases
  <2>2. CacheIsMap' /\ NoStaleResident' /\ AnswersFresh' /\ AnswersAuthorized'
    BY <2>a DEF Inv, CacheIsMap, NoStaleResident, AnswersFresh,
                AnswersAuthorized
  <2>3. AskedPast' /\ Fence' /\ AnswerPhases'
    BY <2>a, SMTT(30) DEF Inv, AskedPast, Fence, AnswerPhases
  <2>4. NoLostWakeup'
    BY <1>0, <2>a, SMTT(30) DEF Inv, NoLostWakeup, LeaderPhases, TypeOK
  <2> QED
    BY <1>0, <2>1, <2>2, <2>3, <2>4 DEF Inv
<1>9. ASSUME NEW c \in Callers, Recheck(c)
       PROVE  Inv'
  <2>1. key[c] \in Keys /\ key' = [key EXCEPT ![c] = key[c]]
    BY <1>0, <1>9, SMTT(30) DEF Recheck, TypeOK
  <2>2. asked'[c] <= gen[StyleOf[key[c]]]
    BY <1>9 DEF Recheck, Inv, AskedPast
  <2>3. \A d \in Callers \ {c} : asked'[d] = asked[d] /\ waitOn'[d] = waitOn[d]
    BY <1>0, <1>9, SMTT(30) DEF Recheck, TypeOK
  <2>4. /\ pc[c] \in {"idle", "woken"} /\ ReadCache(c, key[c])
        /\ UNCHANGED <<cache, flights, epoch, gen, leaderEpoch, renderGen>>
    BY <1>9 DEF Recheck
  <2> QED
    BY <1>0, <2>1, <2>2, <2>3, <2>4, ReadCacheStep, ZenonT(30)
<1>10. ASSUME NEW c \in Callers, Deadline(c)
       PROVE  Inv'
  <2>1. FlightsHeld' /\ SingleLeader'
    BY <1>0, <1>10, SMTT(30) DEF Deadline, Inv, TypeOK, FlightsHeld, Holding,
       LeaderPhases, SingleLeader
  <2>2. CacheIsMap' /\ NoStaleResident'
    BY <1>10 DEF Deadline, Inv, CacheIsMap, NoStaleResident
  <2>3. AskedPast' /\ Fence'
    BY <1>0, <1>10, SMTT(30) DEF Deadline, Inv, TypeOK, AskedPast, Fence
  <2>4. AnswerPhases' /\ AnswersFresh' /\ AnswersAuthorized'
    BY <1>0, <1>10, SMTT(30) DEF Deadline, Inv, TypeOK, AnswerPhases, AnswersFresh, AnswersAuthorized
  <2>5. NoLostWakeup'
    BY <1>0, <1>10, SMTT(30) DEF Deadline, Inv, TypeOK, NoLostWakeup, LeaderPhases
  <2> QED
    BY <1>0, <2>1, <2>2, <2>3, <2>4, <2>5 DEF Inv
<1>11. ASSUME NEW c \in Callers, Finish(c)
       PROVE  Inv'
  <2>1. FlightsHeld' /\ SingleLeader'
    BY <1>0, <1>11, SMTT(30) DEF Finish, Inv, TypeOK, FlightsHeld, Holding,
       LeaderPhases, SingleLeader
  <2>2. CacheIsMap' /\ NoStaleResident'
    BY <1>11 DEF Finish, Inv, CacheIsMap, NoStaleResident
  <2>3. AskedPast' /\ Fence'
    BY <1>0, <1>11 DEF Finish, Inv, TypeOK, AskedPast, Fence
  <2>4. AnswerPhases' /\ AnswersFresh' /\ AnswersAuthorized'
    BY <1>0, <1>11 DEF Finish, Inv, TypeOK, AnswerPhases, AnswersFresh, AnswersAuthorized
  <2>5. NoLostWakeup'
    BY <1>0, <1>11 DEF Finish, Inv, TypeOK, NoLostWakeup, LeaderPhases
  <2> QED
    BY <1>0, <2>1, <2>2, <2>3, <2>4, <2>5 DEF Inv
<1>12. ASSUME NEW s \in Styles, InvalidateStyle(s)
       PROVE  Inv'
  <2>a. /\ epoch' = epoch + 1
        /\ cache' = {e \in cache : StyleOf[e.key] # s}
        /\ \A t \in Styles : gen'[t] = IF t = s THEN gen[t] + 1 ELSE gen[t]
        /\ UNCHANGED <<flights, pc, key, asked, leaderEpoch, renderGen, waitOn,
                       answer>>
    BY <1>0, <1>12 DEF InvalidateStyle, TypeOK
  <2>1. FlightsHeld' /\ SingleLeader' /\ CacheIsMap' /\ AnswerPhases'
    BY <2>a DEF Inv, FlightsHeld, SingleLeader, CacheIsMap, AnswerPhases
  <2>2. NoStaleResident'
    BY <1>0, <2>a DEF Inv, NoStaleResident, TypeOK, Output
  <2>3. AskedPast'
    BY <1>0, <2>a, SMTT(30) DEF Inv, AskedPast, TypeOK
  <2>4. Fence'
    BY <1>0, <2>a, SMTT(30) DEF Inv, Fence, TypeOK
  <2>5. AnswersFresh' /\ AnswersAuthorized' /\ NoLostWakeup'
    BY <2>a DEF Inv, AnswersFresh, AnswersAuthorized, NoLostWakeup
  <2> QED
    BY <1>0, <2>1, <2>2, <2>3, <2>4, <2>5 DEF Inv
<1>13. ASSUME NEW e \in cache, Evict(e)
       PROVE  Inv'
  BY <1>0, <1>13, SMTT(30) DEF Evict, Inv, FlightsHeld, SingleLeader, CacheIsMap,
     NoStaleResident, AskedPast, Fence, AnswerPhases, AnswersFresh,
     AnswersAuthorized, NoLostWakeup
<1>14. CASE UNCHANGED vars
  BY <1>0, <1>14 DEF vars, Inv, FlightsHeld, SingleLeader, CacheIsMap,
     NoStaleResident, AskedPast, Fence, AnswerPhases, AnswersFresh,
     AnswersAuthorized, NoLostWakeup
<1> QED
  BY <1>1, <1>2, <1>3, <1>4, <1>5, <1>6, <1>7, <1>8, <1>9, <1>10, <1>11,
     <1>12, <1>13, <1>14 DEF Next, CallerStep

\* The initial state of an empty cache satisfies the inductive invariant.
LEMMA InvInit == Init => Inv
  BY RenderCacheAssumption, SMTT(30) DEF Init, Inv, TypeOK, Phases, FlightsHeld, Holding,
     LeaderPhases, SingleLeader, CacheIsMap, NoStaleResident, AskedPast, Fence,
     AnswerPhases, AnswersFresh, AnswersAuthorized, NoLostWakeup

\* The inductive invariant holds in every reachable state.
LEMMA Invariance == Spec => []Inv
  BY InvInit, InvStep, PTL DEF Spec

\* Type correctness of the render cache.
THEOREM TypeCorrect == Spec => []TypeOK
<1>1. Inv => TypeOK
  BY DEF Inv
<1> QED
  BY <1>1, Invariance, PTL

\* Single flight: at most one caller holds the right to render a key.
THEOREM SingleFlight == Spec => []SingleLeader
<1>1. Inv => SingleLeader
  BY DEF Inv
<1> QED
  BY <1>1, Invariance, PTL

\* No resident entry predates the latest invalidation of its style, and no
\* caller is answered with output older than the invalidations it came after.
THEOREM InvalidationFences == Spec => [](NoStaleResident /\ AnswersFresh)
<1>1. Inv => NoStaleResident /\ AnswersFresh
  BY DEF Inv
<1> QED
  BY <1>1, Invariance, PTL

\* Cached bytes only reach callers whose grant covers the producer's grant.
THEOREM Authorization == Spec => []AnswersAuthorized
<1>1. Inv => AnswersAuthorized
  BY DEF Inv
<1> QED
  BY <1>1, Invariance, PTL

\* A parked follower always has a leader that will still signal it.
THEOREM WakeupPending == Spec => []NoLostWakeup
<1>1. Inv => NoLostWakeup
  BY DEF Inv
<1> QED
  BY <1>1, Invariance, PTL

\* A resident entry is only ever replaced by one with the same requirement.
THEOREM RequirementStable == Spec => RequirementKept
<1> DEFINE Kept ==
      \A e \in cache, f \in cache' : e.key = f.key => e.required = f.required
<1>1. Inv /\ [Next]_vars => [Kept]_vars
  <2> SUFFICES ASSUME Inv, Next PROVE Kept
    OBVIOUS
  <2>0. \A e, f \in cache : e.key = f.key => e.required = f.required
    BY DEF Inv, CacheIsMap
  <2>1. CASE cache' \subseteq cache
    BY <2>0, <2>1
  <2>2. ASSUME NEW c \in Callers, CompleteRender(c)
        PROVE  Kept
    <3> DEFINE Agree == \A e \in cache : e.key = key[c] => e.required = Grant[c]
    <3>1. Rendered(c).key = key[c] /\ Rendered(c).required = Grant[c]
      BY DEF Rendered
    <3>2. \/ cache' = cache
          \/ Agree /\ cache' = {e \in cache : e.key # key[c]} \cup {Rendered(c)}
      BY <2>2 DEF CompleteRender, InsertFromOutcome
    <3>3. ASSUME NEW e \in cache, NEW f \in cache', e.key = f.key
          PROVE  e.required = f.required
      <4>1. CASE f \in cache
        BY <2>0, <3>3, <4>1
      <4>2. CASE f \notin cache
        <5>1. Agree /\ f = Rendered(c)
          BY <3>2, <3>3, <4>2, SMTT(30)
        <5> QED
          BY <3>1, <3>3, <5>1
      <4> QED
        BY <4>1, <4>2
    <3> QED
      BY <3>3
  <2>3. (\E c \in Callers : CompleteRender(c)) \/ cache' \subseteq cache
    BY DEF Next, CallerStep, Request, JoinOrLead, LoadEpoch, BeginRender,
       Abandon, RemoveFlight, Notify, Recheck, Deadline, Finish,
       InvalidateStyle, Evict
  <2> QED
    BY <2>1, <2>2, <2>3, SMTT(30)
<1> QED
  BY <1>1, Invariance, PTL DEF Spec, RequirementKept
=============================================================================
