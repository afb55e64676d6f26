-------------------------- MODULE ApiSessionProofs --------------------------
(****************************************************************************)
(* Proofs about ApiSession, for any definitions, endpoints, TTLs, budget    *)
(* and any number of scrapes and sessions.                                  *)
(****************************************************************************)
EXTENDS ApiSession, TLAPS, WellFoundedInduction

-----------------------------------------------------------------------------
(* The smallest TTL                                                         *)

\* Every nonempty set of naturals has a least element.
LEMMA LeastNatural ==
    ASSUME NEW T, T \subseteq Nat, T # {}
    PROVE  \E t \in T : \A u \in T : t <= u
<1> DEFINE Less == {p \in Nat \X Nat : p[1] < p[2]}
<1>1. IsWellFoundedOn(Less, Nat)
  BY NatLessThanWellFounded DEF OpToRel
<1>2. PICK t \in T : \A u \in T : ~(<<u, t>> \in Less)
  <2>. HIDE DEF Less
  <2>. QED
    BY <1>1, WFMin
<1>3. ASSUME NEW u \in T PROVE t <= u
  <2>1. <<u, t>> \in Nat \X Nat /\ <<u, t>>[1] = u /\ <<u, t>>[2] = t
    OBVIOUS
  <2>2. ~(<<u, t>>[1] < <<u, t>>[2])
    BY <1>2, <2>1
  <2>. QED
    BY <2>1, <2>2
<1>. QED
  BY <1>3

\* The smallest TTL of an endpoint is none that is longer than that of one of
\* its definitions (api_collector.go:228-234).
LEMMA SmallestTTLIsSmallest ==
    ASSUME i \in Definitions
    PROVE  /\ SmallestTTL \in Nat \ {0}
           /\ \A d \in Definitions : Endpoint[d] = This => SmallestTTL <= TTL[d]
<1> DEFINE T == {TTL[d] : d \in {e \in Definitions : Endpoint[e] = This}}
           Smallest(t) == /\ \E d \in Definitions : Endpoint[d] = This /\ TTL[d] = t
                          /\ \A d \in Definitions : Endpoint[d] = This => t <= TTL[d]
<1>1. T \subseteq Nat \ {0} /\ T # {}
  BY ParametersAssumption DEF This
<1>2. PICK t \in T : \A u \in T : t <= u
  <2>. HIDE DEF T
  <2>. QED
    BY <1>1, LeastNatural
<1>3. Smallest(t) /\ t \in {TTL[d] : d \in Definitions}
  BY <1>2
<1>4. Smallest(SmallestTTL)
  BY <1>3 DEF SmallestTTL
<1>. QED
  BY <1>4, ParametersAssumption

-----------------------------------------------------------------------------
(* The invariant                                                            *)

\* A load is for a definition of which nothing is known in this scrape.
LoadingIsAt == Loading => i \in Definitions /\ memo[This] = Unknown

\* What is loaded was not known before.
LoadsAreCounted ==
    \A e \in Endpoints :
        loads[e] = 0 \/ (loads[e] = 1 /\ (memo[e] # Unknown \/ (Loading /\ e = This)))

\* A login is made when no session is held.
LoginHasNoSession == pc = "login" => sid = NoSid

\* A failure is remembered in the scrape, not in the cache.
CacheHoldsData == \A e \in Endpoints : cache[e].data # Failure

\* A second attempt that is refused, and a check that finds a session which is
\* known, follow a fault.
RefusalIsFaulty ==
    /\ pc = "request" /\ attempt = 1 /\ sid \notin valid => This \in trouble
    /\ pc = "check" /\ sid \in valid => This \in trouble

\* The session that is held is not lost yet.
SessionsAreCounted == issued <= losses + (IF sid \in valid THEN 1 ELSE 0)

\* The cache keeps nothing longer than any definition of the endpoint allows.
CacheExpires ==
    \A e \in Endpoints : cache[e].data # Unknown =>
        \A d \in Definitions : Endpoint[d] = e => cache[e].expires <= cache[e].data.at + TTL[d]

\* When the scrape began, its data had not expired.
MemoIsRecent ==
    /\ began <= now
    /\ \A e \in Endpoints : memo[e] \notin {Unknown, Failure} =>
           \A d \in Definitions : Endpoint[d] = e => began < memo[e].at + TTL[d]

SessionInv == LoginHasNoSession /\ CacheHoldsData /\ CacheIsOfThisSession /\ SessionsAreCounted
LoadInv == LoadingIsAt /\ LoadsAreCounted /\ ForgottenSessionIsRenewed /\ RefusalIsFaulty
AgeInv == CacheExpires /\ MemoIsRecent

IInv == TypeOK /\ SessionInv /\ LoadInv /\ AgeInv

\* Data is neither unknown nor a failure, and knows its session and time.
LEMMA ResultsDiffer ==
    /\ Unknown # Failure
    /\ Unknown.state # "data" /\ Failure.state # "data"
    /\ \A s, t : /\ Data(s, t) \notin {Unknown, Failure}
                 /\ Data(s, t).state = "data" /\ Data(s, t).sid = s /\ Data(s, t).at = t
  BY DEF Unknown, Failure, Data

\* The results there may be.
LEMMA ResultsAre ==
    /\ Unknown \in Results /\ Failure \in Results
    /\ \A s \in 1 .. MaxSid, t \in 0 .. MaxTime : Data(s, t) \in Results
    /\ \A r \in Results \ {Unknown, Failure} : r.sid \in 1 .. MaxSid /\ r.at \in 0 .. MaxTime
  BY ResultsDiffer DEF Results

\* Whatever is judged or loaded is a definition, and its endpoint is one.
LEMMA ThisIsEndpoint ==
    ASSUME i \in Definitions PROVE This \in Endpoints /\ i + 1 \in 0 .. N + 1
  BY ParametersAssumption DEF This, Endpoints, Definitions

\* No session and nothing collected at first.
LEMMA InitHolds == Init => IInv
  BY ParametersAssumption, ResultsDiffer
  DEF Init, IInv, TypeOK, SessionInv, LoadInv, AgeInv, Endpoints, Results, Empty, NotCached,
      NoSid, LoadingIsAt, Loading, LoadsAreCounted, LoginHasNoSession, CacheHoldsData,
      CacheIsOfThisSession, ForgottenSessionIsRenewed, RefusalIsFaulty, SessionsAreCounted,
      CacheExpires, MemoIsRecent

(* Every step keeps the ranges of the variables ...                         *)
LEMMA TypeKeeps == IInv /\ [Next]_vars => TypeOK'
<1> SUFFICES ASSUME TypeOK, LoadingIsAt, [Next]_vars PROVE TypeOK'
  BY DEF IInv, LoadInv
<1> USE DEF TypeOK, scrape, router, clock
<1>1. CASE StartScrape
  BY <1>1, ParametersAssumption, ResultsAre DEF StartScrape
<1>2. CASE OutOfTime
  BY <1>2, ThisIsEndpoint DEF OutOfTime, AtDefinition, Judge
<1>3. CASE FromMemo
  BY <1>3, ThisIsEndpoint DEF FromMemo, AtDefinition, JudgeBy, Judge
<1>4. CASE FromCache
  BY <1>4, ThisIsEndpoint DEF FromCache, AtDefinition, JudgeBy, Judge, Cached
<1>5. CASE StartLoad
  BY <1>5, ThisIsEndpoint DEF StartLoad, AtDefinition
<1>6. CASE FinishScrape
  BY <1>6 DEF FinishScrape
<1>7. CASE LoginSucceeds
  BY <1>7, ParametersAssumption DEF LoginSucceeds, NoSid
<1>8. CASE LoginFails
  BY <1>8, ThisIsEndpoint, ResultsAre
  DEF LoginFails, LoadFails, Judge, Fault, LoadingIsAt, Loading
<1>9. CASE RequestFails
  BY <1>9, ThisIsEndpoint, ResultsAre, ParametersAssumption DEF RequestFails, Invalidate,
      LoadFails, Judge, Fault, Lost, LoadingIsAt, Loading, Empty, NotCached, NoSid
<1>10. CASE RequestSucceeds
  BY <1>10, ThisIsEndpoint, ResultsAre, SmallestTTLIsSmallest
  DEF RequestSucceeds, Answered, Judge, LoadingIsAt, Loading
<1>11. CASE Refused
  BY <1>11, ThisIsEndpoint, ResultsAre, ParametersAssumption DEF Refused, Answered,
      Invalidate, Retry, GiveUp, LoadFails, Judge, Fault, Lost, LoadingIsAt, Loading,
      Empty, NotCached, NoSid
<1>12. CASE BadRequest
  BY <1>12, ThisIsEndpoint, ResultsAre
  DEF BadRequest, Answered, LoadFails, Judge, Fault, LoadingIsAt, Loading
<1>13. CASE BadAnswer
  BY <1>13, ThisIsEndpoint, ResultsAre
  DEF BadAnswer, Answered, LoadFails, Judge, Fault, LoadingIsAt, Loading
<1>14. CASE CheckFails
  BY <1>14, ThisIsEndpoint, ResultsAre, ParametersAssumption DEF CheckFails, Invalidate,
      LoadFails, Judge, Fault, Lost, LoadingIsAt, Loading, Empty, NotCached, NoSid
<1>15. CASE CheckFindsValid
  BY <1>15, ThisIsEndpoint, ResultsAre
  DEF CheckFindsValid, LoadFails, Judge, LoadingIsAt, Loading
<1>16. CASE CheckFindsInvalid
  BY <1>16, ResultsAre, ParametersAssumption
  DEF CheckFindsInvalid, Invalidate, Retry, Empty, NotCached, NoSid
<1>17. CASE Forget
  <2>1. PICK gone : valid' = valid \ gone /\ (IF sid \in gone THEN Lost ELSE UNCHANGED losses)
    BY <1>17 DEF Forget
  <2>2. trouble' \subseteq Endpoints
    BY <1>17, ThisIsEndpoint DEF Forget, LoadingIsAt
  <2>3. valid' \subseteq 1 .. MaxSid
    BY <2>1
  <2>4. losses' \in {losses, losses + 1}
    BY <2>1 DEF Lost
  <2>. QED
    BY <1>17, <2>2, <2>3, <2>4 DEF Forget
<1>18. CASE Tick
  BY <1>18, ParametersAssumption DEF Tick
<1>19. CASE UNCHANGED vars
  BY <1>19 DEF vars
<1>. QED
  BY <1>1, <1>2, <1>3, <1>4, <1>5, <1>6, <1>7, <1>8, <1>9, <1>10, <1>11, <1>12, <1>13,
      <1>14, <1>15, <1>16, <1>17, <1>18, <1>19 DEF Next, Collect, Load, Rest

(* ... what is said of the session and of what was cached with it ...       *)
LEMMA SessionKeeps == IInv /\ [Next]_vars => SessionInv'
<1> SUFFICES ASSUME TypeOK, LoadingIsAt, SessionInv, [Next]_vars PROVE SessionInv'
  BY DEF IInv, LoadInv
<1> USE ResultsDiffer DEF scrape, router, clock, TypeOK, NoSid, SessionInv,
    LoginHasNoSession, CacheHoldsData, CacheIsOfThisSession, SessionsAreCounted
<1>1. CASE StartScrape
  BY <1>1 DEF StartScrape
<1>2. CASE OutOfTime
  BY <1>2 DEF OutOfTime, AtDefinition, Judge
<1>3. CASE FromMemo
  BY <1>3 DEF FromMemo, AtDefinition, JudgeBy, Judge
<1>4. CASE FromCache
  BY <1>4 DEF FromCache, AtDefinition, JudgeBy, Judge, Cached
<1>5. CASE StartLoad
  BY <1>5 DEF StartLoad, AtDefinition
<1>6. CASE FinishScrape
  BY <1>6 DEF FinishScrape
<1>7. CASE LoginSucceeds
  BY <1>7, ParametersAssumption, ResultsAre DEF LoginSucceeds
<1>8. CASE LoginFails
  BY <1>8 DEF LoginFails, LoadFails, Judge, Fault
<1>9. CASE RequestFails
  BY <1>9 DEF RequestFails, Invalidate, LoadFails, Judge, Fault, Lost, Empty, NotCached
<1>10. CASE RequestSucceeds
  BY <1>10 DEF RequestSucceeds, Answered, Judge
<1>11. CASE Refused
  BY <1>11 DEF Refused, Answered, Invalidate, Retry, GiveUp, LoadFails, Judge, Fault,
      Lost, Empty, NotCached
<1>12. CASE BadRequest
  BY <1>12 DEF BadRequest, Answered, LoadFails, Judge, Fault
<1>13. CASE BadAnswer
  BY <1>13 DEF BadAnswer, Answered, LoadFails, Judge, Fault
<1>14. CASE CheckFails
  BY <1>14 DEF CheckFails, Invalidate, LoadFails, Judge, Fault, Lost, Empty, NotCached
<1>15. CASE CheckFindsValid
  BY <1>15 DEF CheckFindsValid, LoadFails, Judge
<1>16. CASE CheckFindsInvalid
  BY <1>16 DEF CheckFindsInvalid, Invalidate, Retry, Empty, NotCached
<1>17. CASE Forget
  <2>1. PICK gone : valid' = valid \ gone /\ (IF sid \in gone THEN Lost ELSE UNCHANGED losses)
    BY <1>17 DEF Forget
  <2>. QED
    BY <1>17, <2>1 DEF Forget, Lost
<1>18. CASE Tick
  BY <1>18 DEF Tick
<1>19. CASE UNCHANGED vars
  BY <1>19 DEF vars
<1>. QED
  BY <1>1, <1>2, <1>3, <1>4, <1>5, <1>6, <1>7, <1>8, <1>9, <1>10, <1>11, <1>12, <1>13,
      <1>14, <1>15, <1>16, <1>17, <1>18, <1>19 DEF Next, Collect, Load, Rest

(* ... of the loads of this scrape and what failed in it ...                *)
LEMMA LoadKeeps == IInv /\ [Next]_vars => LoadInv'
<1> SUFFICES ASSUME TypeOK, CacheHoldsData, LoadInv, [Next]_vars PROVE LoadInv'
  BY DEF IInv, SessionInv
<1> USE ResultsDiffer DEF scrape, router, clock, TypeOK, LoadInv, LoadingIsAt,
    LoadsAreCounted, ForgottenSessionIsRenewed, RefusalIsFaulty, Loading, This
<1>1. CASE StartScrape
  BY <1>1 DEF StartScrape
<1>2. CASE OutOfTime
  BY <1>2 DEF OutOfTime, AtDefinition, Judge
<1>3. CASE FromMemo
  BY <1>3 DEF FromMemo, AtDefinition, JudgeBy, Judge
<1>4. CASE FromCache
  BY <1>4, ThisIsEndpoint
  DEF FromCache, AtDefinition, JudgeBy, Judge, Cached, CacheHoldsData
<1>5. CASE StartLoad
  BY <1>5, ThisIsEndpoint DEF StartLoad, AtDefinition
<1>6. CASE FinishScrape
  BY <1>6 DEF FinishScrape
<1>7. CASE LoginSucceeds
  BY <1>7 DEF LoginSucceeds
<1>8. CASE LoginFails
  BY <1>8, ThisIsEndpoint DEF LoginFails, LoadFails, Judge, Fault
<1>9. CASE RequestFails
  BY <1>9, ThisIsEndpoint DEF RequestFails, Invalidate, LoadFails, Judge, Fault, Lost
<1>10. CASE RequestSucceeds
  BY <1>10, ThisIsEndpoint DEF RequestSucceeds, Answered, Judge
<1>11. CASE Refused
  BY <1>11, ThisIsEndpoint
  DEF Refused, Answered, Invalidate, Retry, GiveUp, LoadFails, Judge, Fault, Lost
<1>12. CASE BadRequest
  BY <1>12, ThisIsEndpoint DEF BadRequest, Answered, LoadFails, Judge, Fault
<1>13. CASE BadAnswer
  BY <1>13, ThisIsEndpoint DEF BadAnswer, Answered, LoadFails, Judge, Fault
<1>14. CASE CheckFails
  BY <1>14, ThisIsEndpoint DEF CheckFails, Invalidate, LoadFails, Judge, Fault, Lost
<1>15. CASE CheckFindsValid
  BY <1>15, ThisIsEndpoint DEF CheckFindsValid, LoadFails, Judge
<1>16. CASE CheckFindsInvalid
  BY <1>16 DEF CheckFindsInvalid, Invalidate, Retry
<1>17. CASE Forget
  <2>1. PICK gone : valid' = valid \ gone /\ (IF sid \in gone THEN Lost ELSE UNCHANGED losses)
    BY <1>17 DEF Forget
  <2>. QED
    BY <1>17, <2>1 DEF Forget, Lost
<1>18. CASE Tick
  BY <1>18 DEF Tick
<1>19. CASE UNCHANGED vars
  BY <1>19 DEF vars
<1>. QED
  BY <1>1, <1>2, <1>3, <1>4, <1>5, <1>6, <1>7, <1>8, <1>9, <1>10, <1>11, <1>12, <1>13,
      <1>14, <1>15, <1>16, <1>17, <1>18, <1>19 DEF Next, Collect, Load, Rest

(* ... and of the age of what is cached or remembered.                      *)
LEMMA AgeKeeps == IInv /\ [Next]_vars => AgeInv'
<1> SUFFICES ASSUME TypeOK, LoadingIsAt, CacheHoldsData, AgeInv, [Next]_vars PROVE AgeInv'
  BY DEF IInv, LoadInv, SessionInv
<1> USE ResultsDiffer DEF scrape, router, clock, TypeOK, AgeInv, CacheExpires,
    MemoIsRecent, LoadingIsAt, Loading
<1>1. CASE StartScrape
  BY <1>1 DEF StartScrape
<1>2. CASE OutOfTime
  BY <1>2 DEF OutOfTime, AtDefinition, Judge
<1>3. CASE FromMemo
  BY <1>3 DEF FromMemo, AtDefinition, JudgeBy, Judge
<1>4. CASE FromCache
  <2>1. This \in Endpoints /\ cache[This].data \notin {Unknown, Failure}
        /\ now < cache[This].expires
    BY <1>4, ThisIsEndpoint DEF FromCache, AtDefinition, Cached, CacheHoldsData
  <2>2. cache[This].data.at \in Nat /\ cache[This].expires \in Nat
    BY <2>1, ResultsAre
  <2>3. ASSUME NEW d \in Definitions, Endpoint[d] = This
        PROVE  began < cache[This].data.at + TTL[d]
    BY <2>1, <2>2, <2>3, ParametersAssumption
  <2>. QED
    BY <1>4, <2>1, <2>3 DEF FromCache, AtDefinition, JudgeBy, Judge
<1>5. CASE StartLoad
  BY <1>5 DEF StartLoad, AtDefinition
<1>6. CASE FinishScrape
  BY <1>6 DEF FinishScrape
<1>7. CASE LoginSucceeds
  BY <1>7 DEF LoginSucceeds
<1>8. CASE LoginFails
  BY <1>8 DEF LoginFails, LoadFails, Judge, Fault
<1>9. CASE RequestFails
  BY <1>9 DEF RequestFails, Invalidate, LoadFails, Judge, Fault, Lost, Empty, NotCached
<1>10. CASE RequestSucceeds
  <2>1. This \in Endpoints /\ i \in Definitions
    BY <1>10, ThisIsEndpoint DEF RequestSucceeds, Answered
  <2>2. ASSUME NEW d \in Definitions, Endpoint[d] = This
        PROVE  began < now + TTL[d] /\ now + SmallestTTL <= now + TTL[d]
    BY <2>1, <2>2, ParametersAssumption, SmallestTTLIsSmallest
  <2>3. cache' = [cache EXCEPT ![This] = [data |-> Data(sid, now), expires |-> now + SmallestTTL]]
        /\ memo' = [memo EXCEPT ![This] = Data(sid, now)] /\ UNCHANGED <<began, now>>
    BY <1>10 DEF RequestSucceeds
  <2>. HIDE DEF This
  <2>. QED
    BY <2>1, <2>2, <2>3
<1>11. CASE Refused
  BY <1>11 DEF Refused, Answered, Invalidate, Retry, GiveUp, LoadFails, Judge, Fault,
      Lost, Empty, NotCached
<1>12. CASE BadRequest
  BY <1>12 DEF BadRequest, Answered, LoadFails, Judge, Fault
<1>13. CASE BadAnswer
  BY <1>13 DEF BadAnswer, Answered, LoadFails, Judge, Fault
<1>14. CASE CheckFails
  BY <1>14 DEF CheckFails, Invalidate, LoadFails, Judge, Fault, Lost, Empty, NotCached
<1>15. CASE CheckFindsValid
  BY <1>15 DEF CheckFindsValid, LoadFails, Judge
<1>16. CASE CheckFindsInvalid
  BY <1>16 DEF CheckFindsInvalid, Invalidate, Retry, Empty, NotCached
<1>17. CASE Forget
  <2>1. PICK gone : valid' = valid \ gone /\ (IF sid \in gone THEN Lost ELSE UNCHANGED losses)
    BY <1>17 DEF Forget
  <2>. QED
    BY <1>17, <2>1 DEF Forget, Lost
<1>18. CASE Tick
  BY <1>18 DEF Tick
<1>19. CASE UNCHANGED vars
  BY <1>19 DEF vars
<1>. QED
  BY <1>1, <1>2, <1>3, <1>4, <1>5, <1>6, <1>7, <1>8, <1>9, <1>10, <1>11, <1>12, <1>13,
      <1>14, <1>15, <1>16, <1>17, <1>18, <1>19 DEF Next, Collect, Load, Rest

-----------------------------------------------------------------------------
(* The theorems                                                             *)

THEOREM InvariantHolds == Spec => []IInv
<1>1. IInv /\ [Next]_vars => IInv'
  BY TypeKeeps, SessionKeeps, LoadKeeps, AgeKeeps DEF IInv
<1>. QED
  BY InitHolds, <1>1, PTL DEF Spec

(* Every variable stays in its range, the attempts of a load among them:    *)
(* there are never more than two (api_collector.go:135-187).                *)
THEOREM TypeCorrect == Spec => []TypeOK
<1>1. IInv => TypeOK
  BY DEF IInv
<1>. QED
  BY InvariantHolds, <1>1, PTL

(* Nothing of a session that was given up stays in the cache                *)
(* (api_collector.go:128-132, 235).                                         *)
THEOREM CacheFollowsSession == Spec => []CacheIsOfThisSession
<1>1. IInv => CacheIsOfThisSession
  BY DEF IInv, SessionInv
<1>. QED
  BY InvariantHolds, <1>1, PTL

(* An endpoint fails only because of a fault within its own load, never for *)
(* a session that was forgotten before it (api_collector.go:135-187).       *)
THEOREM OnlyFaultsFail == Spec => []ForgottenSessionIsRenewed
<1>1. IInv => ForgottenSessionIsRenewed
  BY DEF IInv, LoadInv
<1>. QED
  BY InvariantHolds, <1>1, PTL

(* A login is made only for the first session or a lost one                 *)
(* (api_collector.go:156-173).                                              *)
THEOREM LoginsStayNeeded == Spec => []LoginsAreNeeded
<1>1. IInv => LoginsAreNeeded
  <2> SUFFICES ASSUME IInv PROVE issued <= losses + 1
    BY DEF LoginsAreNeeded
  <2>1. issued \in Nat /\ losses \in Nat
    BY ParametersAssumption DEF IInv, TypeOK
  <2>. QED
    BY <2>1 DEF IInv, SessionInv, SessionsAreCounted
<1>. QED
  BY InvariantHolds, <1>1, PTL

(* No scrape asks for an endpoint twice, whatever fails                     *)
(* (api_collector.go:204-207, 215-239).                                     *)
THEOREM LoadsStayOne == Spec => []OneLoadPerScrape
<1>1. IInv => OneLoadPerScrape
  <2> SUFFICES ASSUME IInv, NEW e \in Endpoints PROVE loads[e] <= 1
    BY DEF OneLoadPerScrape
  <2>1. loads[e] = 0 \/ loads[e] = 1
    BY DEF IInv, LoadInv, LoadsAreCounted
  <2>. QED
    BY <2>1
<1>. QED
  BY InvariantHolds, <1>1, PTL

\* A definition succeeds with what this scrape knew, with the cache, or with
\* an answer.
LEMMA HowToSucceed ==
    ASSUME IInv, Next, NEW d \in Definitions, verdict[d] # "ok", verdict'[d] = "ok"
    PROVE  d = i /\ (FromMemo \/ FromCache \/ RequestSucceeds)
<1> USE DEF IInv, TypeOK, scrape
<1>1. ~StartScrape /\ ~FinishScrape /\ ~StartLoad /\ ~LoginSucceeds
  BY DEF StartScrape, FinishScrape, StartLoad, LoginSucceeds
<1>2. ~OutOfTime
  BY DEF OutOfTime, Judge
<1>3. ~LoadFails
  BY DEF LoadFails, Judge
<1>4. ~LoginFails /\ ~RequestFails /\ ~BadAnswer /\ ~CheckFails /\ ~CheckFindsValid
  BY <1>3 DEF LoginFails, RequestFails, BadAnswer, CheckFails, CheckFindsValid
<1>5. ~Retry
  BY DEF Retry
<1>6. ~Refused /\ ~BadRequest /\ ~CheckFindsInvalid
  BY <1>3, <1>5 DEF Refused, GiveUp, BadRequest, CheckFindsInvalid
<1>7. ~Forget /\ ~Tick /\ ~Rest
  BY DEF Forget, Tick, Rest, vars
<1>8. FromMemo \/ FromCache \/ RequestSucceeds
  BY <1>1, <1>2, <1>4, <1>6, <1>7 DEF Next, Collect, Load
<1>. QED
  BY <1>8 DEF FromMemo, FromCache, RequestSucceeds, JudgeBy, Judge

(* What a definition is given is no older than its own TTL and the budget   *)
(* of a scrape, whichever definition fetched it and whichever scrape        *)
(* (api_collector.go:217, 228-235).                                         *)
THEOREM DataStaysFresh == Spec => DataIsFresh
<1>1. ASSUME IInv, Next, NEW d \in Definitions, verdict[d] # "ok", verdict'[d] = "ok"
      PROVE  now - memo'[Endpoint[d]].at < TTL[d] + Budget
  <2>1. d = i /\ Endpoint[d] = This /\ This \in Endpoints
    BY <1>1, HowToSucceed, ThisIsEndpoint DEF This
  <2>2. now \in Nat /\ began \in Nat /\ TTL[d] \in Nat \ {0} /\ Budget \in Nat \ {0}
    BY <1>1, ParametersAssumption DEF IInv, TypeOK
  <2>3. memo \in [Endpoints -> Results] /\ cache[This].data \in Results
        /\ cache[This].expires \in Nat
    BY <1>1, <2>1 DEF IInv, TypeOK
  <2>4. CASE FromMemo
    <3>1. memo'[This] = memo[This] /\ now - began < Budget
      BY <2>2, <2>4 DEF FromMemo, BudgetOver
    <3>2. memo[This].state = "data"
      BY <1>1, <2>1, <2>4 DEF FromMemo, JudgeBy, Judge, IInv, TypeOK
    <3>3. memo[This] \notin {Unknown, Failure} /\ memo[This].at \in Nat
      BY <2>1, <2>3, <3>2, ResultsDiffer, ResultsAre
    <3>4. began < memo[This].at + TTL[d]
      BY <1>1, <2>1, <3>3 DEF IInv, AgeInv, MemoIsRecent
    <3>. QED
      BY <2>1, <2>2, <3>1, <3>3, <3>4
  <2>5. CASE FromCache
    <3>1. memo'[This] = cache[This].data
      BY <2>1, <2>3, <2>5 DEF FromCache
    <3>2. cache[This].data \notin {Unknown, Failure} /\ now < cache[This].expires
      BY <1>1, <2>1, <2>5 DEF FromCache, Cached, IInv, SessionInv, CacheHoldsData
    <3>3. cache[This].data.at \in Nat
      BY <2>3, <3>2, ResultsAre
    <3>4. cache[This].expires <= cache[This].data.at + TTL[d]
      BY <1>1, <2>1, <3>2 DEF IInv, AgeInv, CacheExpires
    <3>. QED
      BY <2>1, <2>2, <2>3, <3>1, <3>2, <3>3, <3>4
  <2>6. CASE RequestSucceeds
    <3>1. memo'[This].at = now
      BY <2>1, <2>3, <2>6, ResultsDiffer DEF RequestSucceeds
    <3>. QED
      BY <2>1, <2>2, <3>1
  <2>. QED
    BY <1>1, <2>4, <2>5, <2>6, HowToSucceed
<1>2. ASSUME IInv, UNCHANGED vars, NEW d \in Definitions, verdict[d] # "ok", verdict'[d] = "ok"
      PROVE  FALSE
  BY <1>2 DEF vars, scrape
<1>3. IInv /\ [Next]_vars =>
          [\A d \in Definitions : verdict[d] # "ok" /\ verdict'[d] = "ok" =>
              now - memo'[Endpoint[d]].at < TTL[d] + Budget]_vars
  BY <1>1, <1>2
<1>. QED
  BY InvariantHolds, <1>3, PTL DEF Spec, DataIsFresh

-----------------------------------------------------------------------------
(* Termination                                                              *)

\* How far a load is in its two attempts.
StepsOfLoad ==
    CASE pc = "login" -> 3 * attempt
      [] pc = "request" -> 3 * attempt + 1
      [] OTHER -> 2

\* How many steps the scrape can still take.
StepsLeft ==
    CASE pc = "idle" -> 0
      [] pc = "next" -> 6 * (N + 1 - i) + 1
      [] OTHER -> 6 * (N + 1 - i) - StepsOfLoad

(* A scrape takes six steps for each definition at most: each of its own    *)
(* steps brings its end nearer, and what the router or the clock do         *)
(* meanwhile does not put it off (api_collector.go:135-187, 204-252).       *)
ScrapeIsFinite ==
    /\ [](StepsLeft \in 0 .. 6 * N + 1)
    /\ [][/\ Collect => StepsLeft' < StepsLeft
          /\ ~StartScrape => StepsLeft' <= StepsLeft]_vars

\* The loop begins with the first definition, and a session is checked after
\* the first attempt alone.
LoopHasBegun ==
    /\ pc # "idle" => i >= 1
    /\ pc = "check" => attempt = 0

(* Once it has begun, the loop is at a definition or past the last one.     *)
LEMMA LoopGoesOn == Spec => []LoopHasBegun
<1>1. Init => LoopHasBegun
  BY DEF Init, LoopHasBegun
<1>2. IInv /\ LoopHasBegun /\ [Next]_vars => LoopHasBegun'
  <2> SUFFICES ASSUME IInv, LoopHasBegun, [Next]_vars PROVE LoopHasBegun'
    OBVIOUS
  <2>1. i \in 0 .. N + 1 /\ N \in Nat
    BY ParametersAssumption DEF IInv, TypeOK
  <2>2. \/ i' = 1 \/ UNCHANGED <<pc, i>> \/ pc' = "idle"
        \/ pc # "idle" /\ i' \in {i, i + 1}
    BY DEF Next, Collect, Load, vars, scrape, StartScrape, OutOfTime, FromMemo, FromCache, StartLoad,
           FinishScrape, LoginSucceeds, LoginFails, RequestFails, RequestSucceeds, Refused, BadRequest,
           BadAnswer, CheckFails, CheckFindsValid, CheckFindsInvalid, Answered, Retry, GiveUp, AtDefinition,
           JudgeBy, Judge, LoadFails, Forget, Tick, Rest
  <2>3. pc' = "check" => (pc = "check" /\ attempt' = attempt) \/ (attempt = 0 /\ attempt' = 0)
    BY DEF Next, Collect, Load, vars, scrape, StartScrape, OutOfTime, FromMemo, FromCache, StartLoad,
           FinishScrape, LoginSucceeds, LoginFails, RequestFails, RequestSucceeds, Refused, BadRequest,
           BadAnswer, CheckFails, CheckFindsValid, CheckFindsInvalid, Answered, Retry, GiveUp, AtDefinition,
           JudgeBy, Judge, LoadFails, Forget, Tick, Rest
  <2>. QED
    BY <2>1, <2>2, <2>3 DEF LoopHasBegun
<1>. QED
  BY <1>1, <1>2, InvariantHolds, PTL DEF Spec

\* How many they are in each state of the loop.
StepsInv ==
    /\ N \in Nat /\ i \in 0 .. N + 1 /\ attempt \in 0 .. 1
    /\ StepsLeft \in 0 .. 6 * N + 1
    /\ pc = "idle" => StepsLeft = 0
    /\ pc = "next" => StepsLeft = 6 * (N + 1 - i) + 1
    /\ pc = "login" => StepsLeft = 6 * (N + 1 - i) - 3 * attempt
    /\ pc = "request" => StepsLeft = 6 * (N + 1 - i) - 3 * attempt - 1
    /\ pc = "check" => StepsLeft = 6 * (N + 1 - i) - 2 /\ attempt = 0

(* The steps are counted in every state.                                    *)
LEMMA StepsAreCounted == Spec => []StepsInv
<1>1. IInv /\ LoopHasBegun => StepsInv
  <2> SUFFICES ASSUME IInv, LoopHasBegun PROVE StepsInv
    OBVIOUS
  <2>1. N \in Nat /\ i \in 0 .. N + 1 /\ attempt \in 0 .. 1
        /\ pc \in {"idle", "next", "login", "request", "check"}
    BY ParametersAssumption DEF IInv, TypeOK
  <2>2. Loading => i \in 1 .. N
    BY DEF IInv, LoadInv, LoadingIsAt, Definitions
  <2>. QED
    BY <2>1, <2>2 DEF StepsInv, StepsLeft, StepsOfLoad, Loading, LoopHasBegun
<1>. QED
  BY <1>1, InvariantHolds, LoopGoesOn, PTL

(* A step of the scrape brings its end nearer.                              *)
LEMMA ScrapeAdvances ==
    ASSUME StepsInv, StepsInv', Collect
    PROVE  StepsLeft' < StepsLeft
<1>1. /\ N \in Nat /\ i \in 0 .. N + 1 /\ i' \in 0 .. N + 1 /\ attempt \in 0 .. 1 /\ attempt' \in 0 .. 1
      /\ StepsLeft \in 0 .. 6 * N + 1 /\ StepsLeft' \in 0 .. 6 * N + 1
  BY DEF StepsInv
<1>2. /\ pc' = "idle" => StepsLeft' = 0
      /\ pc' = "next" => StepsLeft' = 6 * (N + 1 - i') + 1
      /\ pc' = "login" => StepsLeft' = 6 * (N + 1 - i') - 3 * attempt'
      /\ pc' = "request" => StepsLeft' = 6 * (N + 1 - i') - 3 * attempt' - 1
      /\ pc' = "check" => StepsLeft' = 6 * (N + 1 - i') - 2
  BY DEF StepsInv
<1>3. /\ pc = "next" => StepsLeft = 6 * (N + 1 - i) + 1
      /\ pc = "login" => StepsLeft = 6 * (N + 1 - i) - 3 * attempt
      /\ pc = "request" => StepsLeft = 6 * (N + 1 - i) - 3 * attempt - 1
      /\ pc = "check" => StepsLeft = 6 * (N + 1 - i) - 2
  BY DEF StepsInv
\* A definition is done with.
<1>4. CASE \E v : Judge(v)
  <2>1. pc' = "next" /\ i' = i + 1
    BY <1>4 DEF Judge
  <2>2. pc \in {"next", "login", "request", "check"}
    BY DEF Collect, Load, OutOfTime, FromMemo, FromCache, StartLoad, FinishScrape, AtDefinition,
           LoginSucceeds, LoginFails, RequestFails, RequestSucceeds, Refused, BadRequest, BadAnswer,
           CheckFails, CheckFindsValid, CheckFindsInvalid, Answered
  <2>. QED
    BY <1>1, <1>2, <1>3, <2>1, <2>2
<1>5. CASE StartLoad
  <2>1. pc = "next" /\ pc' \in {"login", "request"} /\ i' = i /\ attempt' = 0
    BY <1>5 DEF StartLoad, AtDefinition
  <2>. QED
    BY <1>1, <1>2, <1>3, <2>1
<1>6. CASE FinishScrape
  <2>1. pc = "next" /\ pc' = "idle"
    BY <1>6 DEF FinishScrape
  <2>. QED
    BY <1>1, <1>2, <1>3, <2>1
<1>7. CASE LoginSucceeds
  <2>1. pc = "login" /\ pc' = "request" /\ i' = i /\ attempt' = attempt
    BY <1>7 DEF LoginSucceeds, scrape
  <2>. QED
    BY <1>1, <1>2, <1>3, <2>1
\* The second attempt begins.
<1>8. CASE pc \in {"request", "check"} /\ Retry
  <2>1. attempt = 0 /\ attempt' = 1 /\ pc' = "login" /\ i' = i
    BY <1>8 DEF Retry
  <2>. QED
    BY <1>1, <1>2, <1>3, <1>8, <2>1
<1>9. CASE pc = "request" /\ attempt = 0 /\ pc' = "check" /\ i' = i
  BY <1>1, <1>2, <1>3, <1>9
<1>10. BadRequest => \/ pc = "request" /\ attempt = 0 /\ pc' = "check" /\ i' = i
                     \/ Judge("request")
  BY DEF BadRequest, Answered, scrape, LoadFails
<1>. QED
  BY <1>4, <1>5, <1>6, <1>7, <1>8, <1>9, <1>10
  DEF Collect, Load, OutOfTime, FromMemo, FromCache, LoginFails, RequestFails, RequestSucceeds, Refused,
      BadAnswer, CheckFails, CheckFindsValid, CheckFindsInvalid, Answered, GiveUp, JudgeBy, LoadFails

(* A scrape ends after as many steps as its definitions allow: what         *)
(* ScrapeEnds asks, but for the fairness that lets it take them.            *)
THEOREM ScrapesAreFinite == Spec => ScrapeIsFinite
<1>1. StepsInv => StepsLeft \in 0 .. 6 * N + 1
  BY DEF StepsInv
<1>2. ASSUME StepsInv, StepsInv', [Next]_vars
      PROVE  [/\ Collect => StepsLeft' < StepsLeft
              /\ ~StartScrape => StepsLeft' <= StepsLeft]_vars
  <2>1. StepsLeft \in Nat /\ StepsLeft' \in Nat
    BY <1>2 DEF StepsInv
  <2>2. Collect => StepsLeft' < StepsLeft
    BY <1>2, ScrapeAdvances
  <2>3. Forget \/ Tick \/ Rest \/ UNCHANGED vars => StepsLeft' = StepsLeft
    BY DEF Forget, Tick, Rest, vars, scrape, StepsLeft, StepsOfLoad
  <2>. QED
    BY <1>2, <2>1, <2>2, <2>3 DEF Next
<1>. QED
  BY <1>1, <1>2, StepsAreCounted, PTL DEF Spec, ScrapeIsFinite
=============================================================================
