-------------------------- MODULE LuaSessionProofs --------------------------
(****************************************************************************)
(* Proofs about LuaSession, for any definitions, pages, TTLs, budget and    *)
(* any number of collections and sessions.                                  *)
(****************************************************************************)
EXTENDS LuaSession, TLAPS

-----------------------------------------------------------------------------
(* The invariant                                                            *)

\* A load is for a definition.
LoadingIsAt == InLoad => i \in Definitions

\* The flags of the loop tell how far it is: before the login nothing but one
\* refused attempt was made; after it there is none to come.
BeforeLogin == ~callDone /\ logins = 0 /\ (status = "none" => retries = 0)
FlagsTell ==
    /\ InLoad => requests = retries
    /\ pc = "head" => BeforeLogin /\ retries <= 1
    /\ pc = "login" => BeforeLogin /\ retries <= 1
    /\ pc = "post" => /\ retries <= 1 /\ logins <= 1
                      /\ ~callDone => BeforeLogin /\ status = "none"

\* A login of this load gave a session that the router knows, unless it has
\* forgotten it since.
LoginCounts == pc = "post" /\ callDone => sid \in valid \/ trouble

LoadInv == LoadingIsAt /\ FlagsTell /\ LoginCounts /\ LoadIsBounded

\* An entry is dated before its data was fetched.
EntriesAreDatedEarly == \A p \in Pages : cache[p].stamp <= cache[p].fetched
AgeInv == began <= now /\ EntriesAreDatedEarly

IInv == TypeOK /\ LoadInv /\ AgeInv

(* The results there may be.                                                *)
LEMMA ResultsAre ==
    /\ NoResult \in [status : Statuses \cup {"none"}, fetched : 0 .. MaxTime, stamp : 0 .. MaxTime]
    /\ NoResult.status = "none" /\ NoResult.stamp = 0 /\ NoResult.fetched = 0
  BY ParametersAssumption DEF NoResult

(* Whatever is judged or loaded is a definition, and its page is one.       *)
LEMMA ThisIsPage ==
    ASSUME i \in Definitions PROVE This \in Pages /\ i + 1 \in 0 .. N + 1
  BY ParametersAssumption DEF This, Pages, Definitions

(* A collection has not begun.                                              *)
LEMMA InitHolds == Init => IInv
<1> SUFFICES ASSUME Init PROVE IInv
  OBVIOUS
<1>1. TypeOK
  <2>1. cache \in [Pages -> [status : Statuses \cup {"none"}, fetched : 0 .. MaxTime,
                            stamp : 0 .. MaxTime]]
    BY ResultsAre DEF Init
  <2>2. /\ sid \in 0 .. MaxSid /\ i \in 0 .. N + 1 /\ issued \in 0 .. MaxSid
        /\ began \in 0 .. MaxTime /\ now \in 0 .. MaxTime /\ scrapes \in 0 .. MaxScrapes
        /\ retries \in 0 .. 2 /\ logins \in Nat /\ requests \in Nat
    BY ParametersAssumption DEF Init, NoSid
  <2>3. verdict \in [Definitions -> {"none", "ok", "request", "json", "extract", "timeout"}]
    BY DEF Init
  <2>. QED
    BY <2>1, <2>2, <2>3 DEF Init, TypeOK
<1>2. LoadInv
  BY DEF Init, LoadInv, LoadingIsAt, InLoad, FlagsTell, LoginCounts, LoadIsBounded
<1>3. AgeInv
  BY ResultsAre DEF Init, AgeInv, EntriesAreDatedEarly
<1>. QED
  BY <1>1, <1>2, <1>3 DEF IInv

(* What is kept of a load that is not what it was before.                   *)
LEMMA ExtractType ==
    ASSUME TypeOK, i \in Definitions,
           NEW result \in [status : Statuses \cup {"none"}, fetched : 0 .. MaxTime,
                           stamp : 0 .. MaxTime],
           Extract(result)
    PROVE  /\ cache' \in [Pages -> [status : Statuses \cup {"none"}, fetched : 0 .. MaxTime,
                                    stamp : 0 .. MaxTime]]
           /\ verdict' \in [Definitions -> {"none", "ok", "request", "json", "extract", "timeout"}]
           /\ i' \in 0 .. N + 1 /\ pc' = "next"
<1>1. \E r \in {result, NoResult} : cache' = [cache EXCEPT ![This] = r]
  BY DEF Extract
<1>2. \E v \in {"ok", "extract"} : Judge(v)
  BY DEF Extract
<1>. QED
  BY <1>1, <1>2, ThisIsPage, ResultsAre DEF Judge, TypeOK

(* Every step keeps the ranges of the variables ...                         *)
LEMMA TypeKeeps == IInv /\ [Next]_vars => TypeOK'
<1> SUFFICES ASSUME TypeOK, LoadingIsAt, FlagsTell, AgeInv, [Next]_vars PROVE TypeOK'
  BY DEF IInv, LoadInv
<1> USE DEF load, router, clock
<1>1. CASE StartScrape
  BY <1>1, ParametersAssumption DEF StartScrape, TypeOK
<1>2. CASE OutOfTime
  BY <1>2, ThisIsPage DEF OutOfTime, AtDefinition, Judge, TypeOK
<1>3. CASE FromCache
  <2>1. i \in Definitions /\ Extract(cache[This])
    BY <1>3 DEF FromCache, AtDefinition
  <2>2. cache[This] \in [status : Statuses \cup {"none"}, fetched : 0 .. MaxTime,
                         stamp : 0 .. MaxTime]
    BY <2>1, ThisIsPage DEF TypeOK
  <2>. QED
    BY <1>3, <2>1, <2>2, ExtractType DEF FromCache, TypeOK
<1>4. CASE StartLoad
  <2>1. cache' \in [Pages -> [status : Statuses \cup {"none"}, fetched : 0 .. MaxTime,
                             stamp : 0 .. MaxTime]]
    BY <1>4, ThisIsPage, ResultsAre DEF StartLoad, AtDefinition, TypeOK
  <2>2. retries' \in 0 .. 2 /\ logins' \in Nat /\ requests' \in Nat
    BY <1>4 DEF StartLoad
  <2>. QED
    BY <1>4, <2>1, <2>2 DEF StartLoad, TypeOK
<1>5. CASE FinishScrape
  BY <1>5 DEF FinishScrape, TypeOK
<1>6. CASE Head
  BY <1>6 DEF Head, TypeOK
<1>7. CASE LoginSucceeds
  BY <1>7, ParametersAssumption DEF LoginSucceeds, TypeOK
<1>8. ASSUME NEW cause \in {"request", "json"}, LoadFails(cause), InLoad, trouble' = TRUE
      PROVE  TypeOK'
  BY <1>8, ThisIsPage, ParametersAssumption
  DEF LoadFails, Judge, LoadingIsAt, NoSid, TypeOK
<1>9. CASE LoginFails
  BY <1>9, <1>8 DEF LoginFails, InLoad
<1>10. CASE PostFails
  BY <1>10, <1>8 DEF PostFails, InLoad
<1>11. ASSUME NEW answer \in Statuses, Post(answer) PROVE TypeOK'
  <2>1. retries' \in 0 .. 2 /\ requests' \in Nat
    BY <1>11 DEF Post, Answered, FlagsTell, TypeOK
  <2>. QED
    BY <1>11, <2>1 DEF Post, Answered, TypeOK
<1>12. ASSUME NEW answer \in Statuses, PostRefused(answer) PROVE TypeOK'
  <2>1. trouble' \in BOOLEAN /\ LoadFails("request") /\ InLoad
    BY <1>12 DEF PostRefused, Answered, InLoad, TypeOK
  <2>. QED
    BY <2>1, ThisIsPage, ParametersAssumption DEF LoadFails, Judge, LoadingIsAt, NoSid, TypeOK
<1>13. CASE BodyIsData
  <2>1. i \in Definitions /\ Extract([status |-> status, fetched |-> now, stamp |-> began])
    BY <1>13 DEF BodyIsData, LoadingIsAt, InLoad
  <2>. QED
    BY <1>13, <2>1, ExtractType DEF BodyIsData, TypeOK
<1>14. CASE BodyIsBad
  BY <1>14, <1>8 DEF BodyIsBad, InLoad
<1>15. CASE Forget
  <2>1. valid' \subseteq valid /\ trouble' \in BOOLEAN
    BY <1>15 DEF Forget, TypeOK, InLoad
  <2>. QED
    BY <1>15, <2>1 DEF Forget, TypeOK
<1>16. CASE Tick
  BY <1>16, ParametersAssumption DEF Tick, TypeOK
<1>17. CASE UNCHANGED vars
  BY <1>17 DEF vars, TypeOK
<1>. QED
  BY <1>1, <1>2, <1>3, <1>4, <1>5, <1>6, <1>7, <1>9, <1>10, <1>11, <1>12, <1>13, <1>14,
     <1>15, <1>16, <1>17 DEF Next, CollectLua, LoadData, Rest

(* ... what is said of the loop of LoadData ...                             *)
LEMMA LoadKeeps == IInv /\ [Next]_vars => LoadInv'
<1> SUFFICES ASSUME TypeOK, LoadInv, [Next]_vars PROVE LoadInv'
  BY DEF IInv
<1> USE DEF load, router, clock, LoadInv, LoadingIsAt, InLoad, FlagsTell, BeforeLogin,
    LoginCounts, LoadIsBounded
<1>1. CASE StartScrape
  BY <1>1 DEF StartScrape
<1>2. CASE OutOfTime
  BY <1>2 DEF OutOfTime, Judge
<1>3. CASE FromCache
  BY <1>3 DEF FromCache, Extract, Judge
<1>4. CASE StartLoad
  BY <1>4 DEF StartLoad, AtDefinition
<1>5. CASE FinishScrape
  BY <1>5 DEF FinishScrape
<1>6. CASE Head
  BY <1>6 DEF Head
<1>7. CASE LoginSucceeds
  BY <1>7 DEF LoginSucceeds
<1>8. CASE LoginFails
  BY <1>8 DEF LoginFails, LoadFails, Judge
<1>9. CASE PostFails
  BY <1>9 DEF PostFails, LoadFails, Judge
<1>10. ASSUME NEW answer \in Statuses, Post(answer) PROVE LoadInv'
  <2>1. retries \in Nat /\ requests = retries /\ retries <= 1
    BY <1>10 DEF Post, Answered, TypeOK
  <2>2. callDone \in BOOLEAN /\ logins \in Nat
    BY DEF TypeOK
  <2>3. answer # "none"
    BY <1>10 DEF Statuses
  <2>4. CASE callDone'
    BY <1>10, <2>1, <2>2, <2>4 DEF Post, Answered
  <2>5. CASE ~callDone'
    BY <1>10, <2>1, <2>2, <2>3, <2>5 DEF Post, Answered
  <2>. QED
    BY <2>4, <2>5
<1>11. ASSUME NEW answer \in Statuses, PostRefused(answer) PROVE LoadInv'
  BY <1>11 DEF PostRefused, Answered, LoadFails, Judge
<1>12. CASE BodyIsData
  BY <1>12 DEF BodyIsData, Extract, Judge
<1>13. CASE BodyIsBad
  BY <1>13 DEF BodyIsBad, LoadFails, Judge
<1>14. CASE Forget
  BY <1>14 DEF Forget
<1>15. CASE Tick
  BY <1>15 DEF Tick
<1>16. CASE UNCHANGED vars
  BY <1>16 DEF vars
<1>. QED
  BY <1>1, <1>2, <1>3, <1>4, <1>5, <1>6, <1>7, <1>8, <1>9, <1>10, <1>11, <1>12, <1>13, <1>14,
     <1>15, <1>16 DEF Next, CollectLua, LoadData, Rest

(* ... and of the dates of the cache.                                       *)
LEMMA AgeKeeps == IInv /\ [Next]_vars => AgeInv'
<1> SUFFICES ASSUME TypeOK, LoadingIsAt, AgeInv, [Next]_vars PROVE AgeInv'
  BY DEF IInv, LoadInv
<1> USE DEF load, router, clock, AgeInv, EntriesAreDatedEarly
<1>0. /\ cache \in [Pages -> [status : Statuses \cup {"none"}, fetched : 0 .. MaxTime,
                              stamp : 0 .. MaxTime]]
      /\ now \in Nat /\ began \in Nat
  BY ParametersAssumption DEF TypeOK
<1>1. CASE StartScrape
  BY <1>1, <1>0 DEF StartScrape
<1>2. CASE OutOfTime
  BY <1>2 DEF OutOfTime
<1>3. ASSUME NEW result, result.stamp <= result.fetched, Extract(result), i \in Definitions,
             UNCHANGED <<began, now>>
      PROVE  AgeInv'
  <2>1. PICK r \in {result, NoResult} : cache' = [cache EXCEPT ![This] = r]
    BY <1>3 DEF Extract
  <2>2. r.stamp <= r.fetched
    BY <1>3, ResultsAre
  <2>. QED
    BY <1>0, <1>3, <2>1, <2>2
<1>4. CASE FromCache
  BY <1>3, <1>4, ThisIsPage DEF FromCache, AtDefinition
<1>5. CASE StartLoad
  BY <1>5, <1>0, ResultsAre DEF StartLoad
<1>6. CASE FinishScrape \/ Head \/ LoginSucceeds
  BY <1>6 DEF FinishScrape, Head, LoginSucceeds
<1>7. CASE LoginFails \/ PostFails \/ BodyIsBad
  BY <1>7 DEF LoginFails, PostFails, BodyIsBad, LoadFails
<1>8. ASSUME NEW answer \in Statuses, Post(answer) \/ PostRefused(answer) PROVE AgeInv'
  BY <1>8 DEF Post, PostRefused, LoadFails
<1>9. CASE BodyIsData
  <2>1. UNCHANGED <<began, now>> /\ i \in Definitions
        /\ Extract([status |-> status, fetched |-> now, stamp |-> began])
    BY <1>9 DEF BodyIsData, LoadingIsAt, InLoad
  <2>. QED
    BY <2>1, <1>3
<1>10. CASE Forget
  BY <1>10 DEF Forget
<1>11. CASE Tick
  BY <1>11, <1>0 DEF Tick
<1>12. CASE UNCHANGED vars
  BY <1>12 DEF vars
<1>. QED
  BY <1>1, <1>2, <1>4, <1>5, <1>6, <1>7, <1>8, <1>9, <1>10, <1>11, <1>12
     DEF Next, CollectLua, LoadData, Rest

-----------------------------------------------------------------------------
(* The theorems                                                             *)

(* The inductive invariant: the types, with what the three flags of the     *)
(* loop mean at each place of it and how an entry of the cache is dated.    *)
THEOREM InvariantHolds == Spec => []IInv
<1>1. IInv /\ [Next]_vars => IInv'
  BY TypeKeeps, LoadKeeps, AgeKeeps DEF IInv
<1>. QED
  BY InitHolds, <1>1, PTL DEF Spec

(* Every variable stays in its range.                                       *)
THEOREM TypeCorrect == Spec => []TypeOK
<1>1. IInv => TypeOK
  BY DEF IInv
<1>. QED
  BY InvariantHolds, <1>1, PTL

(* A load makes one login and two requests at most, whatever the router     *)
(* answers (fritzbox_lua/lua_client.go:275-321).                            *)
THEOREM LoadStaysBounded == Spec => []LoadIsBounded
<1>1. IInv => LoadIsBounded
  BY DEF IInv, LoadInv
<1>. QED
  BY InvariantHolds, <1>1, PTL

(* A load that fails met a fault: a session that was forgotten before it is *)
(* replaced on the way (fritzbox_lua/lua_client.go:280-314).                *)
THEOREM OnlyFaultsFail == Spec => ForgottenSessionIsRenewed
<1> DEFINE Faulty == InLoad /\ pc' = "next" /\ verdict'[i] \in {"request", "json"} => trouble'
<1>1. ASSUME IInv, Next, InLoad, pc' = "next", verdict'[i] \in {"request", "json"}
      PROVE  trouble'
  <2>1. i \in Definitions /\ verdict \in [Definitions -> {"none", "ok", "request", "json",
                                                          "extract", "timeout"}]
    BY <1>1 DEF IInv, LoadInv, LoadingIsAt, TypeOK
  <2>2. ~StartScrape /\ ~OutOfTime /\ ~FromCache /\ ~StartLoad /\ ~FinishScrape /\ ~Rest
    BY <1>1 DEF StartScrape, OutOfTime, FromCache, StartLoad, FinishScrape, Rest, AtDefinition,
                InLoad
  <2>3. ~Head /\ ~LoginSucceeds
    BY <1>1 DEF Head, LoginSucceeds
  <2>4. ~Forget /\ ~Tick
    BY <1>1 DEF Forget, Tick, InLoad
  <2>5. \A answer \in Statuses : ~Post(answer)
    BY <1>1 DEF Post
  <2>6. ~BodyIsData
    BY <2>1, <1>1 DEF BodyIsData, Extract, Judge
  <2>7. ASSUME NEW answer \in Statuses, PostRefused(answer) PROVE trouble'
    BY <1>1, <2>7 DEF PostRefused, Answered, IInv, LoadInv, LoginCounts, TypeOK, Statuses
  <2>. QED
    BY <1>1, <2>2, <2>3, <2>4, <2>5, <2>6, <2>7
       DEF Next, CollectLua, LoadData, LoginFails, PostFails, BodyIsBad
<1>2. IInv /\ [Next]_vars => [Faulty]_vars
  BY <1>1
<1>. QED
  BY InvariantHolds, <1>2, PTL DEF Spec, ForgottenSessionIsRenewed

(* A definition succeeds with the cache or with an answer.                  *)
LEMMA HowToSucceed ==
    ASSUME IInv, Next, NEW d \in Definitions, verdict[d] # "ok", verdict'[d] = "ok"
    PROVE  /\ d = i
           /\ \/ FromCache /\ cache' = [cache EXCEPT ![This] = cache[This]]
              \/ BodyIsData /\ cache' = [cache EXCEPT ![This] =
                                  [status |-> status, fetched |-> now, stamp |-> began]]
<1>0. verdict \in [Definitions -> {"none", "ok", "request", "json", "extract", "timeout"}]
  BY DEF IInv, TypeOK
<1>1. ~StartScrape /\ ~StartLoad /\ ~FinishScrape /\ ~Head /\ ~LoginSucceeds
  BY DEF StartScrape, StartLoad, FinishScrape, Head, LoginSucceeds
<1>2. \A v \in {"request", "json", "timeout", "extract"} : ~Judge(v)
  BY <1>0 DEF Judge
<1>3. ~OutOfTime /\ ~LoginFails /\ ~PostFails /\ ~BodyIsBad
      /\ \A answer \in Statuses : ~PostRefused(answer)
  BY <1>2 DEF OutOfTime, LoginFails, PostFails, BodyIsBad, PostRefused, LoadFails
<1>4. \A answer \in Statuses : ~Post(answer)
  BY DEF Post
<1>5. ~Forget /\ ~Tick /\ ~Rest
  BY DEF Forget, Tick, Rest, vars
<1>6. FromCache \/ BodyIsData
  BY <1>1, <1>3, <1>4, <1>5 DEF Next, CollectLua, LoadData
<1>7. \A result : Extract(result) => cache' = [cache EXCEPT ![This] = result] /\ Judge("ok")
  BY <1>2 DEF Extract
<1>8. Judge("ok")
  BY <1>6, <1>7 DEF FromCache, BodyIsData
<1>9. d = i
  BY <1>0, <1>8 DEF Judge
<1>. QED
  BY <1>6, <1>7, <1>9 DEF FromCache, BodyIsData

(* What is shown was fetched less than its TTL and one collection ago       *)
(* (main.go:597, 611, 637).                                                 *)
THEOREM DataStaysFresh == Spec => DataIsFresh
<1>1. ASSUME IInv, Next, NEW d \in Definitions, verdict[d] # "ok", verdict'[d] = "ok"
      PROVE  now - cache'[Page[d]].fetched < TTL[d] + Budget
  <2>1. d = i /\ Page[d] = This /\ This \in Pages
    BY <1>1, HowToSucceed, ThisIsPage DEF This
  <2>2. now \in Nat /\ began \in Nat /\ TTL[d] \in Nat /\ Budget \in Nat \ {0}
    BY <1>1, ParametersAssumption DEF IInv, TypeOK
  <2>3. /\ cache \in [Pages -> [status : Statuses \cup {"none"}, fetched : 0 .. MaxTime,
                                stamp : 0 .. MaxTime]]
        /\ cache[This].fetched \in Nat /\ cache[This].stamp \in Nat
        /\ cache[This].stamp <= cache[This].fetched
    BY <1>1, <2>1, ParametersAssumption DEF IInv, TypeOK, AgeInv, EntriesAreDatedEarly
  <2>4. CASE FromCache /\ cache' = [cache EXCEPT ![This] = cache[This]]
    <3>1. now - began < Budget
      BY <2>2, <2>4 DEF FromCache, BudgetOver
    <3>2. began - cache[This].stamp <= TTL[d]
      BY <2>1, <2>2, <2>3, <2>4 DEF FromCache, Usable, Stale
    <3>3. cache'[This].fetched = cache[This].fetched
      BY <2>1, <2>3, <2>4
    <3>. QED
      BY <2>1, <2>2, <2>3, <3>1, <3>2, <3>3
  <2>5. CASE BodyIsData /\ cache' = [cache EXCEPT ![This] =
                               [status |-> status, fetched |-> now, stamp |-> began]]
    <3>1. cache'[This].fetched = now
      BY <2>1, <2>3, <2>5
    <3>. QED
      BY <2>1, <2>2, <3>1
  <2>. QED
    BY <1>1, <2>4, <2>5, HowToSucceed
<1>2. ASSUME UNCHANGED vars, NEW d \in Definitions, verdict[d] # "ok", verdict'[d] = "ok"
      PROVE  FALSE
  BY <1>2 DEF vars
<1>3. IInv /\ [Next]_vars =>
          [\A d \in Definitions : verdict[d] # "ok" /\ verdict'[d] = "ok" =>
              now - cache'[Page[d]].fetched < TTL[d] + Budget]_vars
  BY <1>1, <1>2
<1>. QED
  BY InvariantHolds, <1>3, PTL DEF Spec, DataIsFresh

-----------------------------------------------------------------------------
(* Termination                                                              *)

\* How far a load is in its two rounds of login, request and answer.
StepsOfLoad ==
    CASE pc = "head" -> 3 * retries
      [] pc = "login" -> 3 * retries + 1
      [] pc = "post" -> 3 * retries + 2
      [] OTHER -> 6

\* How many steps the collection can still take.
StepsLeft ==
    CASE pc = "idle" -> 0
      [] pc = "next" -> 8 * (N + 1 - i) + 1
      [] OTHER -> 8 * (N + 1 - i) - StepsOfLoad

(* A collection takes eight steps for each definition at most: each of its  *)
(* own steps brings its end nearer, and what the router or the clock do     *)
(* meanwhile does not put it off (fritzbox_lua/lua_client.go:275-321,       *)
(* main.go:597-640).                                                        *)
CollectionIsFinite ==
    /\ [](StepsLeft \in 0 .. 8 * N + 1)
    /\ [][/\ CollectLua => StepsLeft' < StepsLeft
          /\ ~StartScrape => StepsLeft' <= StepsLeft]_vars

\* The loop begins with the first definition.
LoopHasBegun == pc # "idle" => i >= 1

(* Once it has begun, the loop is at a definition or past the last one.     *)
LEMMA LoopGoesOn == Spec => []LoopHasBegun
<1>1. Init => LoopHasBegun
  BY DEF Init, LoopHasBegun
<1>2. IInv /\ LoopHasBegun /\ [Next]_vars => LoopHasBegun'
  <2> SUFFICES ASSUME IInv, LoopHasBegun, [Next]_vars PROVE LoopHasBegun'
    OBVIOUS
  <2>1. i \in 0 .. N + 1 /\ N \in Nat
    BY ParametersAssumption DEF IInv, TypeOK
  <2>2. \/ i' = 1 \/ UNCHANGED <<pc, i>> \/ pc' = "idle"
        \/ pc # "idle" /\ i' \in {i, i + 1}
    BY DEF Next, CollectLua, LoadData, vars, StartScrape, OutOfTime, FromCache, StartLoad, FinishScrape,
           Head, LoginSucceeds, LoginFails, PostFails, Post, PostRefused, Answered, BodyIsData, BodyIsBad,
           Forget, Tick, Rest, AtDefinition, Extract, Judge, LoadFails
  <2>. QED
    BY <2>1, <2>2 DEF LoopHasBegun
<1>. QED
  BY <1>1, <1>2, InvariantHolds, PTL DEF Spec

\* How many they are in each state of the loop.
StepsInv ==
    /\ N \in Nat /\ i \in 0 .. N + 1 /\ retries \in 0 .. 2
    /\ StepsLeft \in 0 .. 8 * N + 1
    /\ pc = "idle" => StepsLeft = 0
    /\ pc = "next" => StepsLeft = 8 * (N + 1 - i) + 1
    /\ pc = "head" => StepsLeft = 8 * (N + 1 - i) - 3 * retries
    /\ pc = "login" => StepsLeft = 8 * (N + 1 - i) - 3 * retries - 1
    /\ pc = "post" => StepsLeft = 8 * (N + 1 - i) - 3 * retries - 2
    /\ pc = "body" => StepsLeft = 8 * (N + 1 - i) - 6
    /\ pc \in {"head", "login", "post"} => retries <= 1

(* The steps are counted in every state.                                    *)
LEMMA StepsAreCounted == Spec => []StepsInv
<1>1. IInv /\ LoopHasBegun => StepsInv
  <2> SUFFICES ASSUME IInv, LoopHasBegun PROVE StepsInv
    OBVIOUS
  <2>1. N \in Nat /\ i \in 0 .. N + 1 /\ retries \in 0 .. 2
        /\ pc \in {"idle", "next", "head", "login", "post", "body"}
    BY ParametersAssumption DEF IInv, TypeOK
  <2>2. InLoad => i \in 1 .. N
    BY DEF IInv, LoadInv, LoadingIsAt, Definitions
  <2>3. pc \in {"head", "login", "post"} => retries <= 1
    BY DEF IInv, LoadInv, FlagsTell
  <2>. QED
    BY <2>1, <2>2, <2>3 DEF StepsInv, StepsLeft, StepsOfLoad, InLoad, LoopHasBegun
<1>. QED
  BY <1>1, InvariantHolds, LoopGoesOn, PTL

(* A step of the collection brings its end nearer.                          *)
LEMMA CollectionAdvances ==
    ASSUME StepsInv, StepsInv', CollectLua
    PROVE  StepsLeft' < StepsLeft
<1>1. /\ N \in Nat /\ i \in 0 .. N + 1 /\ i' \in 0 .. N + 1 /\ retries \in 0 .. 2 /\ retries' \in 0 .. 2
      /\ StepsLeft \in 0 .. 8 * N + 1 /\ StepsLeft' \in 0 .. 8 * N + 1
  BY DEF StepsInv
<1>2. /\ pc' = "idle" => StepsLeft' = 0
      /\ pc' = "next" => StepsLeft' = 8 * (N + 1 - i') + 1
      /\ pc' = "head" => StepsLeft' = 8 * (N + 1 - i') - 3 * retries'
      /\ pc' = "login" => StepsLeft' = 8 * (N + 1 - i') - 3 * retries' - 1
      /\ pc' = "post" => StepsLeft' = 8 * (N + 1 - i') - 3 * retries' - 2
      /\ pc' = "body" => StepsLeft' = 8 * (N + 1 - i') - 6
  BY DEF StepsInv
<1>3. /\ pc = "next" => StepsLeft = 8 * (N + 1 - i) + 1
      /\ pc = "head" => StepsLeft = 8 * (N + 1 - i) - 3 * retries
      /\ pc = "login" => StepsLeft = 8 * (N + 1 - i) - 3 * retries - 1
      /\ pc = "post" => StepsLeft = 8 * (N + 1 - i) - 3 * retries - 2
      /\ pc = "body" => StepsLeft = 8 * (N + 1 - i) - 6
      /\ pc \in {"head", "login", "post"} => retries <= 1
  BY DEF StepsInv
\* A definition is done with.
<1>4. CASE \E v : Judge(v)
  <2>1. pc' = "next" /\ i' = i + 1
    BY <1>4 DEF Judge
  <2>2. pc \in {"next", "head", "login", "post", "body"}
    BY DEF CollectLua, LoadData, OutOfTime, FromCache, StartLoad, FinishScrape, AtDefinition, Head,
           LoginSucceeds, LoginFails, PostFails, Post, PostRefused, Answered, BodyIsData, BodyIsBad
  <2>. QED
    BY <1>1, <1>2, <1>3, <2>1, <2>2
<1>5. CASE StartLoad
  <2>1. pc = "next" /\ pc' = "head" /\ i' = i /\ retries' = 0
    BY <1>5 DEF StartLoad, AtDefinition
  <2>. QED
    BY <1>1, <1>2, <1>3, <2>1
<1>6. CASE FinishScrape
  <2>1. pc = "next" /\ pc' = "idle"
    BY <1>6 DEF FinishScrape
  <2>. QED
    BY <1>1, <1>2, <1>3, <2>1
<1>7. CASE Head
  <2>1. pc = "head" /\ pc' \in {"login", "post"} /\ i' = i /\ retries' = retries
    BY <1>7 DEF Head, load
  <2>. QED
    BY <1>1, <1>2, <1>3, <2>1
<1>8. CASE LoginSucceeds
  <2>1. pc = "login" /\ pc' = "post" /\ i' = i /\ retries' = retries
    BY <1>8 DEF LoginSucceeds
  <2>. QED
    BY <1>1, <1>2, <1>3, <2>1
<1>9. CASE \E answer \in Statuses : Post(answer)
  <2>1. pc = "post" /\ pc' \in {"body", "head"} /\ i' = i /\ retries' = retries + 1
    BY <1>9 DEF Post, Answered
  <2>. QED
    BY <1>1, <1>2, <1>3, <2>1
<1>. QED
  BY <1>4, <1>5, <1>6, <1>7, <1>8, <1>9
  DEF CollectLua, LoadData, OutOfTime, FromCache, LoginFails, PostFails, PostRefused, BodyIsData, BodyIsBad,
      Extract, LoadFails

(* A collection ends after as many steps as its definitions allow: what     *)
(* ScrapeEnds asks, but for the fairness that lets it take them.            *)
THEOREM CollectionsAreFinite == Spec => CollectionIsFinite
<1>1. StepsInv => StepsLeft \in 0 .. 8 * N + 1
  BY DEF StepsInv
<1>2. ASSUME StepsInv, StepsInv', [Next]_vars
      PROVE  [/\ CollectLua => StepsLeft' < StepsLeft
              /\ ~StartScrape => StepsLeft' <= StepsLeft]_vars
  <2>1. StepsLeft \in Nat /\ StepsLeft' \in Nat
    BY <1>2 DEF StepsInv
  <2>2. CollectLua => StepsLeft' < StepsLeft
    BY <1>2, CollectionAdvances
  <2>3. Forget \/ Tick \/ Rest \/ UNCHANGED vars => StepsLeft' = StepsLeft
    BY DEF Forget, Tick, Rest, vars, load, StepsLeft, StepsOfLoad
  <2>. QED
    BY <1>2, <2>1, <2>2, <2>3 DEF Next
<1>. QED
  BY <1>1, <1>2, StepsAreCounted, PTL DEF Spec, CollectionIsFinite
=============================================================================
