----------------------------- MODULE ApiSession -----------------------------
(****************************************************************************)
(* The collector of API v0 metrics (api_collector.go: Collect, load,        *)
(* invalidateSession) with its session (fritzbox_lua: Login, ValidSID),     *)
(* against a router that may forget sessions, refuse, fail or be out of     *)
(* reach at any moment.  APICollector.mu admits one scrape at a time; what  *)
(* interleaves with it is the router and the clock.                         *)
(*                                                                          *)
(* A session is a number, zero the empty SID.  Data is known by the session *)
(* and the time it was fetched with.  What a definition extracts from it,   *)
(* with the verdicts "extract", "duplicate" and "metric" that may follow,   *)
(* is left out: "ok" says that the definition was given data.               *)
(****************************************************************************)
EXTENDS Integers, FiniteSets

CONSTANTS
    N,          \* the definitions are 1 .. N, in the order of the file
    Endpoint,   \* the endpoint of each definition
    TTL,        \* CacheEntryTTL of each definition
    Budget,     \* -collection-timeout
    MaxTime,    \* bound: the clock
    MaxSid,     \* bound: sessions the router hands out
    MaxScrapes  \* bound: scrapes

Definitions == 1 .. N
Endpoints == {Endpoint[i] : i \in Definitions}

ASSUME ParametersAssumption ==
    /\ N \in Nat /\ Budget \in Nat \ {0} /\ MaxTime \in Nat /\ MaxSid \in Nat /\ MaxScrapes \in Nat
    /\ DOMAIN Endpoint = Definitions
    /\ TTL \in [Definitions -> Nat \ {0}]

VARIABLES
    sid,      \* session.SID
    cache,    \* the cached result of each endpoint
    pc,       \* where the scrape is
    i,        \* the definition it is at
    attempt,  \* the attempt of load
    memo,     \* results: what this scrape knows of each endpoint
    began,    \* when the budget of the scrape began
    verdict,  \* the diagnosis of each definition
    valid,    \* the sessions the router knows
    issued,   \* how many it has handed out
    now,      \* the clock
    scrapes,  \* how many scrapes were started
    losses,   \* history: how often a session was lost or had to be given up
    trouble,  \* history: endpoints whose load met a fault in this scrape
    loads     \* history: how often this scrape loaded each endpoint

scrape == <<i, attempt, memo, began, verdict>>
router == <<valid, issued>>
clock == <<now, scrapes>>
vars == <<sid, cache, pc, scrape, scrapes, router, now, losses, trouble, loads>>

NoSid == 0
Unknown == [state |-> "unknown"]
Failure == [state |-> "failed"]
Data(s, at) == [state |-> "data", sid |-> s, at |-> at]
NotCached == [data |-> Unknown, expires |-> 0]
Empty == [e \in Endpoints |-> NotCached]

Loading == pc \in {"login", "request", "check"}
BudgetOver == now - began >= Budget
This == Endpoint[i]

Init ==
    /\ sid = NoSid
    /\ cache = Empty
    /\ pc = "idle"
    /\ i = 0 /\ attempt = 0 /\ began = 0
    /\ memo = [e \in Endpoints |-> Unknown]
    /\ verdict = [d \in Definitions |-> "none"]
    /\ valid = {} /\ issued = 0
    /\ now = 0
    /\ scrapes = 0
    /\ losses = 0
    /\ trouble = {}
    /\ loads = [e \in Endpoints |-> 0]

-----------------------------------------------------------------------------
(* The loop of Collect over the definitions                                 *)

StartScrape ==
    /\ pc = "idle"
    /\ scrapes < MaxScrapes
    /\ scrapes' = scrapes + 1
    /\ pc' = "next"
    /\ i' = 1
    /\ attempt' = 0
    /\ memo' = [e \in Endpoints |-> Unknown]
    /\ began' = now
    /\ verdict' = [d \in Definitions |-> "none"]
    /\ trouble' = {}
    /\ loads' = [e \in Endpoints |-> 0]
    /\ UNCHANGED <<sid, cache, router, now, losses>>

AtDefinition == pc = "next" /\ i \in Definitions

Judge(v) ==
    /\ verdict' = [verdict EXCEPT ![i] = v]
    /\ i' = i + 1
    /\ pc' = "next"

\* ctx.Err() != nil: nothing more is asked in this scrape.
OutOfTime ==
    /\ AtDefinition
    /\ BudgetOver
    /\ Judge("timeout")
    /\ UNCHANGED <<sid, cache, attempt, memo, began, router, clock, losses, trouble, loads>>

JudgeBy(result) == Judge(IF result.state = "data" THEN "ok" ELSE "request")

\* A result, or a failure, of this scrape is used again.
FromMemo ==
    /\ AtDefinition
    /\ ~BudgetOver
    /\ memo[This] # Unknown
    /\ JudgeBy(memo[This])
    /\ UNCHANGED <<sid, cache, attempt, memo, began, router, clock, losses, trouble, loads>>

Cached == cache[This].data # Unknown /\ now < cache[This].expires

FromCache ==
    /\ AtDefinition
    /\ ~BudgetOver
    /\ memo[This] = Unknown
    /\ Cached
    /\ memo' = [memo EXCEPT ![This] = cache[This].data]
    /\ JudgeBy(cache[This].data)
    /\ UNCHANGED <<sid, cache, attempt, began, router, clock, losses, trouble, loads>>

\* load is called; its first step is a login if there is no session.
StartLoad ==
    /\ AtDefinition
    /\ ~BudgetOver
    /\ memo[This] = Unknown
    /\ ~Cached
    /\ attempt' = 0
    /\ pc' = IF sid = NoSid THEN "login" ELSE "request"
    /\ loads' = [loads EXCEPT ![This] = @ + 1]
    /\ UNCHANGED <<sid, cache, i, memo, began, verdict, router, clock, losses, trouble>>

FinishScrape ==
    /\ pc = "next"
    /\ i = N + 1
    /\ pc' = "idle"
    /\ UNCHANGED <<sid, cache, scrape, router, clock, losses, trouble, loads>>

-----------------------------------------------------------------------------
(* load                                                                     *)

\* Mutant of Invalidate: the cache of the lost session is kept.
InvalidateSidOnly == sid' = NoSid /\ UNCHANGED cache

\* invalidateSession
Invalidate == sid' = NoSid /\ cache' = Empty

\* Mutant of LoadFails: the failure is not remembered in this scrape.
LoadFailsForgotten ==
    /\ Judge("request")
    /\ UNCHANGED <<attempt, memo, began>>

\* load returns an error, which Collect remembers for this scrape.
LoadFails ==
    /\ memo' = [memo EXCEPT ![This] = Failure]
    /\ Judge("request")
    /\ UNCHANGED <<attempt, began>>

Fault == trouble' = trouble \cup {This}
Lost == losses' = losses + 1

\* Login got a SID.
LoginSucceeds ==
    /\ pc = "login"
    /\ ~BudgetOver
    /\ issued < MaxSid
    /\ issued' = issued + 1
    /\ valid' = valid \cup {issued'}
    /\ sid' = issued'
    /\ pc' = "request"
    /\ UNCHANGED <<cache, scrape, clock, losses, trouble, loads>>

\* Mutant of LoginFails: load waits for a login.
LoginWaits == pc = "login" /\ UNCHANGED vars

\* Out of reach, blocked, wrong password, or the budget is over.
LoginFails ==
    /\ pc = "login"
    /\ LoadFails
    /\ Fault
    /\ UNCHANGED <<sid, cache, router, clock, losses, loads>>

\* No answer, which the end of the budget enforces.
RequestFails ==
    /\ pc = "request"
    /\ Invalidate
    /\ LoadFails
    /\ Fault
    /\ Lost
    /\ UNCHANGED <<router, clock, loads>>

Answered == pc = "request" /\ ~BudgetOver

\* Mutant of SmallestTTL: the definition that loads decides.
OwnTTL == TTL[i]

\* The smallest TTL of the definitions of this endpoint.
SmallestTTL ==
    CHOOSE t \in {TTL[d] : d \in Definitions} :
        /\ \E d \in Definitions : Endpoint[d] = This /\ TTL[d] = t
        /\ \A d \in Definitions : Endpoint[d] = This => t <= TTL[d]

\* 200 with a JSON object.
RequestSucceeds ==
    /\ Answered
    /\ sid \in valid
    /\ memo' = [memo EXCEPT ![This] = Data(sid, now)]
    /\ cache' = [cache EXCEPT ![This] = [data |-> Data(sid, now), expires |-> now + SmallestTTL]]
    /\ Judge("ok")
    /\ UNCHANGED <<sid, attempt, began, router, clock, losses, trouble, loads>>

Retry ==
    /\ attempt = 0
    /\ attempt' = 1
    /\ pc' = "login"
    /\ UNCHANGED <<i, memo, began, verdict>>

GiveUp == attempt = 1 /\ LoadFails

\* 401 or 403: the session is given up and, once, another one tried.  The
\* router refuses a session it does not know, or one that lacks the right.
Refused ==
    /\ Answered
    /\ \/ sid \notin valid /\ UNCHANGED <<losses, trouble>>
       \/ sid \in valid /\ Lost /\ Fault
    /\ Invalidate
    /\ Retry \/ GiveUp
    /\ UNCHANGED <<router, clock, loads>>

\* Mutant of BadRequest: 400 is taken as a lost session without a check.
BadRequestUnchecked ==
    /\ Answered
    /\ Invalidate
    /\ Retry \/ GiveUp
    /\ IF sid \in valid THEN Fault ELSE UNCHANGED trouble
    /\ UNCHANGED <<router, clock, losses, loads>>

\* 400: of a bad request, or of an unknown session after a reboot.  The first
\* attempt asks which; the second takes it as it is.
BadRequest ==
    /\ Answered
    /\ IF sid \in valid THEN Fault ELSE UNCHANGED trouble
    /\ IF attempt = 0
          THEN pc' = "check" /\ UNCHANGED scrape
          ELSE LoadFails
    /\ UNCHANGED <<sid, cache, router, clock, losses, loads>>

\* Any other status, an oversized or unreadable body, or no JSON object.
BadAnswer ==
    /\ Answered
    /\ LoadFails
    /\ Fault
    /\ UNCHANGED <<sid, cache, router, clock, losses, loads>>

\* ValidSID fails.
CheckFails ==
    /\ pc = "check"
    /\ Invalidate
    /\ LoadFails
    /\ Fault
    /\ Lost
    /\ UNCHANGED <<router, clock, loads>>

\* The session is known: the request was bad and the session stays.
CheckFindsValid ==
    /\ pc = "check"
    /\ ~BudgetOver
    /\ sid \in valid
    /\ LoadFails
    /\ UNCHANGED <<sid, cache, router, clock, losses, trouble, loads>>

\* Mutant of CheckFindsInvalid: the answer is believed but not acted upon.
CheckWithoutRetry ==
    /\ pc = "check"
    /\ ~BudgetOver
    /\ sid \notin valid
    /\ Invalidate
    /\ LoadFails
    /\ UNCHANGED <<router, clock, losses, trouble, loads>>

\* The session is not known: another one is tried.
CheckFindsInvalid ==
    /\ pc = "check"
    /\ ~BudgetOver
    /\ sid \notin valid
    /\ Invalidate
    /\ Retry
    /\ UNCHANGED <<router, clock, losses, trouble, loads>>

-----------------------------------------------------------------------------
(* The router and the clock                                                 *)

\* The router forgets sessions: one times out, or all with a reboot.
Forget ==
    /\ \E gone \in {{s} : s \in valid} \cup {valid} :
          /\ gone # {}
          /\ valid' = valid \ gone
          /\ IF sid \in gone THEN Lost ELSE UNCHANGED losses
    /\ trouble' = IF Loading THEN trouble \cup {This} ELSE trouble
    /\ UNCHANGED <<sid, cache, pc, scrape, issued, clock, loads>>

Tick ==
    /\ now < MaxTime
    /\ now' = now + 1
    /\ UNCHANGED <<sid, cache, pc, scrape, scrapes, router, losses, trouble, loads>>

-----------------------------------------------------------------------------
Load ==
    \/ LoginSucceeds \/ LoginFails
    \/ RequestFails \/ RequestSucceeds \/ Refused \/ BadRequest \/ BadAnswer
    \/ CheckFails \/ CheckFindsValid \/ CheckFindsInvalid
Collect == OutOfTime \/ FromMemo \/ FromCache \/ StartLoad \/ FinishScrape \/ Load

\* Between scrapes the collector may rest; within one it may not get stuck.
Rest == pc = "idle" /\ UNCHANGED vars

Next == StartScrape \/ Collect \/ Forget \/ Tick \/ Rest

Spec == Init /\ [][Next]_vars

\* Collect runs in a goroutine of its own and every request of it has a timeout.
\* Nothing is assumed of the router, or of another scrape to come.
FairSpec == Spec /\ WF_vars(Collect)

-----------------------------------------------------------------------------
Results == {Unknown, Failure} \cup {Data(s, t) : s \in 1 .. MaxSid, t \in 0 .. MaxTime}

TypeOK ==
    /\ sid \in 0 .. MaxSid
    /\ \A e \in Endpoints : cache[e].data \in Results /\ cache[e].expires \in Nat
    /\ pc \in {"idle", "next", "login", "request", "check"}
    /\ i \in 0 .. N + 1 /\ attempt \in 0 .. 1
    /\ memo \in [Endpoints -> Results]
    /\ began \in 0 .. MaxTime /\ now \in 0 .. MaxTime
    /\ verdict \in [Definitions -> {"none", "ok", "request", "timeout"}]
    /\ valid \subseteq 1 .. MaxSid /\ issued \in 0 .. MaxSid
    /\ losses \in Nat /\ scrapes \in 0 .. MaxScrapes
    /\ trouble \subseteq Endpoints
    /\ loads \in [Endpoints -> Nat]

(* "Do not retain cached results from the previous router session": every   *)
(* cached result was fetched with the session that is held, and there is    *)
(* none while there is no session (api_collector.go:128-132, 235).          *)
CacheIsOfThisSession ==
    \A e \in Endpoints : cache[e].data # Unknown => cache[e].data.sid = sid

(* A session the router has forgotten is never by itself the reason that an *)
(* endpoint fails, however the router says so: a failed load met a fault of *)
(* its own (api_collector.go:135-187).                                      *)
ForgottenSessionIsRenewed ==
    \A e \in Endpoints : memo[e] = Failure => e \in trouble

(* No login without need: the sessions opened are the first one and one for *)
(* each that was lost.  Lost is a session the router has forgotten, or one  *)
(* that is given up after 401, 403 or a request or check without an answer; *)
(* a 400 on a session the router still knows costs none                     *)
(* (api_collector.go:156-173, fritzbox_lua/lua_client.go:230-259).          *)
LoginsAreNeeded == issued <= losses + 1

(* An endpoint is asked at most once in a scrape, also when it fails and    *)
(* several definitions share it (api_collector.go:204-207, 215-239).        *)
OneLoadPerScrape == \A e \in Endpoints : loads[e] <= 1

(* A definition that succeeds is given data no older than its own TTL plus  *)
(* the time of the scrape, also when a definition with a longer TTL fetched *)
(* it (api_collector.go:217, 228-235).                                      *)
DataIsFresh ==
    [][\A d \in Definitions :
          verdict[d] # "ok" /\ verdict'[d] = "ok" =>
              now - memo'[Endpoint[d]].at < TTL[d] + Budget]_vars

(* A scrape ends, whatever the router does.                                 *)
ScrapeEnds == pc = "next" ~> pc = "idle"
=============================================================================
