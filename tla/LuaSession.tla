----------------------------- MODULE LuaSession -----------------------------
(****************************************************************************)
(* The legacy Lua pages: the retry loop of LoadData                         *)
(* (fritzbox_lua/lua_client.go) inside the loop over the definitions of     *)
(* collectLua with its cache (main.go), against a router that may forget    *)
(* the session, refuse, fail or be out of reach.  collectMu admits one      *)
(* collection at a time.                                                    *)
(*                                                                          *)
(* A session is a number, zero the empty SID.  A page that was loaded is    *)
(* known by the status it came with and the time it was fetched; fields     *)
(* that a definition needs are in it or not.                                *)
(****************************************************************************)
EXTENDS Integers

CONSTANTS
    N,          \* the definitions are 1 .. N, in the order of the file
    Page,       \* the page, with its parameters, of each definition
    TTL,        \* CacheEntryTTL of each definition
    Budget,     \* -collection-timeout, as far as SOAP has left it
    MaxTime,    \* bound: the clock
    MaxSid,     \* bound: sessions the router hands out
    MaxScrapes  \* bound: collections

Definitions == 1 .. N
Pages == {Page[d] : d \in Definitions}

ASSUME ParametersAssumption ==
    /\ N \in Nat /\ Budget \in Nat \ {0} /\ MaxTime \in Nat /\ MaxSid \in Nat /\ MaxScrapes \in Nat
    /\ DOMAIN Page = Definitions
    /\ TTL \in [Definitions -> Nat]

VARIABLES
    sid,       \* LuaSession.SID
    cache,     \* luaCache
    pc,        \* where collectLua or LoadData is
    i,         \* the definition it is at
    callDone,  \* LoadData: no further attempt
    status,    \* LoadData: the status of resp, or "none" while resp is nil
    retries,   \* LoadData
    began,     \* now of collectLua, and the start of its budget
    verdict,   \* the diagnosis of each definition
    valid,     \* the sessions the router knows
    issued,    \* how many it has handed out
    now,       \* the clock
    scrapes,   \* how many collections were started
    logins,    \* history: logins of this load
    requests,  \* history: requests of this load
    trouble    \* history: this load met a fault

load == <<callDone, status, retries, logins, requests, trouble>>
router == <<valid, issued>>
clock == <<now, scrapes>>
vars == <<sid, cache, pc, i, began, verdict, load, router, clock>>

NoSid == 0
NoResult == [status |-> "none", fetched |-> 0, stamp |-> 0]

InLoad == pc \in {"head", "login", "post", "body"}
BudgetOver == now - began >= Budget
This == Page[i]

Init ==
    /\ sid = NoSid
    /\ cache = [p \in Pages |-> NoResult]
    /\ pc = "idle" /\ i = 0
    /\ callDone = FALSE /\ status = "none" /\ retries = 0
    /\ began = 0
    /\ verdict = [d \in Definitions |-> "none"]
    /\ valid = {} /\ issued = 0
    /\ now = 0 /\ scrapes = 0
    /\ logins = 0 /\ requests = 0 /\ trouble = FALSE

-----------------------------------------------------------------------------
(* collectLua                                                               *)

StartScrape ==
    /\ pc = "idle"
    /\ scrapes < MaxScrapes
    /\ scrapes' = scrapes + 1
    /\ pc' = "next"
    /\ i' = 1
    /\ began' = now
    /\ verdict' = [d \in Definitions |-> "none"]
    /\ UNCHANGED <<sid, cache, load, router, now>>

AtDefinition == pc = "next" /\ i \in Definitions

Judge(v) ==
    /\ verdict' = [verdict EXCEPT ![i] = v]
    /\ i' = i + 1
    /\ pc' = "next"

OutOfTime ==
    /\ AtDefinition
    /\ BudgetOver
    /\ Judge("timeout")
    /\ UNCHANGED <<sid, cache, began, load, router, clock>>

\* The time of the collection, not of the definition, decides.
Stale == cache[This].status # "none" /\ began - cache[This].stamp > TTL[i]
Usable == cache[This].status # "none" /\ ~Stale

\* The fields of the definition are in the data, or the result is not kept.
Extract(result) ==
    \/ Judge("ok") /\ cache' = [cache EXCEPT ![This] = result]
    \/ Judge("extract") /\ cache' = [cache EXCEPT ![This] = NoResult]

\* Mutant of FromCache: every use starts the TTL anew.
FromCacheRenewed ==
    /\ AtDefinition
    /\ ~BudgetOver
    /\ Usable
    /\ Extract([cache[This] EXCEPT !.stamp = began])
    /\ UNCHANGED <<sid, began, load, router, clock>>

FromCache ==
    /\ AtDefinition
    /\ ~BudgetOver
    /\ Usable
    /\ Extract(cache[This])
    /\ UNCHANGED <<sid, began, load, router, clock>>

\* LoadData is called.  A result past its TTL is gone for good.
StartLoad ==
    /\ AtDefinition
    /\ ~BudgetOver
    /\ ~Usable
    /\ cache' = [cache EXCEPT ![This] = NoResult]
    /\ pc' = "head"
    /\ callDone' = FALSE /\ status' = "none" /\ retries' = 0
    /\ logins' = 0 /\ requests' = 0 /\ trouble' = FALSE
    /\ UNCHANGED <<sid, i, began, verdict, router, clock>>

FinishScrape ==
    /\ pc = "next"
    /\ i = N + 1
    /\ pc' = "idle"
    /\ UNCHANGED <<sid, cache, i, began, verdict, load, router, clock>>

-----------------------------------------------------------------------------
(* LoadData                                                                 *)

\* LoadData or ParseJSON fails: collectLua drops the SID.
LoadFails(cause) ==
    /\ sid' = NoSid
    /\ Judge(cause)
    /\ UNCHANGED <<cache, began, router, clock, callDone, status, retries, logins, requests>>

\* Mutant of Head: another login only without a session.
HeadWithoutLogin ==
    /\ pc = "head"
    /\ pc' = IF sid = NoSid THEN "login" ELSE "post"
    /\ UNCHANGED <<sid, cache, i, began, verdict, load, router, clock>>

\* A login comes first without a session, and after any answer.
Head ==
    /\ pc = "head"
    /\ pc' = IF sid = NoSid \/ status # "none" THEN "login" ELSE "post"
    /\ UNCHANGED <<sid, cache, i, began, verdict, load, router, clock>>

LoginSucceeds ==
    /\ pc = "login"
    /\ ~BudgetOver
    /\ issued < MaxSid
    /\ issued' = issued + 1
    /\ valid' = valid \cup {issued'}
    /\ sid' = issued'
    /\ callDone' = TRUE
    /\ logins' = logins + 1
    /\ pc' = "post"
    /\ UNCHANGED <<cache, i, began, verdict, status, retries, requests, trouble, clock>>

\* Mutant of LoginFails: LoadData waits for a login.
LoginWaits ==
    /\ pc = "login"
    /\ UNCHANGED vars

LoginFails ==
    /\ pc = "login"
    /\ trouble' = TRUE
    /\ LoadFails("request")

\* No answer, which the end of the budget enforces.
PostFails ==
    /\ pc = "post"
    /\ trouble' = TRUE
    /\ LoadFails("request")

Statuses == {"200", "403", "other"}
\* The router has an answer to the page for a session it knows only; without
\* one it refuses, or it is not itself yet after a reboot.
MayAnswer(answer) == sid \in valid \/ answer # "200"

Answered(answer) ==
    /\ pc = "post"
    /\ ~BudgetOver
    /\ MayAnswer(answer)
    /\ trouble' = (trouble \/ answer = "other" \/ (answer = "403" /\ sid \in valid))

\* 200 ends the loop; so does any other answer, but for the last attempt of two,
\* if there was a login before it.
Post(answer) ==
    /\ Answered(answer)
    /\ answer = "200" \/ (answer = "403" /\ ~callDone) \/ retries < 1
    /\ status' = answer
    /\ requests' = requests + 1
    /\ retries' = retries + 1
    /\ callDone' = (callDone \/ answer = "200")
    /\ pc' = IF callDone' THEN "body" ELSE "head"
    /\ UNCHANGED <<sid, cache, i, began, verdict, logins, router, clock>>

\* Mutant of PostRefused: a refusal is final at once.
PostRefusedAtOnce(answer) ==
    /\ Answered(answer)
    /\ answer # "200"
    /\ answer = "403" \/ retries >= 1
    /\ LoadFails("request")

\* A third branch taken twice, or a refusal after a login, is an error.
PostRefused(answer) ==
    /\ Answered(answer)
    /\ answer # "200"
    /\ ~(answer = "403" /\ ~callDone)
    /\ retries >= 1
    /\ LoadFails("request")

\* The body is a JSON object, whatever the status of the answer was.
BodyIsData ==
    /\ pc = "body"
    /\ Extract([status |-> status, fetched |-> now, stamp |-> began])
    /\ UNCHANGED <<sid, began, load, router, clock>>

\* The body cannot be read, is not JSON, or is not an object.
BodyIsBad ==
    /\ pc = "body"
    /\ trouble' = TRUE
    /\ \E cause \in {"request", "json"} : LoadFails(cause)

-----------------------------------------------------------------------------
(* The router and the clock                                                 *)

\* The router forgets sessions: one times out, or all with a reboot.
Forget ==
    /\ \E gone \in {{s} : s \in valid} \cup {valid} :
          gone # {} /\ valid' = valid \ gone
    /\ trouble' = (trouble \/ InLoad)
    /\ UNCHANGED <<sid, cache, pc, i, began, verdict, callDone, status, retries, logins,
                   requests, issued, clock>>

Tick ==
    /\ now < MaxTime
    /\ now' = now + 1
    /\ UNCHANGED <<sid, cache, pc, i, began, verdict, load, router, scrapes>>

-----------------------------------------------------------------------------
LoadData ==
    \/ Head \/ LoginSucceeds \/ LoginFails \/ PostFails
    \/ \E answer \in Statuses : Post(answer) \/ PostRefused(answer)
    \/ BodyIsData \/ BodyIsBad
CollectLua == OutOfTime \/ FromCache \/ StartLoad \/ FinishScrape \/ LoadData

\* Between collections the program may rest; within one it may not get stuck.
Rest == pc = "idle" /\ UNCHANGED vars

Next == StartScrape \/ CollectLua \/ Forget \/ Tick \/ Rest

Spec == Init /\ [][Next]_vars

\* The collection runs in a goroutine of its own and its requests have timeouts.
FairSpec == Spec /\ WF_vars(CollectLua)

-----------------------------------------------------------------------------
TypeOK ==
    /\ sid \in 0 .. MaxSid
    /\ cache \in [Pages -> [status : Statuses \cup {"none"}, fetched : 0 .. MaxTime,
                            stamp : 0 .. MaxTime]]
    /\ pc \in {"idle", "next", "head", "login", "post", "body"}
    /\ i \in 0 .. N + 1
    /\ callDone \in BOOLEAN /\ status \in Statuses \cup {"none"} /\ retries \in 0 .. 2
    /\ began \in 0 .. MaxTime /\ now \in 0 .. MaxTime
    /\ verdict \in [Definitions -> {"none", "ok", "request", "json", "extract", "timeout"}]
    /\ valid \subseteq 1 .. MaxSid /\ issued \in 0 .. MaxSid
    /\ scrapes \in 0 .. MaxScrapes
    /\ logins \in Nat /\ requests \in Nat /\ trouble \in BOOLEAN

(* A load logs in at most once and asks for the page at most twice: the     *)
(* three flags of the loop end it on every path, whatever the password, the *)
(* session or the page is worth.  The bound is that of one load: every      *)
(* definition that finds no cached page makes a load of its own             *)
(* (fritzbox_lua/lua_client.go:275-321).                                    *)
LoadIsBounded == logins <= 1 /\ requests <= 2

(* A session the router has forgotten is never by itself the reason that a  *)
(* page fails: the load that ends in a failure met a fault                  *)
(* (fritzbox_lua/lua_client.go:280-314).                                    *)
ForgottenSessionIsRenewed ==
    [][InLoad /\ pc' = "next" /\ verdict'[i] \in {"request", "json"} => trouble']_vars

(* Data is shown at most its TTL plus the time of the collection after it   *)
(* was fetched; the entry is dated by the start of the collection, so that  *)
(* a slow one shortens its life and never lengthens it                      *)
(* (main.go:597, 611, 637).                                                 *)
DataIsFresh ==
    [][\A d \in Definitions :
          verdict[d] # "ok" /\ verdict'[d] = "ok" =>
              now - cache'[Page[d]].fetched < TTL[d] + Budget]_vars

(* A collection ends, whatever the router does.                             *)
ScrapeEnds == pc = "next" ~> pc = "idle"

(* "unexpected error let's retry (reboot issue ?)",                         *)
(* fritzbox_lua/lua_client.go:315: an unexpected first answer is not taken  *)
(* for the page, the page is asked for again.                               *)
UnexpectedErrorIsRetried == pc = "body" /\ requests = 1 => status = "200"
=============================================================================
