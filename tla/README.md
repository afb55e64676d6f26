# A formal model of fritzbox_exporter

TLA+ specifications of the stateful parts of the exporter, checked with TLC on
small instances, with theorems about them checked by TLAPS. The reference is the
Go code; every definition that models code is mapped to its lines in
`PROJECT.json`. The program serves `/metrics` to Prometheus: on each scrape it asks
a FRITZ!Box over three protocols (SOAP with digest authentication, the Lua pages
behind a session id, the REST-like API behind the same kind of session), and it
keeps an optional archive of failures and router log lines in SQLite.

## 1. Inventory

| Component | State | Operations | Hard behaviours |
|---|---|---|---|
| Event archive, queue (`archive.go`, `archive_poll.go`, `archive_runtime.go`) | `queue` (channel of 128), `closed` under `queueMu`, `dropped`, `writeErrors`, the poller and writer goroutines | `enqueue`, `run`, `close`, `poll`, `pollOnce`, the stop function, `serveExporter` | close against send, drain, join order, full queue, scrapes that outlive the shutdown |
| Event archive, store (`archive.go`) | table `events`, `lastPoll` | `store` (one transaction), `openArchive`, `parseRouterLog` | rollback half-way, restart, UNIQUE keys, incidents and recoveries, retention and row limit |
| API collector (`api_collector.go`) | session id, cache by endpoint, memo of one collection | `Collect`, `load`, `invalidateSession` | forgotten sessions answered with 400, 401 or 403; one retry; shared endpoints with different TTLs; budget |
| Lua session (`fritzbox_lua/lua_client.go`, `main.go`) | `SID`, `luaCache` | `LoadData`, `Login`, `collectLua` | two rounds with three flags; login; cache by page; budget |
| SOAP call (`fritzbox_upnp/service.go`) | `authHeader` under `authHeaderMu` | `CallWithClient`, `getDigestAuthHeader` | two callers replace each other's header; nonce changes; second request |
| SOAP collection (`main.go`, `host_diagnostics.go`) | `upnpCache`, duplicates of this collection, hosts seen | `Collect`, `getActionResult`, `reportMetric`, `logDuplicateHost`, `invalidateHostCache` | lists that move while they are read; counts older than rows; error 713; budget |
| XML host list (`host_list.go`) | `hostList`, one cache for all definitions | `collectHostList`, `readHostList` | path and download are two requests; a refresh that fails; rows checked before the first is emitted |
| Query diagnostics (`query_diagnostics.go`) | verdict per definition | `begin`, `fail`, `emitted`, `collect` | first cause wins; job for the archive |
| Budgets and gate (`collection_limits.go`) | context of a collection, `active` | `collectionBudget`, `budgetTransport`, `rejectOverlappingScrapes` | the end of the budget anywhere |
| Repeat log limiter (`collection_log.go`) | `pending`, at most 1024 | `log`, `flush`, the goroutine of `startCollectionLogSummaries` | limit reached; the table taken while collections count into it; the last flush at the stop |
| Discovery and health (`main.go`, `service.go`) | `Root`, `Ready`, `Live` | `LoadServices`, the two handlers | scrapes before discovery |
| Extraction (`api_extraction.go`, `empty_results.go`, `GetMetrics`) | none: functions of a JSON document | `GetMetrics`, `GetMetricsWithEmpty`, `extractAPIMetrics` | what is missing beside what is there; wildcards, indexes from the end, filters, parents |
| Web page, host trace, start-up, metric files | none that the others read | | |

They interact as follows. The Prometheus registry calls the SOAP/Lua collector and
the API collector concurrently; each holds its own mutex for a whole collection.
At its end a collection turns the verdicts of its definitions into one job and
calls `enqueue`. The poller calls the SOAP action `GetDeviceLog`, shares
`authHeader` with the collection, and enqueues the router log. One writer takes the
jobs and stores each in a transaction. `main` stops the HTTP server, then the
poller, then the archive.

What makes each correct: the queue never panics, blocks, or loses an accepted job;
the table tells the truth about committed verdicts, and what it tells last agrees with the last report; a session or nonce that the
router has forgotten costs a retry and no data; nothing older than its TTL is
reported; no two samples clash; what a document holds is reported and nothing else; no repetition of a message goes untold; every collection and every shutdown ends.

## 2. Modules

**`LossyFifo`** is the abstract promise of the archive: a buffer that accepts a job
or drops it, hands over in order, and refuses everything once it is shut.

**`ArchiveQueue`** is what the code does: the states of each producer in `enqueue`
(lock, check, offer, unlock), of the writer in `run`, of `main` through
`serveExporter`, the stop function and `close`. An action is what one goroutine does
between two points where another can get in. `fate` is a history variable. The
property `ImplementsBuffer` is its refinement of `LossyFifo`.

**`ArchiveStore`** is the transaction of `store`, one action per statement of the
loop: `StoreLine`, `StoreSuccess`, `StoreRecovery`, `StoreRepeat`, `StoreFailure`,
then `Commit` with the deletion by the row limit. `Abort` stands for any error and
`Restart` for the end of the process, both at every point. A row has the columns
on which the code decides; `active` is a non-NULL `active_key`, `dedup` the
`dedup_key`. `story` and `lastLog` are histories of committed jobs; the invariants
relate the table to them.

**`EventArchive`** composes the two: reports of collections and of the poller go into the
buffer of `LossyFifo` (which `ArchiveQueue` implements), the writer takes the oldest and
runs the transaction of `ArchiveStore` on it, and the process may end and start again at
any moment with an empty queue. What is new in it are `Enqueue`, `Take`, `Stored`,
`StoreFails` and `ProcessRestarts`, which couple the steps of both parts. The whole is
shown to refine `ArchiveStore` (`ImplementsStore`): a report that waits, is dropped or is lost in a
restart is a stutter of the store.

**`ApiSession`** follows `APICollector.Collect` and `load`: per definition the memo,
the cache, the budget, then login, request, the check of the session after a 400,
401 or 403, one retry. The router may forget the session before any request. Of the verdicts of a definition
those of the extraction, of a duplicate and of the construction of a sample (api_collector.go:240-278) are left out: they change
nothing that a later step reads.

**`LuaSession`** follows `LoadData` line by line (`Head`, login, `Post`, `PostRefused`,
body) and `collectLua` around it.

**`SoapCollect`** follows the SOAP half of `FritzboxCollector.Collect`: per definition
the provider action or the single one (`pc = "count"`), the loop over indexes
(`"rows"`), `getActionResult` split into the answer from the cache (`FromCache`), the
request (`Ask`) and its end (`Answer`, `CallFails`, `InvalidIndex`), because the
router's lists (`Join`, `Leave`) and the clock change in between. `Row` is
`logDuplicateHost` and `reportMetric` on one row. With `xml`, which is
`-host-list-xml`, a definition of hosts takes the steps of `host_list.go` instead: the
cached list (`ListFromCache`), or the call for its path, the download and its end (`AskPath`,
`PathAnswered`, `Download`, `Downloaded`, `ListFails`), and `ShowList`, which is `collectHostList` on the
list as a whole. The other definitions go on as before. Two rows are taken for the same by `SameKey`, the key of
`dupCache`: the name, the text of the fixed labels and the row. That text (`text`) is joined once, at the start, from a
Go map, so in an order of its own for each definition (`Arrangements`); what the registry calls one series is `SameSeries`, whatever
the order.

**`SoapAuth`** follows `CallWithClient` for any number of concurrent callers. A header
is represented by its nonce; since it is also made for the path of one service, the router may refuse a first request whose
nonce is the current one. Reading the shared header and sending the request is
one action, storing a new header and sending the second request are two, since the
code releases the mutex between them.

**`RepeatLog`** follows `log` and `flush`: a line is the key of the limiter; the lock is
released before a line is written, so `LogNew` and `Written` are two steps, and so are the
taking of the table (`Swap`) and the writing of its summaries (`Summarise`).

**`Extraction`** has the extraction functions as operators over JSON trees, with a row
knowing where it was found: `GetMetrics` with `TolerantRows` (`_getValues`),
`GetMetricsWithEmpty` with `StrictRows` and `EachRow`, and `ExtractAPI`
(`extractAPIMetrics`) with parents, filters, label paths and series. The recursion of the code over the parts of a
path is a function on the numbers of the parts (`Walk`, `TolerantRows`, `StrictRows`). Beside them stands what a
path means (`Instances`, `Unbroken`), stated as a set of ways to read its wildcards and not as a search; the properties compare
the two. A collector's module only knows whether an extraction succeeds.

`MC<Module>` gives each its small instance. `<Module>Proofs` holds the theorems about a module:
there is one for each of `ArchiveQueue`, `EventArchive`, `ApiSession`, `LuaSession`, `SoapCollect`, `SoapAuth`,
`RepeatLog` and `Extraction`; that of `EventArchive` begins with the theorems about `ArchiveStore`, which it extends. In the modules a definition introduced by the
comment "Mutant of X" is X with a plausible bug; it is used by no specification and
serves to confirm that a property can fail.

## 3. Runs

| Run | Question | Result | Distinct states |
|---|---|---|---|
| `archive_queue` | Do producers, writer and shutdown keep the channel and the database safe and implement `LossyFifo`; does the shutdown end, is each accepted job handled, does `enqueue` return? | holds | 61,830 |
| `archive_store` | Is the table true to what was committed, with failures and restarts anywhere? | holds | 471,135 |
| `archive_lines` | Is a router line kept for the retention since its last observation (README.md:115)? | violated | |
| `event_archive` | Does the archive tell what was reported, in order, over a lossy queue, failed transactions and restarts, agree with the last report, and refine `ArchiveStore`? | holds | 423,378 |
| `api_session` | Is a forgotten session renewed, is old data never shown, does a collection end? | holds | 286,999 |
| `lua_session` | The same for Lua pages, with a bounded number of logins and requests | holds | 754,912 |
| `lua_retry` | Is an unexpected answer asked for again (lua_client.go:315)? | violated | |
| `soap_collect` | Are samples unique, fresh and complete while hosts come and go, read by index or as an XML list? | holds | 908,764 |
| `soap_indexes` | Does a failed index leave the later ones to be read (DIAGNOSTICS.md:122)? | violated | |
| `soap_auth` | Are two callers with one shared header independent, does a call return? | holds | 14,983 |
| `repeat_log` | Is every occurrence of a message told once, and every repetition in the end? | holds | 190,167 |
| `extraction` | Is what is extracted what the path means, tolerantly or all or nothing? | holds | 90,776 |

Every property of a passing run has a mutant in its module: the comment names the
definition and the bug, and the run finds the property violated with it.

### Bounds

* `archive_queue`: three collectors (several readers while the writer lock is wanted) and
  the poller, one job each, capacity 2 (the code has 128): two jobs that wait have an order, and the queue is full
  when a third is being stored and the fourth is offered. What matters is who is where when the archive closes. No symmetry, as liveness is checked.
* `archive_store`: one definition beside the poller, two causes (symmetric), a log
  of up to two equal lines, two rows so that records overflow, retention 1 with a
  clock up to 3, four commits: failure, other failure, recovery, failure is a
  complete story. `archive_lines` needs room for three rows.
* `event_archive`: one definition beside the poller, two causes (symmetric), a queue of two and three reports, so that
  one is dropped while the others wait, or one fails and two are stored around a restart; router logs
  of up to two equal lines.
* `api_session`, `lua_session`: three definitions of which two share an endpoint or
  page with different TTLs; budget 2 with a clock of 4 or 3, so that it can end
  in any step and entries can expire between two collections; four or three sessions.
* `soap_collect`: the host list twice and its length once, two host names (a list may hold one twice), one value or none, up to two rows,
  three changes of the list, two collections, a clock of 2 with budget 2. The TTLs are
  0 and 1: one that is shorter than a step of the clock, so that an entry is
  fresh for one definition and not for another. Two rows suffice for a stale
  count, a row that moves up and a duplicate. `soap_indexes` has four changes, as
  two hosts must come and go. The definitions have one fixed label or none, so that each has one text; labels with
  several texts are in the proofs only. (In the metric files definitions of one name often have several, but never the same.)
* `soap_auth`: the two callers of the program, three changes of the nonce.
* `repeat_log`: two collectors with three lines, room for two, each line up to three
  times, and as many windows as the ticker likes.
* `extraction`: 1,621 documents (a list or object of up to two elements, each whole, null, of
  another type or without a field; a list of up to two parents with up to two children) and
  28 definitions: every kind of path, key, filter, label path and series, with and without
  `allowEmpty`. Two elements suffice for a good one beside a bad one.

The clocks count in units; a TTL that is a boundary in the code (`>`) is one in
the model. The bounds `MaxTime`, `MaxScrapes`, `MaxJobs`, `MaxChanges`, `MaxCommits`,
`MaxSid`, `MaxNonce`, `MaxId`, `MaxReports`, `MaxCalls` and `MaxRows` are guards of the models only, except
`MaxRows` of `ArchiveStore`, which is `-archive-max-rows`. No run disables the check for
deadlock: where the program rests between collections, `Rest` says so, and where it ends, `Ended` or `Done`.

### Fairness

Weak fairness of each goroutine's own steps, which the Go scheduler gives. Steps
that wait for the router are fair because every client has a timeout
(`-soap-timeout`, `-lua-timeout`, `-collection-timeout`), and those of the writer
because a transaction has five seconds. The goroutine of the summaries is fair because its
ticker keeps firing. A reader or writer of the RWMutex gets it:
a waiting writer holds off new readers, which `ArchiveQueue` models. Nothing is
assumed of the router, the clock, or of scrapes arriving.

## 4. Proofs

`ArchiveQueueProofs` proves, for any set of collectors, any capacity and any number
of jobs, the three safety invariants of `archive_queue`, `StoreNeedsDatabase` (no transaction runs on a closed
database, which no run checks by itself as it follows from `AcceptedIsTried`) and the refinement. None but
type correctness is inductive. The invariant `IInv` adds where a job is (`Accounts`: `fate`
and the channel agree and a job is in one place; `Fresh`, `JobInHand`), which flag is
set in which phase of `close` and that no reader is past its check then
(`LockDiscipline`), and who has been waited for (`Joined`). A send on the closed channel is then
impossible, because a producer that has checked excludes the phases in which the
channel is closed; the drain follows because a writer ends only on an
empty closed channel and the database closes only after it; a poll is never
discarded because the poller has ended before `close` begins. The refinement maps the
channel to the buffer; every action is a step of `LossyFifo` or leaves it
unchanged.

The first part of `EventArchiveProofs` proves, for any definitions, causes, limits and logs, every property of
`archive_store`, in two layers. `IInv` is type correctness, `KeysAreUnique` and `LastPollIsTrue`. The
first two are inductive by themselves, with one lemma for each way the table changes: a row is inserted, an
incident is closed, a row is counted. For the third it adds that a job with a poll to
publish holds exactly a success of the poller (`JobIsComplete`), which each of the three kinds of
job is shown to satisfy.

`StoryInv` stands on it and relates the table to the history. What a committed table says is not enough
for an induction over the statements of a transaction, because between them the table is half
told. So `Told` is the story as the open transaction will have it *so far*: the verdict of a query is added as soon
as the loop is past its record. `Tells` says of a table and a story what the four properties say of the
committed ones (open incidents are true, failures are open or gone for a reason, recoveries are real, the
last log is kept), and holds of `rows` with `story` and of `work` with `Told`. It needs that a job has one
verdict for each query (`Once`) and begins with the lines of its log (`HasLog`), that nothing in the table is
from the future or outlived the retention, and that times only grow. The row limit acts in `Commit`: a row that
is deleted has `MaxRows` newer ones beside it (`NewestAreKept`), which is what `Gone` says. An
`Abort` or `Restart` is trivial, since `rows` and `story` stay.

The second part proves that the archive from end to end refines `ArchiveStore`. Its `QueueInv` says
that a report has one fate and waits in the queue if that is its fate, that stored, storing and waiting
reports are in the order of their numbers, and that the transaction is that of the
one report which is being stored. So every theorem about the store holds of the archive too (`StoreHolds`).
`CommittedIsReported` follows by counting: the committed verdicts on a query are the stored reports
about it, in order (`Cardinality` of `StoredAbout`); with `StoryInv` the
agreement with the last report comes from that.

`ApiSessionProofs` proves, for any definitions, endpoints, TTLs, budget and number of
sessions, every property of `api_session` but the liveness. The invariant has three
parts beside type correctness: what is said of the session (`LoginHasNoSession`; a session that is
known to the router is the one that `issued` may exceed `losses` by, `SessionsAreCounted`), of the
loads of a scrape (a load is for what is not known yet, `LoadingIsAt` and `LoadsAreCounted`; a
second attempt that is refused follows a fault, `RefusalIsFaulty`), and of ages (`CacheExpires`
no later than any TTL allows; when the scrape began what it knows had not
expired, `MemoIsRecent`). That the smallest TTL exists follows from the
well-foundedness of the naturals.

`LuaSessionProofs` proves the same way every property of `lua_session` but the liveness. Its heart is
`FlagsTell`: what the three flags of `LoadData` (`callDone`, the status, the retries) together say of the round
the loop is in, from which the bound of two requests and one login follows; it is no
single flag that bounds them. `LoginCounts` says that a session this load has got is
known to the router unless it has been forgotten since, so a load that fails has met a fault.

`RepeatLogProofs` proves, for any collectors and lines, any limit and any number of calls,
`NothingIsForgotten` and `OncePerWindow`. The first is inductive, but its proof has to know how many
collectors are between the lock and the log line (`OneWriter`: a line has one collector) and what each step does to
the counts of both tables. The second needs that a line that has passed is remembered as long as there
is room (`PassedIsRemembered`). `WaitsWithoutBatch` says that `Swap` finds no rest of the last window, so
replacing the table loses nothing.

`SoapCollectProofs` proves, for any definitions, TTLs, budget and lists, every property of `soap_collect` but the
liveness. The invariant has three parts.

* `PlaceInv`, of the collection: in which way a definition is read at each `pc` (`InPlace`), that
  a definition the loop has not reached has shown nothing (`Untouched`), that the count an enumeration
  goes by is covered by the list unless a row has left it (`CountIsCovered`), and that an
  enumeration which has met only the present list has shown exactly its first `i` rows
  (`ReadSoFar`).
* `CacheInv`, of the cache by index: counts are covered too, entries are dated no later than they were
  fetched, and an entry of the present list is what the list holds there (`EntriesAreTrue`).
  Without it the theorems would be about calls only: count and rows of one enumeration may come from the cache, from other
  definitions, and from collections before.
* `XmlInv`, of the cached and the downloaded XML list: the same of a list as a whole.

`EntriesAreTrue` and `ReadSoFar` make `StableListIsShown` hold. `SeriesAreUnique` rests on `KeysAreUnique`, that no two rows shown
have the same key, which holds for any fixed labels and any order of them. It is kept by each row that is read by
index; for the XML list, whose rows are all emitted in one step, it needs `FirstsAre`, the lemma that
`collectHostList` emits each name of a list once. From keys to series there is one step more, `OneTextOfOneLabel`: with at most one
fixed label there is one text. So `SeriesAreUnique` says of two definitions only that they are apart if one of them has at most one fixed
label; with two or more labels each the code does not keep it (section 5, item 6). The proof found that `WholeListOrNothing` had been stated of all
definitions with `-host-list-xml`, while the flag concerns those of hosts only; the run had no other kind to show it.

`SoapAuthProofs` proves, for any set of callers and any number of nonces, that a call makes at
most two requests, that its action is run at most once, and that its second
request is refused only if the nonce has changed since the challenge. The
invariant adds that the challenge of a call is the router's nonce unless that has
changed (`ChallengeIsCurrent`), that the second request carries the header for this
challenge and not the shared one (`ChallengeIsMet`), and counts of requests and runs.

`ExtractionProofs` proves, for any document and any definition, the two properties of `extraction`. The state machine has
one step, so its invariant says little: `ExtractionInv`, that the result is what the extraction yields of the document and the
definition, which stay. All the work is in lemmas about the operators, in three layers.

* The length of a path is any number, and the library's induction cannot be instantiated here; so `UpTo` derives induction
  over the numbers up to a bound from the existence of a least counterexample, with the good numbers as a set instead of a predicate.
  `TraceExists` and `TraceSoFar` give the functions of a path from it, since a function that is defined by itself
  is known only once it is shown to exist; `SameEnd` shows that two such functions agree.
* A search comes to the instances of its path. `RowsSoFar` gives a closed form for each part of it: after n parts the
  rows are the places of `Instances` of the first n. `InstanceAppend` and `InstanceSplits` say what an instance of a path with one part more and
  of two paths in a row is. So the tolerant search is `TolerantRowsAlong`, and the strict one (`StrictRowsAlong`) fails or comes to the same
  rows having met no dead end, which is `UnbrokenFrom`.
* A row stands for its place (`RowMeans`): whatever path is followed from it, also through the parent that was joined to
  it, leads where `Elsewhere` says in the document. `ChildRowsMean` shows this for a definition with a parent, where two
  searches follow one another and the instances must not be confused (`SameHalves`).

The proof found that `Elsewhere` read `$parent` as the parent for definitions without one as well, where `api_extraction.go` looks
for a field of that name; no document of the run had one.

Assumptions are those stated as `ASSUME` in the modules, and TLC evaluates each in a run: the poller
is no collector and a collector lists no definition twice; no message of one
collector is a message of another; an unsupported challenge is not a nonce; the definitions of hosts read one service's
list (`useHostList`), which the single XML cache takes for granted; bounds and TTLs are numbers, and the
budget and the queue's capacity are not zero. Of JSON it is assumed that fields and elements are values again,
that an index is written as the number it is, that `None` is no value, and of a definition that the paths of its filter and labels have a part at
least ("row-relative field paths", API.md:104). `TypeOK` of every module with a proof module is proved.

Each module with a loop has a termination theorem beside its safety theorems, which says what can be said of its
liveness without fairness. It counts the steps that are left and shows that every step of the component lowers the
count while no step of the router, the clock or another goroutine raises it.

| Module | Theorem | The count |
| --- | --- | --- |
| `LuaSessionProofs` | `CollectionsAreFinite` | at most 8 steps for each of the `N` definitions and one more; within a load it follows `retries`, so a session that is forgotten again and again buys no third round |
| `ApiSessionProofs` | `ScrapesAreFinite` | at most 6 for each definition and one more, following `attempt` |
| `SoapCollectProofs` | `CollectionsAreFinite` | the definition, then at most `2 * MaxRows + 4` steps for it: the count of rows is read once, so a list that grows under an enumeration does not prolong it |
| `SoapAuthProofs` | `CallsAreFinite` | at most 5 for a call, although the nonce may change for ever |
| `ArchiveQueueProofs` | `EnqueuesAreFinite` | 3 for an enqueue, with the writer stuck and the queue full too |
| `ArchiveQueueProofs` | `ShutdownsAreFinite` | 9 from the signal to the end of `main`; 2 for each queued job and at most 2 more for the writer, once `closed` is set. That no producer adds to them then is `LockDiscipline` again |
| `RepeatLogProofs` | `FlushesAreFinite` | one for each remembered line and one more, at most `Limit + 1` |

With these, a liveness property asks two things more: that some step of the component can be taken (`ENABLED`, which
the prover does not know; TLC checks it as part of the liveness property on the small instance) and that
the scheduler lets it be taken (the fairness of section 3). The counts are why the small instances are no
coincidence. `PollExit` is not among them: a cancelled poller may go round its `select` any number
of times, and only the strong fairness of a `select` gets it out, so of `StopTerminates` the wait for the poller has no
count.

Only model-checked are:

* liveness under fairness, which is beyond the prover: `StopTerminates`, `AcceptedIsHandled`, `EnqueueReturns`,
  `ScrapeEnds` of three modules, `CallReturns`, `RepeatsAreSummarised`;
* the three runs that end in a violation: they are counterexamples.

So every safety invariant, action property and refinement that a passing run checks is a theorem.

## 5. Disagreements between code and documents

1. README.md:115 and ARCHIVE.md:44 let the retention count from the last
   observation. For a router line it counts from the first: `ON CONFLICT(dedup_key) DO
   NOTHING` (archive.go:254) never refreshes `last_seen`. Run `archive_lines`.
2. `LoadData` says "unexpected error let's retry" (lua_client.go:315). After a login
   in the first round the loop ends instead, with no error, and the body of that
   answer is taken for the page if it is JSON. Run `lua_retry`.
3. DIAGNOSTICS.md:122 says that a failed index does not prevent reading later ones.
   After error 713 on the host list the loop is left (main.go:553). Run `soap_indexes`. The same section
   describes a recheck of the count that no longer exists in the code. It is the document that is out of date: CHANGES_FROM_UPSTREAM.md:88
   and the test `TestHostInvalidIndexRefreshesNextScrape` (host_snapshot_test.go:80) take the stop as intended.
4. `allowEmpty` promises that "nulls and wrong types remain errors"
   (empty_results.go:9). With an `okValue` `GetMetrics` compares the text of whatever it finds
   (lua_client.go:432), so a field that is null gives 0. No run: `Value` says so.
5. The counters of loaded and cached SOAP results are swapped
   (main.go:429, 431; help texts main.go:85-99). No run: it is plain to see.
6. main.go:366 checks "for duplicate labels to prevent collection failure", by a key that has the fixed labels in the order in
   which a Go map gave them (main.go:1003-1006). Two definitions of one name with the same two or more fixed labels may have
   different keys and both emit one series. No run; the property `SeriesAreUnique` leaves them out. No metric file has two such definitions, and the API
   collector's key (api_collector.go:261) sorts the labels.

## 6. What is not modelled, and the plan

Left out on purpose: wording, redaction and layout of messages; parsing of device
descriptions, SOAP envelopes and the XML of the host list; the calculation of
login responses; the arithmetic of the powerline spectrum; SOAP arguments that are no index (no metric file has one); SQLite itself (a statement succeeds or fails, a commit is
atomic, a rollback complete); dashboards, flags; the web page, which only reads; the host trace, which only
writes to the log. The scrape gate and the collectors'
mutexes are the assumption that collections of one collector do not overlap.

Next, in this order:

1. `EventArchive` composes the store with `LossyFifo`. The refinement of `ArchiveQueue` to `LossyFifo`
   is proved; that the goroutines with the store in the writer's place refine `EventArchive` is an argument
   of this text only.
2. In `SoapCollect`, arguments that are no index; the scrape gate with handlers that panic; the
   commas that join the labels of a row in its key (main.go:368), which a host name might hold.
