---------------------------- MODULE ArchiveStore ----------------------------
(****************************************************************************)
(* The durable side of the event archive: archive.store, one transaction    *)
(* per job on the events table, run by the single writer goroutine, with    *)
(* the failures and restarts it has to survive (archive.go), and the jobs   *)
(* it is given: the router log of pollOnce (archive_poll.go) and the        *)
(* verdicts of a collection (query_diagnostics.go).                         *)
(*                                                                          *)
(* A row keeps the columns the code decides on.  A cause stands for the     *)
(* reason and the redacted message of a failure, a line for the text of a   *)
(* router log line, a stamp for the fixed-width UTC time that is compared   *)
(* as text.                                                                 *)
(****************************************************************************)
EXTENDS Integers, Sequences, FiniteSets, Functions

CONSTANTS
    Collectors,   \* the backends whose verdicts are archived
    Definitions,  \* their query keys: a sequence for each collector
    PollerQuery,  \* the query key of the poller, "router-log"
    Causes,       \* the ways a query fails
    Lines,        \* the texts a router log line may have
    None,         \* SQL NULL, and no cause
    MaxRows,      \* -archive-max-rows
    Retention,    \* -archive-retention
    MaxLog,       \* bound: lines of a router log
    MaxTime,      \* bound: the clock
    MaxCommits,   \* bound: committed transactions
    MaxId         \* bound: row ids

Queries == (UNION {Range(Definitions[c]) : c \in Collectors}) \cup {PollerQuery}
Dedups == Lines \X (1 .. MaxLog)
Times == 0 .. MaxTime

ASSUME DefinitionsAssumption ==
    \A c \in Collectors : Definitions[c] \in Seq(Queries) /\ IsInjective(Definitions[c])
ASSUME NoneAssumption == None \notin Causes \cup Queries \cup Dedups
ASSUME LimitsAssumption ==
    /\ MaxRows \in Nat \ {0} /\ Retention \in Nat \ {0}
    /\ MaxLog \in Nat /\ MaxTime \in Nat /\ MaxCommits \in Nat /\ MaxId \in Nat

VARIABLES
    rows,      \* the events table as last committed
    lastPoll,  \* archive.lastPoll, zero after a start
    now,       \* the clock; it does not run backwards
    phase,     \* "idle", or "open" while store has a transaction
    job,       \* the job being stored
    pos,       \* the record of it that comes next
    stamp,     \* the time of the job
    work,      \* the events table as the transaction sees it
    commits,   \* history: the times of the committed jobs
    story,     \* history: the committed verdicts on each query
    lastLog    \* history: the last router log whose job was committed

tx == <<phase, job, pos, stamp, work>>
history == <<commits, story, lastLog>>
vars == <<rows, lastPoll, now, tx, history>>

-----------------------------------------------------------------------------
(* Jobs                                                                     *)

Verdicts == Causes \cup {None}
QueryRecord(q, verdict) == [kind |-> "query", query |-> q, cause |-> verdict, dedup |-> None]
RouterRecord(d) == [kind |-> "router", query |-> None, cause |-> None, dedup |-> d]
Records == {QueryRecord(q, v) : q \in Queries, v \in Verdicts} \cup {RouterRecord(d) : d \in Dedups}

\* Mutant of Occurrence: equal lines share one key.
OccurrenceIgnored(log, i) == 1

\* parseRouterLog tells equal lines apart by how often they came before.
Occurrence(log, i) == Cardinality({k \in 1 .. i : log[k] = log[i]})
RouterRecords(log) == [i \in DOMAIN log |-> RouterRecord(<<log[i], Occurrence(log, i)>>)]

Logs == UNION {[1 .. n -> Lines] : n \in 0 .. MaxLog}

\* pollOnce: the lines of the log and the success of the poll, in one job.
PollJob(log) == [records |-> Append(RouterRecords(log), QueryRecord(PollerQuery, None)),
                 poll |-> TRUE, log |-> log]

\* pollOnce: the poll failed.
FailedPollJob(cause) == [records |-> <<QueryRecord(PollerQuery, cause)>>,
                         poll |-> FALSE, log |-> <<>>]

\* queryDiagnostics.collect: the verdict on each definition of a collector.
ScrapeJob(c, verdict) ==
    [records |-> [i \in DOMAIN Definitions[c] |-> QueryRecord(Definitions[c][i], verdict[i])],
     poll |-> FALSE, log |-> <<>>]

Record == job.records[pos]

-----------------------------------------------------------------------------
(* The events table                                                         *)

Row == [id : Nat, kind : {"router", "query", "recovery"}, query : Queries \cup {None},
        cause : Verdicts, dedup : Dedups \cup {None}, active : BOOLEAN,
        first : Times, last : Times, count : Nat]

\* The row whose active_key is the key of q: no two have it.
ActiveRows(rs, q) == {r \in rs : r.active /\ r.query = q}

\* INTEGER PRIMARY KEY without AUTOINCREMENT: one more than the largest id.
IsNextId(rs, id) ==
    /\ \A r \in rs : r.id < id
    /\ id = 1 \/ \E r \in rs : r.id = id - 1

NewRow(id, kind, record, active) ==
    [id |-> id, kind |-> kind, query |-> record.query, cause |-> record.cause,
     dedup |-> record.dedup, active |-> active, first |-> stamp, last |-> stamp, count |-> 1]

\* SET active_key = NULL WHERE active_key = ?
Deactivate(rs, q) ==
    {IF r \in ActiveRows(rs, q) THEN [r EXCEPT !.active = FALSE] ELSE r : r \in rs}

\* DELETE ... WHERE last_seen < ?
Unexpired(rs, time) == {r \in rs : r.last >= time - Retention}

\* ORDER BY last_seen DESC, id DESC
Newer(r, s) == r.last > s.last \/ (r.last = s.last /\ r.id > s.id)

\* Mutant of Newest: ascending instead of descending.
Oldest(rs) == {r \in rs : Cardinality({s \in rs : Newer(r, s)}) < MaxRows}

\* LIMIT -1 OFFSET maxRows: all but the MaxRows newest are deleted.
Newest(rs) == {r \in rs : Cardinality({s \in rs : Newer(s, r)}) < MaxRows}

-----------------------------------------------------------------------------
Init ==
    /\ rows = {}
    /\ lastPoll = 0
    /\ now = 0
    /\ phase = "idle" /\ job = None /\ pos = 0 /\ stamp = 0 /\ work = {}
    /\ commits = <<>>
    /\ story = [q \in Queries |-> <<>>]
    /\ lastLog = [lines |-> <<>>, at |-> 0]

NoTransaction == phase' = "idle" /\ job' = None /\ pos' = 0 /\ stamp' = 0 /\ work' = {}
Recording == phase = "open" /\ pos \in DOMAIN job.records
NextRecord ==
    /\ pos' = pos + 1
    /\ UNCHANGED <<rows, lastPoll, now, phase, job, stamp, history>>

\* BeginTx, and the rows past their retention go.
Begin(j) ==
    /\ phase = "idle"
    /\ Len(commits) < MaxCommits
    /\ phase' = "open"
    /\ job' = j
    /\ pos' = 1
    /\ stamp' = now
    /\ work' = Unexpired(rows, now)
    /\ UNCHANGED <<rows, lastPoll, now, history>>

\* A router line: inserted unless its key is there, which is left as it is.
StoreLine ==
    /\ Recording
    /\ Record.kind = "router"
    /\ IF \E r \in work : r.dedup = Record.dedup
          THEN UNCHANGED work
          ELSE \E id \in 1 .. MaxId :
                  /\ IsNextId(work, id)
                  /\ work' = work \cup {NewRow(id, "router", Record, FALSE)}
    /\ NextRecord

Succeeded == Recording /\ Record.kind = "query" /\ Record.cause = None
Failed == Recording /\ Record.kind = "query" /\ Record.cause # None
Active == ActiveRows(work, Record.query)

\* Mutant of StoreSuccess: every success is recorded as a recovery.
StoreSuccessAlways ==
    /\ Succeeded
    /\ Active = {}
    /\ \E id \in 1 .. MaxId :
          /\ IsNextId(work, id)
          /\ work' = work \cup {NewRow(id, "recovery", Record, FALSE)}
    /\ NextRecord

\* A success without an open incident leaves no trace.
StoreSuccess ==
    /\ Succeeded
    /\ Active = {}
    /\ UNCHANGED work
    /\ NextRecord

\* A success closes the open incident and is recorded as its recovery.
StoreRecovery ==
    /\ Succeeded
    /\ Active # {}
    /\ \E id \in 1 .. MaxId :
          /\ IsNextId(work, id)
          /\ work' = Deactivate(work, Record.query) \cup {NewRow(id, "recovery", Record, FALSE)}
    /\ NextRecord

\* The open incident has the same cause: it is counted.
StoreRepeat ==
    /\ Failed
    /\ \E r \in Active :
          /\ r.cause = Record.cause
          /\ work' = (work \ {r}) \cup {[r EXCEPT !.last = stamp, !.count = @ + 1]}
    /\ NextRecord

\* Mutant of StoreFailure: the incident of the other cause stays open.
StoreFailureBeside ==
    /\ Failed
    /\ \A r \in Active : r.cause # Record.cause
    /\ \E id \in 1 .. MaxId :
          /\ IsNextId(work, id)
          /\ work' = work \cup {NewRow(id, "query", Record, TRUE)}
    /\ NextRecord

\* A first failure, or another cause than the open incident has.
StoreFailure ==
    /\ Failed
    /\ \A r \in Active : r.cause # Record.cause
    /\ \E id \in 1 .. MaxId :
          /\ IsNextId(work, id)
          /\ work' = Deactivate(work, Record.query) \cup {NewRow(id, "query", Record, TRUE)}
    /\ NextRecord

QueryRecordsOf(j, q) == {i \in DOMAIN j.records : j.records[i].kind = "query" /\ j.records[i].query = q}

\* The history that a committed job makes.
Remember ==
    /\ commits' = Append(commits, stamp)
    /\ story' = [q \in Queries |->
          LET mine == QueryRecordsOf(job, q) IN
          IF mine = {} THEN story[q]
          ELSE Append(story[q], [verdict |-> job.records[CHOOSE i \in mine : TRUE].cause,
                                 at |-> stamp])]
    /\ lastLog' = IF job.poll THEN [lines |-> job.log, at |-> stamp] ELSE lastLog

\* The rows beyond the limit go, the transaction is committed, and the time of
\* a poll is published.
Commit ==
    /\ phase = "open"
    /\ pos \notin DOMAIN job.records
    /\ rows' = Newest(work)
    /\ lastPoll' = IF job.poll THEN stamp ELSE lastPoll
    /\ Remember
    /\ NoTransaction
    /\ UNCHANGED now

\* Mutant of Abort: what was done so far is kept.
AbortKeeping ==
    /\ phase = "open"
    /\ rows' = work
    /\ NoTransaction
    /\ UNCHANGED <<lastPoll, now, history>>

\* Mutant of Abort: the time of the poll is published all the same.
AbortPublishing ==
    /\ phase = "open"
    /\ lastPoll' = IF job.poll THEN stamp ELSE lastPoll
    /\ NoTransaction
    /\ UNCHANGED <<rows, now, history>>

\* Any statement fails, the disk is full, the five seconds are over: rollback.
Abort ==
    /\ phase = "open"
    /\ NoTransaction
    /\ UNCHANGED <<rows, lastPoll, now, history>>

\* The process ends anywhere and is started again on the same file.
Restart ==
    /\ lastPoll' = 0
    /\ NoTransaction
    /\ UNCHANGED <<rows, now, history>>

Tick ==
    /\ now < MaxTime
    /\ now' = now + 1
    /\ UNCHANGED <<rows, lastPoll, tx, history>>

BeginAny ==
    \/ \E log \in Logs : Begin(PollJob(log))
    \/ \E cause \in Causes : Begin(FailedPollJob(cause))
    \/ \E c \in Collectors : \E verdict \in [DOMAIN Definitions[c] -> Verdicts] :
          Begin(ScrapeJob(c, verdict))

StoreRecord == StoreLine \/ StoreSuccess \/ StoreRecovery \/ StoreRepeat \/ StoreFailure

Next == BeginAny \/ StoreRecord \/ Commit \/ Abort \/ Restart \/ Tick

Spec == Init /\ [][Next]_vars

-----------------------------------------------------------------------------
TypeOK ==
    /\ rows \subseteq Row /\ work \subseteq Row
    /\ lastPoll \in Times /\ now \in Times /\ stamp \in Times
    /\ phase \in {"idle", "open"}
    /\ pos \in Nat
    /\ phase = "open" => job.records \in Seq(Records) /\ job.poll \in BOOLEAN
    /\ commits \in Seq(Times)
    /\ story \in [Queries -> Seq([verdict : Verdicts, at : Times])]
    /\ lastLog \in [lines : Seq(Lines), at : Times]

(* The primary key and the two UNIQUE columns: an insert never runs into    *)
(* one of them, which would make the job, and every later one with the same *)
(* record, fail (archive.go:130, 222, 248-256).                             *)
KeysAreUnique ==
    \A rs \in {rows, work} : \A r, s \in rs :
        \/ r.id = s.id
        \/ r.active /\ s.active /\ r.query = s.query
        \/ r.dedup # None /\ r.dedup = s.dedup
        => r = s

LastStore == IF commits = <<>> THEN 0 ELSE commits[Len(commits)]
LastVerdict(q) == story[q][Len(story[q])]

(* An open incident tells the truth about its query: the last verdicts, as  *)
(* many as it counts, all had its cause, the earliest of them came at       *)
(* first_seen and the latest at last_seen; and it closes with the first     *)
(* verdict that differs (archive.go:224-252).                               *)
OpenIncidentsAreTrue ==
    \A r \in rows : r.active =>
        LET told == story[r.query] IN
        /\ r.count \in 1 .. Len(told)
        /\ \A i \in Len(told) - r.count + 1 .. Len(told) : told[i].verdict = r.cause
        /\ told[Len(told) - r.count + 1].at = r.first
        /\ told[Len(told)].at = r.last

(* A query whose last verdict was a failure has an open incident, unless    *)
(* the row was due for removal: past its retention, or older than MaxRows   *)
(* others (archive.go:212, 245-260).                                        *)
FailuresAreOpen ==
    \A q \in Queries :
        story[q] # <<>> /\ LastVerdict(q).verdict # None =>
            \/ ActiveRows(rows, q) # {}
            \/ LastVerdict(q).at < LastStore - Retention
            \/ Cardinality(rows) = MaxRows /\ \A r \in rows : r.last >= LastVerdict(q).at

(* Every recovery that is shown happened: the query succeeded then, after a *)
(* failure, and no change from failure to success is shown twice            *)
(* (archive.go:224-234).                                                    *)
RecoveriesAreReal ==
    \A q \in Queries :
        LET told == story[q]
            turns == {i \in 2 .. Len(told) :
                        told[i].verdict = None /\ told[i - 1].verdict # None}
            shown == {r \in rows : r.kind = "recovery" /\ r.query = q}
        IN  /\ \A r \in shown : \E i \in turns : told[i].at = r.first
            /\ Cardinality(shown) <= Cardinality(turns)

ArchivedTimes(l) == Cardinality({r \in rows : r.kind = "router" /\ r.dedup[1] = l})
LoggedTimes(l) == Cardinality({i \in DOMAIN lastLog.lines : lastLog.lines[i] = l})
LogIsArchived == \A l \in Lines : ArchivedTimes(l) >= LoggedTimes(l)

(* Once a router log is committed every line of it is in the archive, as    *)
(* often as it is in the log, if there is room (archive.go:220, 254, 292).  *)
CommittedLogIsArchived ==
    commits # <<>> /\ lastLog.at = LastStore => LogIsArchived \/ Cardinality(rows) = MaxRows

(* The time that is published as the last committed poll is the time of a   *)
(* committed poll (archive.go:264-270).                                     *)
LastPollIsTrue ==
    lastPoll # 0 =>
        \E i \in DOMAIN story[PollerQuery] :
            story[PollerQuery][i] = [verdict |-> None, at |-> lastPoll]

(* README.md:115, "90 days since last observation": a line that the router  *)
(* still showed within the retention is still archived, if there is room.   *)
LinesAreKeptSinceLastObservation ==
    commits # <<>> /\ lastLog.at >= LastStore - Retention =>
        LogIsArchived \/ Cardinality(rows) = MaxRows
=============================================================================
