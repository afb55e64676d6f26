---------------------------- MODULE EventArchive ----------------------------
(****************************************************************************)
(* The event archive from end to end: what the collectors and the poller    *)
(* report (queryDiagnostics.collect, pollOnce), the queue in between, and   *)
(* the store.  The queue is LossyFifo, which ArchiveQueue implements with   *)
(* goroutines, lock and channel; the store is ArchiveStore with its         *)
(* transactions.  The process may end at any moment and is started again on *)
(* the same file, with an empty queue.                                      *)
(****************************************************************************)
EXTENDS ArchiveStore

CONSTANTS
    Capacity,   \* the places of the queue, 128
    MaxReports  \* bound: the reports

ASSUME QueueAssumption == Capacity \in Nat \ {0} /\ MaxReports \in Nat

VARIABLES
    queue,   \* a.queue, the numbers of the reports in it
    fate,    \* what became of each report
    open,    \* the archive has not been closed
    reports  \* history: what was reported, in this order

Numbers == 1 .. MaxReports
Buffer == INSTANCE LossyFifo WITH Jobs <- Numbers, pending <- queue

buffer == <<queue, fate, open>>
allVars == <<vars, buffer, reports>>

StartArchive == Init /\ Buffer!Init /\ reports = <<>>

-----------------------------------------------------------------------------
\* enqueue: the report is accepted, dropped or ignored, and no one waits.
Enqueue(j) ==
    /\ reports' = Append(reports, j)
    /\ LET n == Len(reports') IN
       n \in Numbers /\ (Buffer!Accept(n) \/ Buffer!Drop(n) \/ Buffer!Ignore(n))
    /\ UNCHANGED vars

\* queryDiagnostics.collect, at the end of a collection
Collected ==
    \E c \in Collectors : \E verdict \in [DOMAIN Definitions[c] -> Verdicts] :
        Enqueue(ScrapeJob(c, verdict))

\* Mutant of Polled: the success of the poll is not in its job.
PolledLinesOnly ==
    \/ \E log \in Logs : Enqueue([PollJob(log) EXCEPT !.records = RouterRecords(log)])
    \/ \E cause \in Causes : Enqueue(FailedPollJob(cause))

\* pollOnce
Polled ==
    \/ \E log \in Logs : Enqueue(PollJob(log))
    \/ \E cause \in Causes : Enqueue(FailedPollJob(cause))

Storing == {n \in Numbers : fate[n] = "storing"}

\* Mutant of Take: the newest first.
TakeNewest ==
    /\ queue # <<>> /\ Storing = {}
    /\ fate' = [fate EXCEPT ![queue[Len(queue)]] = "storing"]
    /\ queue' = SubSeq(queue, 1, Len(queue) - 1)
    /\ Begin(reports[queue[Len(queue)]])
    /\ UNCHANGED <<open, reports>>

\* The writer begins to store the oldest report.
Take ==
    /\ Buffer!Take
    /\ Begin(reports[Head(queue)])
    /\ UNCHANGED reports

WriterStores == StoreRecord /\ UNCHANGED <<buffer, reports>>

BecomeOf(outcome) == fate' = [n \in Numbers |-> IF n \in Storing THEN outcome ELSE fate[n]]

Stored ==
    /\ Commit
    /\ BecomeOf("stored")
    /\ UNCHANGED <<queue, open, reports>>

\* Mutant of StoreFails: the report is put back into the queue.
StoreFailsAndReturns ==
    /\ Abort
    /\ BecomeOf("queued")
    /\ \E n \in Storing : queue' = Append(queue, n)
    /\ UNCHANGED <<open, reports>>

\* The error is counted and the report is not tried again.
StoreFails ==
    /\ Abort
    /\ BecomeOf("failed")
    /\ UNCHANGED <<queue, open, reports>>

\* close(): what is in the queue is still stored.
Close == Buffer!Shut /\ UNCHANGED <<vars, reports>>

\* What was in memory is gone.
ProcessRestarts ==
    /\ Restart
    /\ queue' = <<>>
    /\ fate' = [n \in Numbers |-> IF fate[n] \in {"queued", "storing"} THEN "failed" ELSE fate[n]]
    /\ open' = TRUE
    /\ UNCHANGED reports

Later == Tick /\ UNCHANGED <<buffer, reports>>

Work == Collected \/ Polled \/ Take \/ WriterStores \/ Stored \/ StoreFails \/ Close
        \/ ProcessRestarts \/ Later
ArchiveSpec == StartArchive /\ [][Work]_allVars

-----------------------------------------------------------------------------
(* The store is given the jobs it is made for and no others, one at a time, *)
(* whatever the queue does to them: so what holds of ArchiveStore holds     *)
(* here (archive.go:141-166; archive_poll.go:67-83;                         *)
(* query_diagnostics.go:84-114).                                            *)
ImplementsStore == Spec

About(n, q) == QueryRecordsOf(reports[n], q) # {}
VerdictOf(n, q) == reports[n].records[CHOOSE i \in QueryRecordsOf(reports[n], q) : TRUE].cause

\* The reports on q up to the n-th whose transaction was committed.
StoredAbout(q, n) == {m \in 1 .. n : fate[m] = "stored" /\ About(m, q)}

(* The archive tells of each query what was reported, in that order, each   *)
(* report at most once: exactly those whose transaction was committed, over *)
(* a full queue, failed transactions and restarts                           *)
(* (archive.go:141-166, 264; query_diagnostics.go:84-114).                  *)
CommittedIsReported ==
    \A q \in Queries :
        /\ Len(story[q]) = Cardinality(StoredAbout(q, Len(reports)))
        /\ \A n \in StoredAbout(q, Len(reports)) :
              story[q][Cardinality(StoredAbout(q, n))].verdict = VerdictOf(n, q)

\* Its row was due for removal, see FailuresAreOpen.
Removed(q) ==
    \/ LastVerdict(q).at < LastStore - Retention
    \/ Cardinality(rows) = MaxRows /\ \A r \in rows : r.last >= LastVerdict(q).at

(* Once the last report on a query is stored, the archive agrees with what  *)
(* query_success shows: no incident is open if it succeeded, and one of its *)
(* cause if it failed.  No report dropped, failed or lost before it, nor a  *)
(* restart before or after it, leaves an incident open or closed wrongly    *)
(* (archive.go:147, 224-252; query_diagnostics.go:84-114).                  *)
ArchiveAgreesWithLastReport ==
    \A q \in Queries :
        LET about == {n \in DOMAIN reports : About(n, q)} IN
        \A n \in about : fate[n] = "stored" /\ (\A m \in about : m <= n) =>
            IF VerdictOf(n, q) = None THEN ActiveRows(rows, q) = {}
            ELSE Removed(q) \/ \E r \in ActiveRows(rows, q) : r.cause = VerdictOf(n, q)
=============================================================================
