---------------------------- MODULE ArchiveQueue ----------------------------
(****************************************************************************)
(* The in-memory side of the event archive: the goroutines that hand jobs   *)
(* to the queue (one per collector of a scrape, and the router log poller), *)
(* the one goroutine that stores them, and the way main() stops all of it.  *)
(*                                                                          *)
(*   archive.go          enqueue, run, close                                *)
(*   archive_poll.go     poll, pollOnce                                     *)
(*   archive_runtime.go  the stop function of startEventArchive,            *)
(*                       serveExporter                                      *)
(*   query_diagnostics.go  the one enqueue at the end of a collection       *)
(*                                                                          *)
(* A step is what one goroutine does between two points where another may   *)
(* get in: a lock operation, a channel operation, a store.                  *)
(****************************************************************************)
EXTENDS Naturals, Sequences, FiniteSets

CONSTANTS
    Collectors,  \* the collectors that enqueue one job per scrape
    Poller,      \* the router log poller
    Capacity,    \* room in the queue channel (128 in the code)
    MaxJobs      \* bound: the number of jobs each producer issues

ASSUME PollerAssumption == Poller \notin Collectors
ASSUME BoundsAssumption == Capacity \in Nat \ {0} /\ MaxJobs \in Nat

Producers == Collectors \cup {Poller}
Jobs == Producers \X (1 .. MaxJobs)
NoJob == <<>>

VARIABLES
    prod,        \* where each producer is
    issued,      \* how many jobs each producer has made
    queue,       \* the buffered jobs of the channel
    writer,      \* the goroutine of run(): "idle", "storing" or "done"
    job,         \* the job it stores
    main,        \* where main() is
    closed,      \* archive.closed
    chanClosed,  \* close(a.queue) was called
    dbOpen,      \* the database handle is usable
    dropped,     \* archive.dropped
    writeErrors, \* archive.writeErrors
    fate         \* what became of each job; a history variable

archiveVars == <<queue, closed, chanClosed, dropped>>
vars == <<prod, issued, queue, writer, job, main, closed, chanClosed, dbOpen,
          dropped, writeErrors, fate>>

(* A producer: "idle" a collector between scrapes, or the poller in its     *)
(* select; "top" the poller at the start of pollOnce; "busy" while the      *)
(* router is asked; "want" with a job, at the RLock of enqueue; "held" with *)
(* the read lock; "checked" after it saw the archive not closed; "exit" the *)
(* poller has returned.                                                     *)
ProducerStates == {"idle", "top", "busy", "want", "held", "checked", "exit"}
Readers == {p \in Producers : prod[p] \in {"held", "checked"}}
Current(p) == <<p, issued[p]>>

(* main(): "serve"; "shutdown" in server.Shutdown; "cancelled" in the       *)
(* wg.Wait of stop; "lockWait" has called queueMu.Lock; "locked" has it;    *)
(* "marked" after closed = true; "chanClosed" after close(queue); "drain"   *)
(* in the wg.Wait of close; "dbClosing" before db.Close; "exit".            *)
MainStates == {"serve", "shutdown", "cancelled", "lockWait", "locked", "marked",
               "chanClosed", "drain", "dbClosing", "exit"}
Running == main # "exit"
Cancelled == main \notin {"serve", "shutdown"}

\* sync.RWMutex: a waiting writer keeps new readers out.
LockWanted == main \in {"lockWait", "locked", "marked", "chanClosed"}

Fates == {"none", "queued", "storing", "stored", "failed", "dropped", "discarded"}

Init ==
    /\ prod = [p \in Producers |-> IF p = Poller THEN "top" ELSE "idle"]
    /\ issued = [p \in Producers |-> 0]
    /\ queue = <<>>
    /\ writer = "idle"
    /\ job = NoJob
    /\ main = "serve"
    /\ closed = FALSE
    /\ chanClosed = FALSE
    /\ dbOpen = TRUE
    /\ dropped = 0
    /\ writeErrors = 0
    /\ fate = [j \in Jobs |-> "none"]

-----------------------------------------------------------------------------
(* Producers                                                                *)

GoTo(p, state) == prod' = [prod EXCEPT ![p] = state]
ProducerOnly ==
    UNCHANGED <<queue, writer, job, main, closed, chanClosed, dbOpen, dropped,
                writeErrors, fate>>

\* The server hands a scrape to the collectors while it accepts requests.
StartScrape(c) ==
    /\ main = "serve"
    /\ prod[c] = "idle"
    /\ issued[c] < MaxJobs
    /\ GoTo(c, "busy")
    /\ UNCHANGED issued
    /\ ProducerOnly

MakeJob(p) ==
    /\ issued' = [issued EXCEPT ![p] = @ + 1]
    /\ GoTo(p, "want")

\* A collector has evaluated its definitions, which ends in one enqueue.
FinishScrape(c) ==
    /\ Running
    /\ prod[c] = "busy"
    /\ MakeJob(c)
    /\ ProducerOnly

\* The ctx.Err() test on entry of pollOnce.
StartPoll ==
    /\ Running
    /\ prod[Poller] = "top"
    /\ IF Cancelled
          THEN GoTo(Poller, "idle")
          ELSE issued[Poller] < MaxJobs /\ GoTo(Poller, "busy")
    /\ UNCHANGED issued
    /\ ProducerOnly

\* The router answered: the records are enqueued without another look at ctx.
PollSucceeds ==
    /\ Running
    /\ prod[Poller] = "busy"
    /\ MakeJob(Poller)
    /\ ProducerOnly

\* The request failed: a failure record, unless the cause is the shutdown.
PollFails ==
    /\ Running
    /\ prod[Poller] = "busy"
    /\ IF Cancelled
          THEN GoTo(Poller, "idle") /\ UNCHANGED issued
          ELSE MakeJob(Poller)
    /\ ProducerOnly

\* The select of poll: the ticker may win even when ctx is done.
PollTick ==
    /\ Running
    /\ prod[Poller] = "idle"
    /\ GoTo(Poller, "top")
    /\ UNCHANGED issued
    /\ ProducerOnly

PollExit ==
    /\ Running
    /\ Cancelled
    /\ prod[Poller] = "idle"
    /\ GoTo(Poller, "exit")
    /\ UNCHANGED issued
    /\ ProducerOnly

-----------------------------------------------------------------------------
(* enqueue                                                                  *)

AcquireRead(p) ==
    /\ Running
    /\ prod[p] = "want"
    /\ ~LockWanted
    /\ GoTo(p, "held")
    /\ UNCHANGED issued
    /\ ProducerOnly

\* if a.closed { return }, the deferred RUnlock included.
CheckClosed(p) ==
    /\ Running
    /\ prod[p] = "held"
    /\ IF closed
          THEN /\ GoTo(p, "idle")
               /\ fate' = [fate EXCEPT ![Current(p)] = "discarded"]
          ELSE GoTo(p, "checked") /\ UNCHANGED fate
    /\ UNCHANGED <<issued, writer, job, main, dbOpen, writeErrors, archiveVars>>

\* Mutant of Offer: a send without a default.
OfferBlocking(p) ==
    /\ Running
    /\ prod[p] = "checked"
    /\ Len(queue) < Capacity
    /\ GoTo(p, "idle")
    /\ queue' = Append(queue, Current(p))
    /\ fate' = [fate EXCEPT ![Current(p)] = "queued"]
    /\ UNCHANGED <<issued, writer, job, main, closed, chanClosed, dbOpen, dropped, writeErrors>>

\* The select with a default, and the deferred RUnlock.
Offer(p) ==
    /\ Running
    /\ prod[p] = "checked"
    /\ GoTo(p, "idle")
    /\ IF Len(queue) < Capacity
          THEN /\ queue' = Append(queue, Current(p))
               /\ fate' = [fate EXCEPT ![Current(p)] = "queued"]
               /\ UNCHANGED dropped
          ELSE /\ dropped' = dropped + 1
               /\ fate' = [fate EXCEPT ![Current(p)] = "dropped"]
               /\ UNCHANGED queue
    /\ UNCHANGED <<issued, writer, job, main, closed, chanClosed, dbOpen, writeErrors>>

-----------------------------------------------------------------------------
(* The writer goroutine                                                     *)

\* Mutant of WriterTake: the newest job goes first.
WriterTakeNewest ==
    /\ Running
    /\ writer = "idle"
    /\ queue # <<>>
    /\ writer' = "storing"
    /\ job' = queue[Len(queue)]
    /\ queue' = SubSeq(queue, 1, Len(queue) - 1)
    /\ fate' = [fate EXCEPT ![job'] = "storing"]
    /\ UNCHANGED <<prod, issued, main, closed, chanClosed, dbOpen, dropped, writeErrors>>

WriterTake ==
    /\ Running
    /\ writer = "idle"
    /\ queue # <<>>
    /\ writer' = "storing"
    /\ job' = Head(queue)
    /\ queue' = Tail(queue)
    /\ fate' = [fate EXCEPT ![Head(queue)] = "storing"]
    /\ UNCHANGED <<prod, issued, main, closed, chanClosed, dbOpen, dropped, writeErrors>>

\* store returns; an error is counted and the job is not tried again.
WriterStored ==
    /\ Running
    /\ writer = "storing"
    /\ \/ /\ fate' = [fate EXCEPT ![job] = "stored"]
          /\ UNCHANGED writeErrors
       \/ /\ fate' = [fate EXCEPT ![job] = "failed"]
          /\ writeErrors' = writeErrors + 1
    /\ writer' = "idle"
    /\ job' = NoJob
    /\ UNCHANGED <<prod, issued, main, dbOpen, archiveVars>>

\* Mutant of WriterExit: the writer leaves as soon as it is told to.
WriterExitUndrained ==
    /\ Running
    /\ writer = "idle"
    /\ chanClosed
    /\ writer' = "done"
    /\ UNCHANGED <<prod, issued, job, main, dbOpen, writeErrors, fate, archiveVars>>

\* The range loop ends when the channel is closed and empty.
WriterExit ==
    /\ Running
    /\ writer = "idle"
    /\ queue = <<>>
    /\ chanClosed
    /\ writer' = "done"
    /\ UNCHANGED <<prod, issued, job, main, dbOpen, writeErrors, fate, archiveVars>>

-----------------------------------------------------------------------------
(* main() and the stop functions                                            *)

MainOnly == UNCHANGED <<prod, issued, queue, writer, job, dropped, writeErrors, fate>>
MainGoTo(from, to) == main = from /\ main' = to

\* A signal, or ListenAndServe failed: server.Shutdown is called.
Signal ==
    /\ MainGoTo("serve", "shutdown")
    /\ UNCHANGED <<closed, chanClosed, dbOpen>>
    /\ MainOnly

\* Shutdown returns when the scrapes have ended or after a minute, whichever
\* is first; then stop() cancels the context of the poller.
ShutdownReturns ==
    /\ MainGoTo("shutdown", "cancelled")
    /\ UNCHANGED <<closed, chanClosed, dbOpen>>
    /\ MainOnly

\* Mutant of PollerGone: stop() does not wait for the poller.
PollerNotAwaited == TRUE

PollerGone == prod[Poller] = "exit"

\* wg.Wait() of stop, then queueMu.Lock() is called.
PollerJoined ==
    /\ PollerGone
    /\ MainGoTo("cancelled", "lockWait")
    /\ UNCHANGED <<closed, chanClosed, dbOpen>>
    /\ MainOnly

\* Mutant of CanLock: close() does not take the lock.
CloseUnlocked == TRUE

CanLock == Readers = {}

AcquireWrite ==
    /\ CanLock
    /\ MainGoTo("lockWait", "locked")
    /\ UNCHANGED <<closed, chanClosed, dbOpen>>
    /\ MainOnly

MarkClosed ==
    /\ MainGoTo("locked", "marked")
    /\ closed' = TRUE
    /\ UNCHANGED <<chanClosed, dbOpen>>
    /\ MainOnly

\* Mutant of CloseChannel: only the flag is set.
CloseFlagOnly ==
    /\ MainGoTo("marked", "chanClosed")
    /\ UNCHANGED <<closed, chanClosed, dbOpen>>
    /\ MainOnly

CloseChannel ==
    /\ MainGoTo("marked", "chanClosed")
    /\ chanClosed' = TRUE
    /\ UNCHANGED <<closed, dbOpen>>
    /\ MainOnly

ReleaseWrite ==
    /\ MainGoTo("chanClosed", "drain")
    /\ UNCHANGED <<closed, chanClosed, dbOpen>>
    /\ MainOnly

\* Mutant of WriterGone: close() does not wait for the writer.
WriterNotAwaited == TRUE

WriterGone == writer = "done"

\* wg.Wait() of close.
WriterJoined ==
    /\ WriterGone
    /\ MainGoTo("drain", "dbClosing")
    /\ UNCHANGED <<closed, chanClosed, dbOpen>>
    /\ MainOnly

\* db.Close(), after which main returns and the process ends.
CloseDatabase ==
    /\ MainGoTo("dbClosing", "exit")
    /\ dbOpen' = FALSE
    /\ UNCHANGED <<closed, chanClosed>>
    /\ MainOnly

-----------------------------------------------------------------------------
Collect(c) == StartScrape(c) \/ FinishScrape(c)
Enqueue(p) == AcquireRead(p) \/ CheckClosed(p) \/ Offer(p)
Poll == StartPoll \/ PollSucceeds \/ PollFails \/ PollTick \/ PollExit
Write == WriterTake \/ WriterStored \/ WriterExit
Stop == \/ ShutdownReturns \/ PollerJoined \/ AcquireWrite \/ MarkClosed
        \/ CloseChannel \/ ReleaseWrite \/ WriterJoined \/ CloseDatabase

\* The process has ended; only here may the system come to rest.
Ended == ~Running /\ UNCHANGED vars

Next ==
    \/ \E c \in Collectors : Collect(c)
    \/ \E p \in Producers : Enqueue(p)
    \/ Poll
    \/ Write
    \/ Signal
    \/ Stop
    \/ Ended

Spec == Init /\ [][Next]_vars

(* The Go scheduler runs every goroutine that can run; a request ends       *)
(* because its client has a timeout; an idle collector need not be asked    *)
(* again.  A select whose cases are ready again and again picks each of     *)
(* them eventually, hence strong fairness for the exit of the poller.       *)
ProducersFair ==
    /\ \A c \in Collectors : WF_vars(FinishScrape(c))
    /\ \A p \in Producers : WF_vars(Enqueue(p))
    /\ WF_vars(StartPoll)
    /\ WF_vars(PollSucceeds \/ PollFails)
    /\ SF_vars(PollExit)
MainFair == WF_vars(Stop)

\* Every transaction of the store has a deadline of five seconds.  It is
\* assumed only where a property says so, so that the others hold of an
\* archive whose database hangs.
WriterFair == WF_vars(Write)

FairSpec == Spec /\ ProducersFair /\ MainFair

-----------------------------------------------------------------------------
TypeOK ==
    /\ prod \in [Producers -> ProducerStates]
    /\ issued \in [Producers -> 0 .. MaxJobs]
    /\ queue \in Seq(Jobs)
    /\ Len(queue) <= Capacity
    /\ writer \in {"idle", "storing", "done"}
    /\ job \in Jobs \cup {NoJob}
    /\ main \in MainStates
    /\ closed \in BOOLEAN
    /\ chanClosed \in BOOLEAN
    /\ dbOpen \in BOOLEAN
    /\ dropped \in Nat
    /\ writeErrors \in Nat
    /\ fate \in [Jobs -> Fates]

(* enqueue tests closed and sends in two steps: without the read lock held  *)
(* over both, close() could close the channel between them and the send     *)
(* would panic (archive.go:142-148 against 168-171).                        *)
NoSendOnClosedChannel ==
    \A p \in Producers : prod[p] = "checked" => ~chanClosed

(* close() waits for the writer before db.Close, so that no transaction     *)
(* runs on a closed database (archive.go:172-174).                          *)
StoreNeedsDatabase == writer = "storing" => dbOpen

(* Once main has passed the wait for the writer, every job that was         *)
(* accepted has been tried: the drain of the range loop loses none          *)
(* (archive.go:158, 170-172).                                               *)
AcceptedIsTried ==
    main \in {"dbClosing", "exit"} =>
        \A j \in Jobs : fate[j] \notin {"queued", "storing"}

(* The poller has returned before the archive is closed, so that a router   *)
(* log that was read is never thrown away silently: only scrapes that       *)
(* outlive the shutdown minute are (archive_runtime.go:37).                 *)
PollsAreNeverDiscarded == \A n \in 1 .. MaxJobs : fate[<<Poller, n>>] # "discarded"

(* The queue implements the lossy first-in first-out buffer, shut when      *)
(* closed is set: offers are atomic although enqueue is not, jobs are       *)
(* handled in order, each at most once, and no other job is lost            *)
(* (archive.go:141-166).                                                    *)
Buffer == INSTANCE LossyFifo WITH pending <- queue, open <- ~closed
ImplementsBuffer == Buffer!Spec

(* A stop request always ends the process, even with a poll in flight, the  *)
(* ticker firing and scrapes that hang on (archive_runtime.go:37, 39-56).   *)
StopTerminates == WriterFair => (main = "shutdown" ~> main = "exit")

(* A job in the queue is tried in the end, also when the process is being   *)
(* stopped meanwhile (archive.go:158, 172).                                 *)
AcceptedIsHandled ==
    WriterFair => \A j \in Jobs : fate[j] = "queued" ~> fate[j] \in {"stored", "failed"}

(* A scrape is never held up by the database: enqueue returns although the  *)
(* writer is stuck and the queue full (archive.go:147-149).                 *)
EnqueueReturns ==
    \A p \in Producers :
        prod[p] \in {"want", "held", "checked"} ~> (prod[p] \in {"idle", "exit"} \/ ~Running)
=============================================================================
