------------------------- MODULE ArchiveQueueProofs -------------------------
(****************************************************************************)
(* The safety properties of ArchiveQueue, for any number of collectors,     *)
(* any capacity and any number of jobs, and its refinement of LossyFifo.    *)
(****************************************************************************)
EXTENDS ArchiveQueue, TLAPS

(* A producer that holds a job has made one, and made it within the bound.  *)
JobInHand ==
    \A p \in Producers :
        /\ prod[p] = "busy" => issued[p] < MaxJobs
        /\ prod[p] \in {"want", "held", "checked"} => issued[p] # 0

(* The flags follow main() through close(), and the lock excludes readers   *)
(* while they change.                                                       *)
LockDiscipline ==
    /\ closed <=> main \in {"marked", "chanClosed", "drain", "dbClosing", "exit"}
    /\ chanClosed <=> main \in {"chanClosed", "drain", "dbClosing", "exit"}
    /\ main \in {"locked", "marked", "chanClosed"} =>
          \A p \in Producers : prod[p] \notin {"held", "checked"}
    /\ \A p \in Producers : prod[p] = "checked" => ~closed

(* Each wait of the two stop functions has happened before main() is past   *)
(* it, and what was awaited stays so.                                       *)
Joined ==
    /\ main \notin {"serve", "shutdown", "cancelled"} => prod[Poller] = "exit"
    /\ writer = "done" => chanClosed /\ queue = <<>>
    /\ main \in {"dbClosing", "exit"} => writer = "done"
    /\ dbOpen <=> main # "exit"

(* fate tells where a job is, and a job is in one place.                    *)
Accounts ==
    /\ \A j \in Jobs : fate[j] = "queued" => \E i \in 1 .. Len(queue) : queue[i] = j
    /\ \A i \in 1 .. Len(queue) : fate[queue[i]] = "queued"
    /\ \A i, k \in 1 .. Len(queue) : queue[i] = queue[k] => i = k
    /\ \A j \in Jobs : fate[j] = "storing" => writer = "storing" /\ job = j
    /\ writer = "storing" => job \in Jobs /\ fate[job] = "storing"

(* A job that has not reached the channel yet has no fate.                  *)
Fresh ==
    \A p \in Producers : \A n \in 1 .. MaxJobs :
        /\ n > issued[p] => fate[<<p, n>>] = "none"
        /\ n = issued[p] /\ prod[p] \in {"want", "held", "checked"} => fate[<<p, n>>] = "none"

IInv ==
    /\ TypeOK
    /\ JobInHand
    /\ LockDiscipline
    /\ Joined
    /\ Accounts
    /\ Fresh
    /\ PollsAreNeverDiscarded

-----------------------------------------------------------------------------
(* The job in a producer's hand is one of Jobs, and its own.                *)
LEMMA CurrentJob ==
    ASSUME TypeOK, JobInHand, NEW p \in Producers, prod[p] \in {"want", "held", "checked"}
    PROVE  Current(p) \in Jobs /\ issued[p] \in 1 .. MaxJobs
<1>1. issued[p] \in 0 .. MaxJobs /\ issued[p] # 0
  BY DEF TypeOK, JobInHand
<1>2. issued[p] \in 1 .. MaxJobs
  BY <1>1, BoundsAssumption
<1> QED
  BY <1>2 DEF Current, Jobs

\* A job is a producer and a number.
LEMMA JobPairs ==
    /\ \A p \in Producers, n \in 1 .. MaxJobs : <<p, n>> \in Jobs
    /\ \A p, q, m, n : <<p, m>> = <<q, n>> => p = q /\ m = n
BY DEF Jobs

\* Nothing has been enqueued when the archive starts.
LEMMA InitHolds == Init => IInv
<1> SUFFICES ASSUME Init PROVE IInv
  OBVIOUS
<1> USE BoundsAssumption, PollerAssumption DEF Init
<1>1. TypeOK
  <2>1. prod \in [Producers -> ProducerStates] /\ issued \in [Producers -> 0 .. MaxJobs]
    BY DEF ProducerStates
  <2>2. queue \in Seq(Jobs) /\ Len(queue) <= Capacity
    OBVIOUS
  <2>3. fate \in [Jobs -> Fates]
    BY DEF Fates
  <2> QED
    BY <2>1, <2>2, <2>3 DEF TypeOK, MainStates
<1>2. JobInHand /\ LockDiscipline /\ Joined /\ Accounts
  BY DEF JobInHand, LockDiscipline, Joined, Accounts, Producers, NoJob
<1>3. Fresh /\ PollsAreNeverDiscarded
  BY DEF Fresh, PollsAreNeverDiscarded, Jobs, Producers
<1> QED
  BY <1>1, <1>2, <1>3 DEF IInv

-----------------------------------------------------------------------------
(* A step that moves one producer and touches nothing else.                 *)
LEMMA ProducerStep ==
    ASSUME IInv, NEW p \in Producers, NEW state \in ProducerStates,
           GoTo(p, state), ProducerOnly,
           \/ issued' = issued
           \/ /\ prod[p] = "busy"
              /\ state = "want"
              /\ issued' = [issued EXCEPT ![p] = @ + 1],
           prod[p] # "exit", main # "exit",
           state \in {"held", "checked"} => ~LockWanted,
           state = "busy" => issued[p] < MaxJobs,
           state # "checked",
           state = "held" => prod[p] = "want",
           state = "want" => prod[p] = "busy" /\ issued' # issued
    PROVE  IInv'
<1> USE BoundsAssumption DEF IInv, GoTo, ProducerOnly
<1>1. issued[p] \in 0 .. MaxJobs /\ prod \in [Producers -> ProducerStates]
      /\ issued \in [Producers -> 0 .. MaxJobs]
  BY DEF TypeOK
<1>2. prod' \in [Producers -> ProducerStates] /\ issued' \in [Producers -> 0 .. MaxJobs]
  BY <1>1 DEF JobInHand
<1>3. TypeOK'
  BY <1>2 DEF TypeOK
<1>4. JobInHand'
  BY <1>1, <1>2 DEF JobInHand
<1>5. LockDiscipline'
  BY <1>1, <1>2 DEF LockDiscipline, LockWanted
<1>6. Joined'
  BY <1>1, <1>2, PollerAssumption DEF Joined, Producers
<1>7. Accounts' /\ PollsAreNeverDiscarded'
  BY DEF Accounts, PollsAreNeverDiscarded
<1>8. Fresh'
  <2>1. ASSUME NEW q \in Producers, NEW n \in 1 .. MaxJobs
        PROVE  /\ n > issued'[q] => fate[<<q, n>>] = "none"
               /\ n = issued'[q] /\ prod'[q] \in {"want", "held", "checked"}
                     => fate[<<q, n>>] = "none"
    <3>1. CASE q = p
      BY <1>1, <1>2, <3>1 DEF Fresh, TypeOK
    <3>2. CASE q # p
      BY <1>1, <1>2, <3>2 DEF Fresh, TypeOK
    <3> QED
      BY <3>1, <3>2
  <2> QED
    BY <2>1 DEF Fresh
<1> QED
  BY <1>3, <1>4, <1>5, <1>6, <1>7, <1>8

\* A collector that evaluates its definitions.
LEMMA CollectKeeps ==
    ASSUME IInv, NEW c \in Collectors, Collect(c)
    PROVE  IInv'
<1>1. c \in Producers
  BY DEF Producers
<1>2. CASE StartScrape(c)
  BY <1>1, <1>2, ProducerStep, "busy" \in ProducerStates DEF StartScrape, ProducerStates
<1>3. CASE FinishScrape(c)
  <2>1. issued[c] \in Nat /\ issued' # issued
    BY <1>1, <1>3, BoundsAssumption DEF FinishScrape, MakeJob, IInv, TypeOK
  <2> QED
    BY <1>1, <1>3, <2>1, ProducerStep DEF FinishScrape, MakeJob, ProducerStates, Running
<1> QED
  BY <1>2, <1>3 DEF Collect

\* The loop of the poller, and the end of it.
LEMMA PollKeeps ==
    ASSUME IInv, Poll
    PROVE  IInv'
<1>1. Poller \in Producers
  BY DEF Producers
<1>2. CASE StartPoll
  BY <1>1, <1>2, ProducerStep DEF StartPoll, ProducerStates, Running
<1>3. ASSUME prod[Poller] = "busy", MakeJob(Poller), Running, ProducerOnly
      PROVE  IInv'
  <2>1. issued[Poller] \in Nat /\ issued' # issued
    BY <1>1, <1>3, BoundsAssumption DEF MakeJob, IInv, TypeOK
  <2> QED
    BY <1>1, <1>3, <2>1, ProducerStep DEF MakeJob, ProducerStates, Running
<1>4. CASE PollSucceeds
  BY <1>3, <1>4 DEF PollSucceeds
<1>5. CASE PollFails
  <2>1. CASE Cancelled
    BY <1>1, <1>5, <2>1, ProducerStep DEF PollFails, ProducerStates, Running
  <2>2. CASE ~Cancelled
    BY <1>3, <1>5, <2>2 DEF PollFails
  <2> QED
    BY <2>1, <2>2
<1>6. CASE PollTick
  BY <1>1, <1>6, ProducerStep DEF PollTick, ProducerStates, Running
<1>7. CASE PollExit
  BY <1>1, <1>7, ProducerStep DEF PollExit, ProducerStates, Running
<1> QED
  BY <1>2, <1>4, <1>5, <1>6, <1>7 DEF Poll

-----------------------------------------------------------------------------
\* RLock: a waiting close() keeps the reader out.
LEMMA AcquireReadKeeps ==
    ASSUME IInv, NEW p \in Producers, AcquireRead(p)
    PROVE  IInv'
BY ProducerStep DEF AcquireRead, ProducerStates, Running

\* The job of a scrape that outlived the shutdown is thrown away here.
LEMMA CheckClosedKeeps ==
    ASSUME IInv, NEW p \in Producers, CheckClosed(p)
    PROVE  IInv'
<1> USE BoundsAssumption DEF IInv, CheckClosed, archiveVars, GoTo
<1>1. prod[p] = "held" /\ prod \in [Producers -> ProducerStates]
      /\ issued \in [Producers -> 0 .. MaxJobs]
  BY DEF TypeOK
<1>2. Current(p) \in Jobs /\ issued[p] \in 1 .. MaxJobs
  BY <1>1, CurrentJob
<1>3. fate[Current(p)] = "none"
  BY <1>1, <1>2 DEF Fresh, Current
<1>4. prod' \in [Producers -> ProducerStates]
  BY <1>1 DEF ProducerStates
<1>5. fate' \in [Jobs -> Fates]
  BY DEF TypeOK, Fates
<1>6. TypeOK'
  BY <1>4, <1>5 DEF TypeOK
<1>7. JobInHand'
  BY <1>1, <1>4 DEF JobInHand
<1>8. LockDiscipline'
  BY <1>1, <1>4 DEF LockDiscipline
<1>9. Joined'
  BY <1>1, <1>4, PollerAssumption DEF Joined, Producers
<1>10. Accounts'
  BY <1>2, <1>3, <1>5 DEF Accounts, TypeOK
<1>11. Fresh'
  <2>1. ASSUME NEW q \in Producers, NEW n \in 1 .. MaxJobs
        PROVE  /\ n > issued[q] => fate'[<<q, n>>] = "none"
               /\ n = issued[q] /\ prod'[q] \in {"want", "held", "checked"}
                     => fate'[<<q, n>>] = "none"
    <3>1. CASE q = p /\ n = issued[p]
      BY <1>1, <1>2, <1>3, <3>1 DEF Current
    <3>2. CASE ~(q = p /\ n = issued[p])
      <4>1. <<q, n>> # Current(p) /\ <<q, n>> \in Jobs
        BY <3>2, JobPairs DEF Current
      <4>2. fate'[<<q, n>>] = fate[<<q, n>>]
        BY <4>1 DEF TypeOK
      <4>3. q # p => prod'[q] = prod[q]
        BY <1>1
      <4> QED
        BY <1>1, <1>2, <3>2, <4>2, <4>3 DEF Fresh
    <3> QED
      BY <3>1, <3>2
  <2> QED
    BY <2>1 DEF Fresh
<1>12. PollsAreNeverDiscarded'
  <2>1. CASE closed
    <3>1. prod[Poller] = "exit"
      BY <2>1 DEF LockDiscipline, Joined
    <3>2. p # Poller
      BY <1>1, <3>1
    <3> QED
      <4>1. ASSUME NEW n \in 1 .. MaxJobs
            PROVE  fate'[<<Poller, n>>] # "discarded"
        <5>1. <<Poller, n>> # Current(p) /\ <<Poller, n>> \in Jobs
          BY <3>2, JobPairs DEF Current, Producers
        <5> QED
          BY <5>1 DEF PollsAreNeverDiscarded, TypeOK
      <4> QED
        BY <4>1 DEF PollsAreNeverDiscarded
  <2>2. CASE ~closed
    BY <2>2 DEF PollsAreNeverDiscarded
  <2> QED
    BY <2>1, <2>2
<1> QED
  BY <1>6, <1>7, <1>8, <1>9, <1>10, <1>11, <1>12

\* The send, or the count of a job that found no room.
LEMMA OfferKeeps ==
    ASSUME IInv, NEW p \in Producers, Offer(p)
    PROVE  IInv'
<1> USE BoundsAssumption
<1>1. /\ prod[p] = "checked"
      /\ prod' = [prod EXCEPT ![p] = "idle"]
      /\ UNCHANGED <<issued, writer, job, main, closed, chanClosed, dbOpen, writeErrors>>
  BY DEF Offer, GoTo
<1>2. PICK outcome \in {"queued", "dropped"} : fate' = [fate EXCEPT ![Current(p)] = outcome]
  BY DEF Offer
<1>3. /\ prod \in [Producers -> ProducerStates] /\ issued \in [Producers -> 0 .. MaxJobs]
      /\ queue \in Seq(Jobs) /\ Len(queue) <= Capacity /\ fate \in [Jobs -> Fates]
  BY DEF IInv, TypeOK
<1>4. Current(p) \in Jobs /\ issued[p] \in 1 .. MaxJobs
  BY <1>1, CurrentJob DEF IInv
<1>5. fate[Current(p)] = "none"
  BY <1>1, <1>4 DEF IInv, Fresh, Current
<1>6. prod' \in [Producers -> ProducerStates] /\ fate' \in [Jobs -> Fates]
  BY <1>1, <1>2, <1>3 DEF ProducerStates, Fates
<1>7. /\ queue' \in Seq(Jobs)
      /\ Len(queue') <= Capacity
      /\ \A i \in 1 .. Len(queue) : i \in 1 .. Len(queue') /\ queue'[i] = queue[i]
      /\ outcome = "queued" =>
            Len(queue') = Len(queue) + 1 /\ queue'[Len(queue')] = Current(p)
      /\ outcome # "queued" => queue' = queue
  <2>1. CASE Len(queue) < Capacity
    <3>1. queue' = Append(queue, Current(p)) /\ fate'[Current(p)] = "queued"
      BY <1>3, <1>4, <2>1 DEF Offer
    <3>2. outcome = "queued"
      BY <1>2, <1>3, <1>4, <3>1
    <3> QED
      BY <1>3, <1>4, <2>1, <3>1, <3>2
  <2>2. CASE ~(Len(queue) < Capacity)
    <3>1. queue' = queue /\ fate'[Current(p)] = "dropped"
      BY <1>3, <1>4, <2>2 DEF Offer
    <3> QED
      BY <1>2, <1>3, <1>4, <3>1
  <2> QED
    BY <2>1, <2>2
<1>8. TypeOK'
  <2>1. dropped' \in Nat
    BY DEF Offer, IInv, TypeOK
  <2> QED
    BY <1>1, <1>6, <1>7, <2>1 DEF IInv, TypeOK
<1>9. JobInHand' /\ LockDiscipline'
  BY <1>1, <1>3 DEF IInv, JobInHand, LockDiscipline
<1>10. Joined'
  <2>1. ~chanClosed
    BY <1>1 DEF IInv, LockDiscipline
  <2> QED
    BY <1>1, <1>3, <2>1, PollerAssumption DEF IInv, Joined, Producers
<1>11. Accounts'
  <2>1. \A j \in Jobs : j # Current(p) => fate'[j] = fate[j]
    BY <1>2, <1>3
  <2>2. fate'[Current(p)] = outcome
    BY <1>2, <1>3, <1>4
  <2>3. \A i \in 1 .. Len(queue) : queue[i] \in Jobs /\ queue[i] # Current(p)
    BY <1>3, <1>5 DEF IInv, Accounts
  <2>4. ASSUME NEW j \in Jobs, fate'[j] = "queued"
        PROVE  \E i \in 1 .. Len(queue') : queue'[i] = j
    <3>1. CASE j = Current(p)
      <4>1. Len(queue') \in 1 .. Len(queue')
        BY <1>3, <1>7, <2>2, <2>4, <3>1
      <4> QED
        BY <1>7, <2>2, <2>4, <3>1, <4>1
    <3>2. CASE j # Current(p)
      <4>1. PICK i \in 1 .. Len(queue) : queue[i] = j
        BY <2>1, <2>4, <3>2 DEF IInv, Accounts
      <4> QED
        BY <1>7, <4>1
    <3> QED
      BY <3>1, <3>2
  <2>5. ASSUME NEW i \in 1 .. Len(queue')
        PROVE  i \in 1 .. Len(queue) \/ (outcome = "queued" /\ i = Len(queue'))
    BY <1>3, <1>7
  <2>6. \A i \in 1 .. Len(queue') : fate'[queue'[i]] = "queued"
    BY <1>7, <2>1, <2>2, <2>3, <2>5 DEF IInv, Accounts
  <2>7. \A i, k \in 1 .. Len(queue') : queue'[i] = queue'[k] => i = k
    BY <1>7, <2>3, <2>5 DEF IInv, Accounts
  <2>8. /\ \A j \in Jobs : fate'[j] = "storing" => writer' = "storing" /\ job' = j
        /\ writer' = "storing" => job' \in Jobs /\ fate'[job'] = "storing"
    BY <1>1, <1>5, <2>1, <2>2 DEF IInv, Accounts
  <2> QED
    BY <2>4, <2>6, <2>7, <2>8 DEF Accounts
<1>12. Fresh'
  <2>1. ASSUME NEW q \in Producers, NEW n \in 1 .. MaxJobs
        PROVE  /\ n > issued[q] => fate'[<<q, n>>] = "none"
               /\ n = issued[q] /\ prod'[q] \in {"want", "held", "checked"}
                     => fate'[<<q, n>>] = "none"
    <3>1. CASE q = p /\ n = issued[p]
      BY <1>1, <1>3, <1>4, <3>1
    <3>2. CASE ~(q = p /\ n = issued[p])
      <4>1. <<q, n>> # Current(p) /\ <<q, n>> \in Jobs
        BY <3>2, JobPairs DEF Current
      <4>2. fate'[<<q, n>>] = fate[<<q, n>>]
        BY <1>2, <1>3, <4>1
      <4>3. q # p => prod'[q] = prod[q]
        BY <1>1, <1>3
      <4> QED
        BY <1>1, <1>3, <1>4, <3>2, <4>2, <4>3 DEF IInv, Fresh
    <3> QED
      BY <3>1, <3>2
  <2> QED
    BY <1>1, <2>1 DEF Fresh
<1>13. PollsAreNeverDiscarded'
  BY <1>2, <1>3, <1>4 DEF IInv, PollsAreNeverDiscarded, Jobs, Producers
<1> QED
  BY <1>8, <1>9, <1>10, <1>11, <1>12, <1>13 DEF IInv

-----------------------------------------------------------------------------
\* The first job of the channel becomes the one that is stored.
LEMMA WriterTakeKeeps ==
    ASSUME IInv, WriterTake
    PROVE  IInv'
<1> DEFINE first == Head(queue)
<1>1. /\ queue # <<>> /\ queue' = Tail(queue)
      /\ writer = "idle" /\ writer' = "storing" /\ job' = first
      /\ fate' = [fate EXCEPT ![first] = "storing"]
      /\ UNCHANGED <<prod, issued, main, closed, chanClosed, dbOpen, dropped, writeErrors>>
  BY DEF WriterTake
<1>2. queue \in Seq(Jobs) /\ Len(queue) <= Capacity /\ fate \in [Jobs -> Fates]
  BY DEF IInv, TypeOK
<1>3. /\ first \in Jobs /\ queue' \in Seq(Jobs) /\ Len(queue') <= Capacity
      /\ first = queue[1]
      /\ \A i \in 1 .. Len(queue) :
            i # 1 => i - 1 \in 1 .. Len(queue') /\ queue'[i - 1] = queue[i]
  BY <1>1, <1>2, BoundsAssumption
<1> HIDE DEF first
<1>4. TypeOK'
  BY <1>1, <1>2, <1>3 DEF IInv, TypeOK, Fates
<1>5. JobInHand' /\ LockDiscipline' /\ Joined'
  BY <1>1 DEF IInv, JobInHand, LockDiscipline, Joined
<1>6. Accounts'
  <2>1. \A j \in Jobs : fate'[j] = IF j = first THEN "storing" ELSE fate[j]
    BY <1>1, <1>2
  <2>2. \A j \in Jobs : fate[j] # "storing"
    BY <1>1 DEF IInv, Accounts
  <2>3. ASSUME NEW j \in Jobs, fate'[j] = "queued"
        PROVE  \E i \in 1 .. Len(queue') : queue'[i] = j
    <3>1. j # first /\ fate[j] = "queued"
      BY <2>1, <2>3
    <3>2. PICK i \in 1 .. Len(queue) : queue[i] = j
      BY <3>1 DEF IInv, Accounts
    <3> QED
      BY <1>3, <3>1, <3>2
  <2>4. ASSUME NEW i \in 1 .. Len(queue')
        PROVE  /\ i + 1 \in 1 .. Len(queue) /\ queue'[i] = queue[i + 1]
               /\ queue[i + 1] \in Jobs /\ queue[i + 1] # first
    <3>1. i + 1 \in 1 .. Len(queue) /\ 1 \in 1 .. Len(queue) /\ i + 1 # 1
      BY <1>1, <1>2
    <3>2. queue'[i] = queue[i + 1]
      BY <1>3, <3>1
    <3> QED
      BY <1>2, <1>3, <3>1, <3>2 DEF IInv, Accounts
  <2>5. \A i \in 1 .. Len(queue') : fate'[queue'[i]] = "queued"
    BY <2>1, <2>4 DEF IInv, Accounts
  <2>6. \A i, k \in 1 .. Len(queue') : queue'[i] = queue'[k] => i = k
    BY <2>4 DEF IInv, Accounts
  <2> QED
    BY <1>1, <1>3, <2>1, <2>2, <2>3, <2>5, <2>6 DEF Accounts
<1>7. Fresh'
  <2>1. fate[first] = "queued"
    BY <1>1, <1>2, <1>3 DEF IInv, Accounts
  <2>2. \A j \in Jobs : fate[j] = "none" => fate'[j] = "none"
    BY <1>1, <1>2, <2>1
  <2> QED
    BY <1>1, <2>2, JobPairs DEF IInv, Fresh
<1>8. PollsAreNeverDiscarded'
  BY <1>1, <1>2 DEF IInv, PollsAreNeverDiscarded, Jobs, Producers
<1> QED
  BY <1>4, <1>5, <1>6, <1>7, <1>8 DEF IInv

\* The job has been tried and is accounted for.
LEMMA WriterStoredKeeps ==
    ASSUME IInv, WriterStored
    PROVE  IInv'
<1>1. /\ writer = "storing" /\ writer' = "idle" /\ job' = NoJob
      /\ UNCHANGED <<prod, issued, main, queue, closed, chanClosed, dbOpen, dropped>>
  BY DEF WriterStored, archiveVars
<1>2. PICK outcome \in {"stored", "failed"} : fate' = [fate EXCEPT ![job] = outcome]
  BY DEF WriterStored
<1>3. fate \in [Jobs -> Fates] /\ job \in Jobs /\ fate[job] = "storing" /\ queue \in Seq(Jobs)
  BY <1>1 DEF IInv, TypeOK, Accounts
<1>4. \A j \in Jobs : fate'[j] = IF j = job THEN outcome ELSE fate[j]
  BY <1>2, <1>3
<1>5. TypeOK'
  <2>1. writeErrors' \in Nat
    BY DEF WriterStored, IInv, TypeOK
  <2> QED
    BY <1>1, <1>2, <1>3, <2>1 DEF IInv, TypeOK, Fates
<1>6. JobInHand' /\ LockDiscipline' /\ Joined'
  BY <1>1 DEF IInv, JobInHand, LockDiscipline, Joined
<1>7. Accounts'
  <2>1. \A i \in 1 .. Len(queue) : queue[i] \in Jobs /\ queue[i] # job
    BY <1>3 DEF IInv, Accounts
  <2>2. \A j \in Jobs : fate'[j] # "storing"
    BY <1>4 DEF IInv, Accounts
  <2> QED
    BY <1>1, <1>4, <2>1, <2>2 DEF IInv, Accounts
<1>8. Fresh'
  <2>1. \A j \in Jobs : fate[j] = "none" => fate'[j] = "none"
    BY <1>3, <1>4
  <2> QED
    BY <1>1, <2>1, JobPairs DEF IInv, Fresh
<1>9. PollsAreNeverDiscarded'
  <2>1. \A n \in 1 .. MaxJobs : <<Poller, n>> \in Jobs
    BY DEF Jobs, Producers
  <2> QED
    BY <1>4, <2>1 DEF IInv, PollsAreNeverDiscarded
<1> QED
  BY <1>5, <1>6, <1>7, <1>8, <1>9 DEF IInv

\* The writer leaves only a closed and empty channel.
LEMMA WriterExitKeeps ==
    ASSUME IInv, WriterExit
    PROVE  IInv'
<1> USE DEF IInv, WriterExit, archiveVars
<1>1. TypeOK'
  BY DEF TypeOK
<1>2. JobInHand' /\ LockDiscipline' /\ Joined'
  BY DEF JobInHand, LockDiscipline, Joined
<1>3. Accounts' /\ Fresh' /\ PollsAreNeverDiscarded'
  BY DEF Accounts, Fresh, PollsAreNeverDiscarded
<1> QED
  BY <1>1, <1>2, <1>3

-----------------------------------------------------------------------------
\* The two stop functions, one wait after the other.
LEMMA MainKeeps ==
    ASSUME IInv, Signal \/ Stop
    PROVE  IInv'
<1>1. MainOnly /\ main' \in MainStates /\ closed' \in BOOLEAN
      /\ chanClosed' \in BOOLEAN /\ dbOpen' \in BOOLEAN
  <2> USE DEF MainGoTo, MainStates, IInv, TypeOK
  <2>1. CASE Signal \/ ShutdownReturns \/ PollerJoined \/ AcquireWrite
             \/ ReleaseWrite \/ WriterJoined
    BY <2>1 DEF Signal, ShutdownReturns, PollerJoined, AcquireWrite, ReleaseWrite, WriterJoined
  <2>2. CASE MarkClosed \/ CloseChannel \/ CloseDatabase
    BY <2>2 DEF MarkClosed, CloseChannel, CloseDatabase
  <2> QED
    BY <2>1, <2>2 DEF Stop
<1>2. TypeOK'
  BY <1>1 DEF IInv, TypeOK, MainOnly
<1>3. JobInHand' /\ Accounts' /\ Fresh' /\ PollsAreNeverDiscarded'
  BY <1>1 DEF IInv, MainOnly, JobInHand, Accounts, Fresh, PollsAreNeverDiscarded
<1>4. LockDiscipline' /\ Joined'
  <2> USE <1>1 DEF MainGoTo, MainOnly, IInv, LockDiscipline, Joined
  <2>1. CASE Signal \/ ShutdownReturns
    BY <2>1 DEF Signal, ShutdownReturns
  <2>2. CASE PollerJoined
    BY <2>2 DEF PollerJoined, PollerGone
  <2>3. CASE AcquireWrite
    BY <2>3 DEF AcquireWrite, CanLock, Readers
  <2>4. CASE MarkClosed
    BY <2>4 DEF MarkClosed
  <2>5. CASE CloseChannel
    BY <2>5 DEF CloseChannel
  <2>6. CASE ReleaseWrite
    BY <2>6 DEF ReleaseWrite
  <2>7. CASE WriterJoined
    BY <2>7 DEF WriterJoined, WriterGone
  <2>8. CASE CloseDatabase
    BY <2>8 DEF CloseDatabase
  <2> QED
    BY <2>1, <2>2, <2>3, <2>4, <2>5, <2>6, <2>7, <2>8 DEF Stop
<1> QED
  BY <1>2, <1>3, <1>4 DEF IInv

\* Nothing happens, or the process has ended.
LEMMA StutterKeeps ==
    ASSUME IInv, UNCHANGED vars
    PROVE  IInv'
<1> USE DEF vars, IInv
<1>1. TypeOK' /\ JobInHand' /\ LockDiscipline' /\ Joined'
  BY DEF TypeOK, JobInHand, LockDiscipline, Joined
<1>2. Accounts' /\ Fresh' /\ PollsAreNeverDiscarded'
  BY DEF Accounts, Fresh, PollsAreNeverDiscarded
<1> QED
  BY <1>1, <1>2

\* The invariant is inductive.
LEMMA NextKeeps == IInv /\ [Next]_vars => IInv'
<1> SUFFICES ASSUME IInv, [Next]_vars PROVE IInv'
  OBVIOUS
<1>1. CASE \E c \in Collectors : Collect(c)
  BY <1>1, CollectKeeps
<1>2. CASE \E p \in Producers : Enqueue(p)
  BY <1>2, AcquireReadKeeps, CheckClosedKeeps, OfferKeeps DEF Enqueue
<1>3. CASE Poll
  BY <1>3, PollKeeps
<1>4. CASE Write
  BY <1>4, WriterTakeKeeps, WriterStoredKeeps, WriterExitKeeps DEF Write
<1>5. CASE Signal \/ Stop
  BY <1>5, MainKeeps
<1>6. CASE Ended \/ UNCHANGED vars
  BY <1>6, StutterKeeps DEF Ended
<1> QED
  BY <1>1, <1>2, <1>3, <1>4, <1>5, <1>6 DEF Next

\* The inductive invariant holds of every reachable state.
THEOREM InvariantHolds == Spec => []IInv
BY InitHolds, NextKeeps, PTL DEF Spec

-----------------------------------------------------------------------------
(* Every variable keeps its type; the channel never holds more than its     *)
(* capacity (archive.go:137, 147-152).                                      *)
THEOREM TypeCorrect == Spec => []TypeOK
<1>1. IInv => TypeOK
  BY DEF IInv
<1> QED
  BY <1>1, InvariantHolds, PTL

(* No goroutine ever sends on the closed channel, whatever the number of    *)
(* scrapes that outlive the shutdown (archive.go:141-153, 167-171).         *)
THEOREM SendIsSafe == Spec => []NoSendOnClosedChannel
<1>1. IInv => NoSendOnClosedChannel
  BY DEF IInv, LockDiscipline, NoSendOnClosedChannel
<1> QED
  BY <1>1, InvariantHolds, PTL

(* No transaction runs on a closed database (archive.go:172-174).           *)
THEOREM StoreIsSafe == Spec => []StoreNeedsDatabase
<1>1. IInv => StoreNeedsDatabase
  BY DEF IInv, Joined, StoreNeedsDatabase
<1> QED
  BY <1>1, InvariantHolds, PTL

(* Closing loses no accepted job (archive.go:158, 170-172).                 *)
THEOREM CloseDrains == Spec => []AcceptedIsTried
<1>1. IInv => AcceptedIsTried
  BY DEF IInv, Joined, Accounts, AcceptedIsTried
<1> QED
  BY <1>1, InvariantHolds, PTL

(* A router log that was read is never discarded (archive_runtime.go:37).   *)
THEOREM PollsAreKept == Spec => []PollsAreNeverDiscarded
<1>1. IInv => PollsAreNeverDiscarded
  BY DEF IInv
<1> QED
  BY <1>1, InvariantHolds, PTL

-----------------------------------------------------------------------------
(* Every step of the goroutines is a step of the abstract buffer or none.   *)

LEMMA OfferRefines ==
    ASSUME IInv, NEW p \in Producers, Offer(p)
    PROVE  Buffer!Next
<1>1. prod[p] = "checked" /\ ~closed /\ closed' = closed
  BY DEF Offer, IInv, LockDiscipline
<1>2. Current(p) \in Jobs /\ fate[Current(p)] = "none"
  <2>1. Current(p) \in Jobs /\ issued[p] \in 1 .. MaxJobs
    BY <1>1, CurrentJob DEF IInv
  <2> QED
    BY <1>1, <2>1 DEF IInv, Fresh, Current
<1>3. CASE Len(queue) < Capacity
  <2>1. Buffer!Accept(Current(p))
    BY <1>1, <1>2, <1>3 DEF Offer, Buffer!Accept
  <2> QED
    BY <1>2, <2>1 DEF Buffer!Next
<1>4. CASE ~(Len(queue) < Capacity)
  <2>1. Len(queue) = Capacity
    BY <1>4, BoundsAssumption DEF IInv, TypeOK
  <2>2. Buffer!Drop(Current(p))
    BY <1>1, <1>2, <1>4, <2>1 DEF Offer, Buffer!Drop
  <2> QED
    BY <1>2, <2>2 DEF Buffer!Next
<1> QED
  BY <1>3, <1>4

\* A job that finds the archive closed is refused by the buffer.
LEMMA CheckClosedRefines ==
    ASSUME IInv, NEW p \in Producers, CheckClosed(p)
    PROVE  Buffer!Next \/ UNCHANGED Buffer!vars
<1>1. prod[p] = "held"
  BY DEF CheckClosed
<1>2. Current(p) \in Jobs /\ fate[Current(p)] = "none"
  <2>1. Current(p) \in Jobs /\ issued[p] \in 1 .. MaxJobs
    BY <1>1, CurrentJob DEF IInv
  <2> QED
    BY <1>1, <2>1 DEF IInv, Fresh, Current
<1>3. CASE closed
  <2>1. Buffer!Ignore(Current(p))
    BY <1>2, <1>3 DEF CheckClosed, archiveVars, Buffer!Ignore
  <2> QED
    BY <1>2, <2>1 DEF Buffer!Next
<1>4. CASE ~closed
  BY <1>4 DEF CheckClosed, archiveVars, Buffer!vars
<1> QED
  BY <1>3, <1>4

\* The buffer hands its first job over and has it finished.
LEMMA WriteRefines ==
    ASSUME IInv, Write
    PROVE  Buffer!Next \/ UNCHANGED Buffer!vars
<1>1. CASE WriterTake
  <2>1. \A j \in Jobs : fate[j] # "storing"
    BY <1>1 DEF WriterTake, IInv, Accounts
  <2>2. Buffer!Take
    BY <1>1, <2>1 DEF WriterTake, Buffer!Take
  <2> QED
    BY <2>2 DEF Buffer!Next
<1>2. CASE WriterStored
  <2>1. job \in Jobs /\ fate[job] = "storing"
    BY <1>2 DEF WriterStored, IInv, Accounts
  <2>2. Buffer!Finish(job)
    BY <1>2, <2>1 DEF WriterStored, archiveVars, Buffer!Finish
  <2> QED
    BY <2>1, <2>2 DEF Buffer!Next
<1>3. CASE WriterExit
  BY <1>3 DEF WriterExit, archiveVars, Buffer!vars
<1> QED
  BY <1>1, <1>2, <1>3 DEF Write

\* Of all the steps of the stop functions the buffer sees one.
LEMMA MainRefines ==
    ASSUME IInv, Signal \/ Stop
    PROVE  Buffer!Next \/ UNCHANGED Buffer!vars
<1>1. CASE MarkClosed
  <2>1. Buffer!Shut
    BY <1>1 DEF MarkClosed, MainGoTo, MainOnly, IInv, LockDiscipline, Buffer!Shut
  <2> QED
    BY <2>1 DEF Buffer!Next
<1>2. CASE CloseChannel \/ CloseDatabase \/ Signal \/ ShutdownReturns \/ PollerJoined
           \/ AcquireWrite \/ ReleaseWrite \/ WriterJoined
  BY <1>2 DEF CloseChannel, CloseDatabase, Signal, ShutdownReturns, PollerJoined,
              AcquireWrite, ReleaseWrite, WriterJoined, MainOnly, Buffer!vars
<1> QED
  BY <1>1, <1>2 DEF Stop

(* The queue with its lock, its channel and its shutdown is a lossy         *)
(* first-in first-out buffer (archive.go:141-166).                          *)
THEOREM QueueImplementsBuffer == Spec => ImplementsBuffer
<1>1. Init => Buffer!Init
  BY DEF Init, Buffer!Init
<1>2. IInv /\ [Next]_vars => [Buffer!Next]_Buffer!vars
  <2> SUFFICES ASSUME IInv, [Next]_vars
               PROVE  Buffer!Next \/ UNCHANGED Buffer!vars
    OBVIOUS
  <2>1. CASE \E c \in Collectors : Collect(c)
    BY <2>1 DEF Collect, StartScrape, FinishScrape, ProducerOnly, Buffer!vars
  <2>2. ASSUME NEW p \in Producers, Enqueue(p)
        PROVE  Buffer!Next \/ UNCHANGED Buffer!vars
    <3>1. CASE AcquireRead(p)
      BY <3>1 DEF AcquireRead, ProducerOnly, Buffer!vars
    <3> QED
      BY <2>2, <3>1, CheckClosedRefines, OfferRefines DEF Enqueue
  <2>3. CASE Poll
    BY <2>3 DEF Poll, StartPoll, PollSucceeds, PollFails, PollTick, PollExit,
                ProducerOnly, Buffer!vars
  <2>4. CASE Write
    BY <2>4, WriteRefines
  <2>5. CASE Signal \/ Stop
    BY <2>5, MainRefines
  <2>6. CASE Ended \/ UNCHANGED vars
    BY <2>6 DEF Ended, vars, Buffer!vars
  <2> QED
    BY <2>1, <2>2, <2>3, <2>4, <2>5, <2>6 DEF Next
<1> QED
  BY <1>1, <1>2, InvariantHolds, PTL DEF Spec, ImplementsBuffer, Buffer!Spec


-----------------------------------------------------------------------------
(* Termination: steps that are left, of an enqueue, of the stop functions   *)
(* and of the writer once nothing more can be accepted.                     *)
EnqueueLeft(p) ==
    CASE prod[p] = "want" -> 3
      [] prod[p] = "held" -> 2
      [] prod[p] = "checked" -> 1
      [] OTHER -> 0

StopLeft ==
    CASE main = "serve" -> 9
      [] main = "shutdown" -> 8
      [] main = "cancelled" -> 7
      [] main = "lockWait" -> 6
      [] main = "locked" -> 5
      [] main = "marked" -> 4
      [] main = "chanClosed" -> 3
      [] main = "drain" -> 2
      [] main = "dbClosing" -> 1
      [] OTHER -> 0

WriterLeft == CASE writer = "storing" -> 2 [] writer = "idle" -> 1 [] OTHER -> 0
DrainLeft == 2 * Len(queue) + WriterLeft

(* An enqueue is three steps, and neither the writer nor the other          *)
(* producers nor main() can add to them (archive.go:141-153).               *)
EnqueueIsFinite ==
    [][\A p \in Producers :
          /\ Enqueue(p) => EnqueueLeft(p)' < EnqueueLeft(p)
          /\ prod[p] \in {"want", "held", "checked"} => EnqueueLeft(p)' <= EnqueueLeft(p)]_vars

(* main() goes from the signal to its end and never back.  Once closed is   *)
(* set the writer has two steps for each job of the channel and one more:   *)
(* no producer can add to what close() waits for (archive.go:155-175,       *)
(* archive_runtime.go:37-56).                                               *)
ShutdownIsFinite ==
    [][/\ Signal \/ Stop => StopLeft' < StopLeft
       /\ StopLeft' <= StopLeft
       /\ Write => DrainLeft' < DrainLeft
       /\ closed => DrainLeft' <= DrainLeft]_vars

\* The counts are natural numbers, so that none of them can fall for ever.
LEMMA StepsAreCounted ==
    ASSUME TypeOK
    PROVE  /\ \A p \in Producers : EnqueueLeft(p) \in 0 .. 3
           /\ StopLeft \in 0 .. 9
           /\ DrainLeft \in 0 .. 2 * Capacity + 2
<1>1. \A p \in Producers : EnqueueLeft(p) \in 0 .. 3
  BY DEF EnqueueLeft
<1>2. StopLeft \in 0 .. 9
  BY DEF StopLeft
<1>3. Len(queue) \in 0 .. Capacity /\ WriterLeft \in 0 .. 2
  BY DEF TypeOK, WriterLeft
<1> QED
  BY <1>1, <1>2, <1>3, BoundsAssumption DEF DrainLeft

\* The producer that makes the step comes nearer to its end, the others stay.
LEMMA EnqueueAdvances ==
    ASSUME TypeOK, NEW p \in Producers, Enqueue(p)
    PROVE  /\ EnqueueLeft(p)' < EnqueueLeft(p)
           /\ \A q \in Producers \ {p} : prod'[q] = prod[q]
<1>1. prod \in [Producers -> ProducerStates]
  BY DEF TypeOK
<1>2. CASE AcquireRead(p)
  BY <1>1, <1>2 DEF AcquireRead, GoTo, EnqueueLeft
<1>3. CASE CheckClosed(p)
  BY <1>1, <1>3 DEF CheckClosed, GoTo, EnqueueLeft
<1>4. CASE Offer(p)
  BY <1>1, <1>4 DEF Offer, GoTo, EnqueueLeft
<1> QED
  BY <1>2, <1>3, <1>4 DEF Enqueue

\* Nothing but its own enqueue moves a producer that is in one.
LEMMA OthersLeaveItAlone ==
    ASSUME TypeOK, Next, NEW p \in Producers, ~Enqueue(p),
           prod[p] \in {"want", "held", "checked"}
    PROVE  prod'[p] = prod[p]
<1>1. prod \in [Producers -> ProducerStates]
  BY DEF TypeOK
<1>2. ASSUME NEW c \in Collectors, Collect(c) PROVE prod'[p] = prod[p]
  BY <1>1, <1>2 DEF Collect, StartScrape, FinishScrape, MakeJob, GoTo
<1>3. ASSUME NEW q \in Producers, Enqueue(q) PROVE prod'[p] = prod[p]
  BY <1>3, EnqueueAdvances
<1>4. CASE Poll
  BY <1>1, <1>4 DEF Poll, StartPoll, PollSucceeds, PollFails, PollTick, PollExit, MakeJob, GoTo
<1>5. CASE Write
  BY <1>5 DEF Write, WriterTake, WriterStored, WriterExit
<1>6. CASE Signal \/ Stop
  BY <1>6 DEF Signal, Stop, ShutdownReturns, PollerJoined, AcquireWrite, MarkClosed,
              CloseChannel, ReleaseWrite, WriterJoined, CloseDatabase, MainOnly
<1>7. CASE Ended
  BY <1>7 DEF Ended, vars
<1> QED
  BY <1>2, <1>3, <1>4, <1>5, <1>6, <1>7 DEF Next

\* Each step of main() is the next one, and touches neither queue nor writer.
LEMMA StopAdvances ==
    ASSUME Signal \/ Stop
    PROVE  StopLeft' < StopLeft /\ queue' = queue /\ writer' = writer
  BY DEF Signal, Stop, ShutdownReturns, PollerJoined, AcquireWrite, MarkClosed, CloseChannel,
         ReleaseWrite, WriterJoined, CloseDatabase, MainGoTo, MainOnly, StopLeft

\* The writer empties the channel.
LEMMA WriteAdvances ==
    ASSUME TypeOK, Write
    PROVE  DrainLeft' < DrainLeft /\ main' = main
<1>1. CASE WriterTake
  <2>1. Len(queue) \in Nat /\ Len(queue') = Len(queue) - 1
    BY <1>1 DEF TypeOK, WriterTake
  <2> QED
    BY <1>1, <2>1 DEF WriterTake, DrainLeft, WriterLeft
<1>2. CASE WriterStored
  <2>1. Len(queue) \in Nat /\ queue' = queue
    BY <1>2 DEF TypeOK, WriterStored, archiveVars
  <2> QED
    BY <1>2, <2>1 DEF WriterStored, DrainLeft, WriterLeft
<1>3. CASE WriterExit
  <2>1. Len(queue) \in Nat /\ queue' = queue
    BY <1>3 DEF TypeOK, WriterExit, archiveVars
  <2> QED
    BY <1>3, <2>1 DEF WriterExit, DrainLeft, WriterLeft
<1> QED
  BY <1>1, <1>2, <1>3 DEF Write

(* enqueue never loops and is never set back, so that a scrape is held up   *)
(* by it for three steps at most (archive.go:141-153).                      *)
THEOREM EnqueuesAreFinite == Spec => EnqueueIsFinite
<1>1. IInv /\ [Next]_vars =>
          [\A p \in Producers :
              /\ Enqueue(p) => EnqueueLeft(p)' < EnqueueLeft(p)
              /\ prod[p] \in {"want", "held", "checked"} =>
                    EnqueueLeft(p)' <= EnqueueLeft(p)]_vars
  <2> SUFFICES ASSUME IInv, Next, NEW p \in Producers
               PROVE  /\ Enqueue(p) => EnqueueLeft(p)' < EnqueueLeft(p)
                      /\ prod[p] \in {"want", "held", "checked"} =>
                            EnqueueLeft(p)' <= EnqueueLeft(p)
    OBVIOUS
  <2>1. TypeOK
    BY DEF IInv
  <2>2. CASE Enqueue(p)
    <3>1. EnqueueLeft(p)' \in Nat /\ EnqueueLeft(p) \in Nat
      BY DEF EnqueueLeft
    <3> QED
      BY <2>1, <2>2, <3>1, EnqueueAdvances
  <2>3. ASSUME ~Enqueue(p), prod[p] \in {"want", "held", "checked"}
        PROVE  EnqueueLeft(p)' <= EnqueueLeft(p)
    <3>1. prod'[p] = prod[p]
      BY <2>1, <2>3, OthersLeaveItAlone
    <3> QED
      BY <3>1 DEF EnqueueLeft
  <2> QED
    BY <2>2, <2>3
<1> QED
  BY InvariantHolds, <1>1, PTL DEF Spec, EnqueueIsFinite

(* The stop functions make eight steps, and wait for a writer that has a    *)
(* bounded number of jobs before it (archive.go:167-175,                    *)
(* archive_runtime.go:37-56).                                               *)
THEOREM ShutdownsAreFinite == Spec => ShutdownIsFinite
<1>1. IInv /\ [Next]_vars =>
          [/\ Signal \/ Stop => StopLeft' < StopLeft
           /\ StopLeft' <= StopLeft
           /\ Write => DrainLeft' < DrainLeft
           /\ closed => DrainLeft' <= DrainLeft]_vars
  <2> SUFFICES ASSUME IInv, Next
               PROVE  /\ Signal \/ Stop => StopLeft' < StopLeft
                      /\ StopLeft' <= StopLeft
                      /\ Write => DrainLeft' < DrainLeft
                      /\ closed => DrainLeft' <= DrainLeft
    OBVIOUS
  <2>1. TypeOK
    BY DEF IInv
  <2>2. /\ StopLeft \in Nat /\ StopLeft' \in Nat
        /\ main' = main => StopLeft' = StopLeft
    BY DEF StopLeft
  <2>3. /\ DrainLeft \in Nat
        /\ queue' = queue /\ writer' = writer => DrainLeft' = DrainLeft
    BY <2>1, StepsAreCounted DEF DrainLeft, WriterLeft
  <2>4. Write => DrainLeft' < DrainLeft /\ main' = main
    BY <2>1, WriteAdvances
  <2>5. Signal \/ Stop => StopLeft' < StopLeft /\ queue' = queue /\ writer' = writer
    BY StopAdvances
  <2>6. CASE Signal \/ Stop
    BY <2>2, <2>3, <2>4, <2>5, <2>6
  <2>7. CASE Write
    <3>1. DrainLeft' \in Nat
      <4>1. Len(queue') \in Nat
        BY <2>1, <2>7 DEF TypeOK, Write, WriterTake, WriterStored, WriterExit, archiveVars
      <4> QED
        BY <4>1 DEF DrainLeft, WriterLeft
    <3> QED
      BY <2>2, <2>3, <2>4, <2>5, <2>7, <3>1
  <2>8. ASSUME NEW p \in Producers, Enqueue(p)
        PROVE  main' = main /\ (closed => queue' = queue /\ writer' = writer)
    BY <2>8 DEF Enqueue, AcquireRead, CheckClosed, Offer, ProducerOnly, archiveVars,
                IInv, LockDiscipline
  <2>9. CASE (\E c \in Collectors : Collect(c)) \/ Poll \/ Ended
    <3>1. main' = main /\ queue' = queue /\ writer' = writer
      BY <2>9 DEF Collect, StartScrape, FinishScrape, Poll, StartPoll, PollSucceeds,
                  PollFails, PollTick, PollExit, ProducerOnly, Ended, vars
    <3> QED
      BY <2>2, <2>3, <2>4, <2>5, <3>1
  <2>10. CASE \E p \in Producers : Enqueue(p)
    BY <2>2, <2>3, <2>4, <2>5, <2>8, <2>10
  <2> QED
    BY <2>6, <2>7, <2>9, <2>10 DEF Next
<1> QED
  BY InvariantHolds, <1>1, PTL DEF Spec, ShutdownIsFinite
=============================================================================
