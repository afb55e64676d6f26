------------------------- MODULE EventArchiveProofs -------------------------
(****************************************************************************)
(* Proofs about the store of the archive, ArchiveStore, and about           *)
(* EventArchive, where the queue feeds it: the archive implements the       *)
(* store, whose theorems hold of it therefore, and it tells what was        *)
(* reported, in order; for any definitions, causes, lines and limits, any   *)
(* capacity and any number of reports.                                      *)
(****************************************************************************)
EXTENDS EventArchive, FiniteSetTheorems, WellFoundedInduction, TLAPS

\* A job has the log of the poll it reports; and one that reports a poll records
\* it as a success of the poller, and no other verdict on the poller.
Complete(j) ==
    /\ j.records \in Seq(Records) /\ j.poll \in BOOLEAN /\ j.log \in Seq(Lines)
    /\ j.poll => /\ QueryRecordsOf(j, PollerQuery) # {}
                 /\ \A i \in QueryRecordsOf(j, PollerQuery) : j.records[i].cause = None

JobIsComplete == phase = "open" => Complete(job)

IInv == TypeOK /\ KeysAreUnique /\ JobIsComplete /\ LastPollIsTrue

-----------------------------------------------------------------------------
(* Jobs                                                                     *)

(* What a job may hold.                                                     *)
LEMMA QueryRecordType ==
    ASSUME NEW q \in Queries, NEW v \in Verdicts PROVE QueryRecord(q, v) \in Records
  BY DEF Records

\* The router log has a query name of its own.
LEMMA PollerIsQuery == PollerQuery \in Queries
  BY DEF Queries

\* A line of the router log makes a record.
LEMMA RouterRecordType == ASSUME NEW d \in Dedups PROVE RouterRecord(d) \in Records
  BY DEF Records

(* The number in the key of a line is one that Dedups has.                  *)
LEMMA OccurrenceType ==
    ASSUME NEW n \in 0 .. MaxLog, NEW log \in [1 .. n -> Lines], NEW i \in 1 .. n
    PROVE  Occurrence(log, i) \in 1 .. MaxLog
<1> DEFINE Same == {k \in 1 .. i : log[k] = log[i]}
<1>0. MaxLog \in Nat
  BY LimitsAssumption
<1>1. IsFiniteSet(1 .. i) /\ Cardinality(1 .. i) = i
  BY <1>0, FS_Interval
<1>2. IsFiniteSet(Same) /\ Cardinality(Same) <= i
  BY <1>1, FS_Subset
<1>3. Cardinality(Same) \in Nat /\ Cardinality(Same) # 0
  <2>1. i \in Same
    OBVIOUS
  <2>. QED
    BY <1>2, <2>1, FS_CardinalityType, FS_EmptySet
<1>. QED
  BY <1>0, <1>2, <1>3 DEF Occurrence

(* The lines of a log make records of router lines.                         *)
LEMMA RouterRecordsType ==
    ASSUME NEW log \in Logs
    PROVE  /\ log \in Seq(Lines)
           /\ RouterRecords(log) \in Seq(Records)
           /\ \A i \in DOMAIN RouterRecords(log) : RouterRecords(log)[i].kind = "router"
<1>1. PICK n \in 0 .. MaxLog : log \in [1 .. n -> Lines]
  BY DEF Logs
<1>2. n \in Nat
  BY LimitsAssumption
<1>3. \A i \in 1 .. n : RouterRecord(<<log[i], Occurrence(log, i)>>) \in Records
  BY <1>1, OccurrenceType, RouterRecordType DEF Dedups
<1>4. RouterRecords(log) \in [1 .. n -> Records]
  BY <1>1, <1>3 DEF RouterRecords
<1>. QED
  BY <1>1, <1>2, <1>4 DEF RouterRecords, RouterRecord

(* The three jobs of the writer are complete.                               *)
LEMMA PollJobIsComplete == ASSUME NEW log \in Logs PROVE Complete(PollJob(log))
<1> DEFINE lines == RouterRecords(log)
           last == QueryRecord(PollerQuery, None)
           records == Append(lines, last)
<1>1. /\ log \in Seq(Lines) /\ lines \in Seq(Records)
      /\ \A i \in DOMAIN lines : lines[i].kind = "router"
  BY RouterRecordsType
<1>2. last \in Records /\ last.kind = "query" /\ last.query = PollerQuery /\ last.cause = None
  BY QueryRecordType, PollerIsQuery DEF Verdicts, QueryRecord
<1>3. /\ PollJob(log).records = records /\ PollJob(log).poll = TRUE /\ PollJob(log).log = log
  BY DEF PollJob
<1> HIDE DEF lines, last
<1>4. /\ records \in Seq(Records)
      /\ DOMAIN records = 1 .. Len(lines) + 1
      /\ \A i \in 1 .. Len(lines) : records[i].kind = "router"
      /\ records[Len(lines) + 1] = last
  BY <1>1, <1>2
<1>5. \A i \in DOMAIN records : records[i].kind = "query" => i = Len(lines) + 1
  BY <1>1, <1>4
<1>6. Len(lines) + 1 \in DOMAIN records
  BY <1>1, <1>4
<1> HIDE DEF records
<1>7. QueryRecordsOf(PollJob(log), PollerQuery) = {Len(lines) + 1}
  <2>1. QueryRecordsOf(PollJob(log), PollerQuery) =
            {i \in DOMAIN records : records[i].kind = "query" /\ records[i].query = PollerQuery}
    BY <1>3 DEF QueryRecordsOf
  <2>. QED
    BY <1>2, <1>4, <1>5, <1>6, <2>1
<1>. QED
  BY <1>1, <1>2, <1>3, <1>4, <1>7 DEF Complete

\* The job of a failed poll is one record of the poller, without log lines.
LEMMA FailedPollJobIsComplete ==
    ASSUME NEW cause \in Causes PROVE Complete(FailedPollJob(cause))
<1>1. QueryRecord(PollerQuery, cause) \in Records
  BY QueryRecordType, PollerIsQuery DEF Verdicts
<1>2. <<QueryRecord(PollerQuery, cause)>> \in Seq(Records)
  BY <1>1
<1>. QED
  BY <1>2 DEF Complete, FailedPollJob

\* The job of a scrape has one record for each definition of its collector.
LEMMA ScrapeJobIsComplete ==
    ASSUME NEW c \in Collectors, NEW verdict \in [DOMAIN Definitions[c] -> Verdicts]
    PROVE  Complete(ScrapeJob(c, verdict))
<1>1. Definitions[c] \in Seq(Queries)
  BY DefinitionsAssumption
<1>2. \A i \in DOMAIN Definitions[c] : QueryRecord(Definitions[c][i], verdict[i]) \in Records
  BY <1>1, QueryRecordType
<1> DEFINE records == [i \in DOMAIN Definitions[c] |-> QueryRecord(Definitions[c][i], verdict[i])]
<1>3. records \in [1 .. Len(Definitions[c]) -> Records] /\ Len(Definitions[c]) \in Nat
  BY <1>1, <1>2
<1>4. records \in Seq(Records)
  BY <1>3
<1>5. /\ ScrapeJob(c, verdict).records = records
      /\ ScrapeJob(c, verdict).poll = FALSE /\ ScrapeJob(c, verdict).log = <<>>
  BY DEF ScrapeJob
<1> DEFINE j == ScrapeJob(c, verdict)
<1>6. /\ j.records \in Seq(Records) /\ j.poll = FALSE /\ j.log \in Seq(Lines)
  BY <1>4, <1>5
<1> HIDE DEF j
<1>. QED
  BY <1>6 DEF Complete, j

-----------------------------------------------------------------------------
(* Rows                                                                     *)

(* A row that is inserted, or closed, is a row.                             *)
LEMMA NewRowType ==
    ASSUME NEW id \in Nat, NEW kind \in {"router", "query", "recovery"}, NEW r \in Records,
           NEW active \in BOOLEAN, stamp \in Times
    PROVE  NewRow(id, kind, r, active) \in Row
  BY DEF NewRow, Row, Records, QueryRecord, RouterRecord, Verdicts

\* Rows stay rows when those of a query are closed.
LEMMA DeactivateType ==
    ASSUME NEW rs \in SUBSET Row, NEW q PROVE Deactivate(rs, q) \in SUBSET Row
  BY DEF Deactivate, Row

\* KeysAreUnique of one table.
Distinct(rs) ==
    \A r, s \in rs :
        \/ r.id = s.id
        \/ r.active /\ s.active /\ r.query = s.query
        \/ r.dedup # None /\ r.dedup = s.dedup
        => r = s

(* A row may be inserted whose keys no row has.                             *)
LEMMA InsertIsDistinct ==
    ASSUME NEW rs \in SUBSET Row, Distinct(rs), NEW row \in Row,
           \A r \in rs : r.id < row.id,
           row.active => \A r \in rs : ~(r.active /\ r.query = row.query),
           row.dedup # None => \A r \in rs : r.dedup # row.dedup
    PROVE  Distinct(rs \cup {row})
<1>1. \A r \in rs : r.id # row.id
  BY DEF Row
<1>. QED
  BY <1>1 DEF Distinct

(* The keys of the others stay as they are when one incident is closed.     *)
LEMMA DeactivateIsDistinct ==
    ASSUME NEW rs \in SUBSET Row, Distinct(rs), NEW q, NEW id, IsNextId(rs, id)
    PROVE  /\ Distinct(Deactivate(rs, q))
           /\ \A r \in Deactivate(rs, q) : r.id < id /\ ~(r.active /\ r.query = q)
<1> DEFINE Closed(r) == IF r \in ActiveRows(rs, q) THEN [r EXCEPT !.active = FALSE] ELSE r
<1>1. ASSUME NEW r \in rs
      PROVE  /\ Closed(r).id = r.id /\ Closed(r).query = r.query /\ Closed(r).dedup = r.dedup
             /\ Closed(r).active => r.active /\ r.query # q
  BY DEF ActiveRows, Row
<1>2. Deactivate(rs, q) = {Closed(r) : r \in rs}
  BY DEF Deactivate
<1>3. ASSUME NEW r \in rs, NEW s \in rs,
             \/ Closed(r).id = Closed(s).id
             \/ Closed(r).active /\ Closed(s).active /\ Closed(r).query = Closed(s).query
             \/ Closed(r).dedup # None /\ Closed(r).dedup = Closed(s).dedup
      PROVE  Closed(r) = Closed(s)
  <2>1. \/ r.id = s.id
        \/ r.active /\ s.active /\ r.query = s.query
        \/ r.dedup # None /\ r.dedup = s.dedup
    BY <1>1, <1>3
  <2>. QED
    BY <2>1 DEF Distinct
<1> HIDE DEF Closed
<1>4. Distinct(Deactivate(rs, q))
  BY <1>2, <1>3 DEF Distinct
<1>5. \A r \in rs : Closed(r).id < id /\ ~(Closed(r).active /\ Closed(r).query = q)
  BY <1>1 DEF IsNextId
<1>. QED
  BY <1>2, <1>4, <1>5

(* A row may be changed in what is not a key.                               *)
LEMMA UpdateIsDistinct ==
    ASSUME NEW rs \in SUBSET Row, Distinct(rs), NEW r \in rs, NEW new \in Row,
           new.id = r.id, new.active = r.active, new.query = r.query, new.dedup = r.dedup
    PROVE  Distinct((rs \ {r}) \cup {new})
  BY DEF Distinct

-----------------------------------------------------------------------------
(* The steps of a transaction                                               *)

(* What the record that comes next has, by its kind.                        *)
LEMMA RecordType ==
    ASSUME TypeOK, Recording
    PROVE  /\ Record \in Records
           /\ Record.kind = "router" =>
                 Record.dedup \in Dedups /\ Record.query = None /\ Record.cause = None
           /\ Record.kind = "query" => Record.dedup = None /\ Record.query \in Queries
           /\ pos' = pos + 1 => pos' \in Nat
<1>1. Record \in Records
  BY DEF TypeOK, Recording, Record
<1>. QED
  BY <1>1 DEF Records, QueryRecord, RouterRecord, TypeOK

(* Everything but the table the transaction sees is left alone by a record. *)
LEMMA NextRecordKeeps ==
    ASSUME IInv, Recording, NextRecord, work' \in SUBSET Row, Distinct(work')
    PROVE  IInv'
<1>1. TypeOK'
  <2>1. /\ UNCHANGED <<rows, lastPoll, now, phase, job, stamp, commits, story, lastLog>>
        /\ pos' = pos + 1
    BY DEF NextRecord, history
  <2>2. pos' \in Nat
    BY <2>1 DEF IInv, TypeOK
  <2>3. (phase = "open" => job.records \in Seq(Records) /\ job.poll \in BOOLEAN)'
    BY <2>1 DEF IInv, TypeOK
  <2>4. (commits \in Seq(Times) /\ story \in [Queries -> Seq([verdict : Verdicts, at : Times])])'
    BY <2>1 DEF IInv, TypeOK
  <2>5. (lastLog \in [lines : Seq(Lines), at : Times])'
    BY <2>1 DEF IInv, TypeOK
  <2>6. /\ rows' \subseteq Row /\ work' \subseteq Row
        /\ lastPoll' \in Times /\ now' \in Times /\ stamp' \in Times
        /\ phase' \in {"idle", "open"}
    BY <2>1 DEF IInv, TypeOK
  <2>. QED
    BY <2>2, <2>3, <2>4, <2>5, <2>6 DEF TypeOK
<1>2. KeysAreUnique'
  BY DEF IInv, KeysAreUnique, Distinct, NextRecord
<1>3. JobIsComplete'
  BY DEF IInv, JobIsComplete, Complete, NextRecord, QueryRecordsOf
<1>4. LastPollIsTrue'
  BY DEF IInv, LastPollIsTrue, NextRecord, history
<1>. QED
  BY <1>1, <1>2, <1>3, <1>4 DEF IInv

(* Every branch of store keeps the invariant.                               *)
LEMMA StoreRecordKeeps == ASSUME IInv, StoreRecord PROVE IInv'
<1> USE LimitsAssumption, NoneAssumption
<1>1. work \in SUBSET Row /\ Distinct(work) /\ stamp \in Times /\ TypeOK
  BY DEF IInv, TypeOK, KeysAreUnique, Distinct
<1>2. ASSUME NEW id \in 1 .. MaxId PROVE id \in Nat
  OBVIOUS
<1>3. CASE StoreLine
  <2>1. Recording /\ NextRecord /\ Record.kind = "router"
    BY <1>3 DEF StoreLine
  <2>2. CASE UNCHANGED work
    BY <1>1, <2>1, <2>2, NextRecordKeeps
  <2>3. CASE ~UNCHANGED work
    <3>1. PICK id \in 1 .. MaxId : /\ IsNextId(work, id)
                                   /\ work' = work \cup {NewRow(id, "router", Record, FALSE)}
      BY <1>3, <2>3 DEF StoreLine
    <3>2. \A r \in work : r.dedup # Record.dedup
      BY <1>3, <2>3 DEF StoreLine
    <3> DEFINE row == NewRow(id, "router", Record, FALSE)
    <3>3. row \in Row
      <4>1. Record \in Records /\ id \in Nat
        BY <1>1, <1>2, <2>1, RecordType
      <4>. QED
        BY <1>1, <4>1, NewRowType
    <3>4. row.id = id /\ row.active = FALSE /\ row.dedup = Record.dedup
      BY DEF NewRow
    <3>5. Distinct(work')
      BY <1>1, <3>1, <3>2, <3>3, <3>4, InsertIsDistinct DEF IsNextId
    <3>. QED
      BY <1>1, <2>1, <3>1, <3>3, <3>5, NextRecordKeeps
  <2>. QED
    BY <2>2, <2>3
<1>4. CASE StoreSuccess
  BY <1>1, <1>4, NextRecordKeeps DEF StoreSuccess, Succeeded
<1>5. ASSUME NEW kind \in {"query", "recovery"}, NEW active \in BOOLEAN, NEW id \in 1 .. MaxId,
             Recording, NextRecord, Record.kind = "query", IsNextId(work, id),
             work' = Deactivate(work, Record.query) \cup {NewRow(id, kind, Record, active)}
      PROVE  IInv'
  <2> DEFINE row == NewRow(id, kind, Record, active)
  <2>1. row \in Row
    BY <1>1, <1>5, RecordType, NewRowType
  <2>2. row.id = id /\ row.query = Record.query /\ row.dedup = None
    BY <1>1, <1>5, RecordType DEF NewRow
  <2>3. Deactivate(work, Record.query) \in SUBSET Row
    BY <1>1, DeactivateType
  <2>4. /\ Distinct(Deactivate(work, Record.query))
        /\ \A r \in Deactivate(work, Record.query) :
              r.id < id /\ ~(r.active /\ r.query = Record.query)
    BY <1>1, <1>5, DeactivateIsDistinct
  <2>5. Distinct(work')
    BY <1>5, <2>1, <2>2, <2>3, <2>4, InsertIsDistinct
  <2>. QED
    BY <1>5, <2>1, <2>3, <2>5, NextRecordKeeps
<1>6. CASE StoreRecovery
  BY <1>5, <1>6 DEF StoreRecovery, Succeeded
<1>7. CASE StoreFailure
  BY <1>5, <1>7 DEF StoreFailure, Failed
<1>8. CASE StoreRepeat
  <2>1. PICK r \in Active :
           work' = (work \ {r}) \cup {[r EXCEPT !.last = stamp, !.count = @ + 1]}
    BY <1>8 DEF StoreRepeat
  <2> DEFINE new == [r EXCEPT !.last = stamp, !.count = @ + 1]
  <2>2. r \in work /\ r \in Row
    BY <1>1 DEF Active, ActiveRows
  <2>3. /\ new \in Row
        /\ new.id = r.id /\ new.active = r.active /\ new.query = r.query /\ new.dedup = r.dedup
    <3> DEFINE seen == [r EXCEPT !.last = stamp]
    <3>1. /\ seen \in Row /\ seen.count = r.count
          /\ seen.id = r.id /\ seen.active = r.active /\ seen.query = r.query
          /\ seen.dedup = r.dedup
      BY <1>1, <2>2 DEF Row
    <3>2. new = [seen EXCEPT !.count = r.count + 1]
      OBVIOUS
    <3>3. r.count + 1 \in Nat
      BY <2>2 DEF Row
    <3> HIDE DEF seen, new
    <3>. QED
      BY <3>1, <3>2, <3>3 DEF Row
  <2>4. Distinct(work')
    BY <1>1, <2>1, <2>2, <2>3, UpdateIsDistinct
  <2>. QED
    BY <1>1, <1>8, <2>1, <2>3, <2>4, NextRecordKeeps DEF StoreRepeat, Failed
<1>. QED
  BY <1>3, <1>4, <1>6, <1>7, <1>8 DEF StoreRecord

-----------------------------------------------------------------------------
(* The other steps                                                          *)

(* The empty archive has it.                                                *)
LEMMA InitHolds == Init => IInv
<1> USE LimitsAssumption
<1>1. Init => TypeOK
  BY DEF Init, TypeOK, Times
<1>2. Init => KeysAreUnique /\ JobIsComplete /\ LastPollIsTrue
  BY DEF Init, KeysAreUnique, JobIsComplete, LastPollIsTrue
<1>. QED
  BY <1>1, <1>2 DEF IInv

(* So does the start of a job.                                              *)
LEMMA BeginKeeps == ASSUME IInv, NEW j, Complete(j), Begin(j) PROVE IInv'
<1>1. work' \subseteq rows
  BY DEF Begin, Unexpired
<1>2. UNCHANGED <<rows, lastPoll, now, commits, story, lastLog>>
  BY DEF Begin, history
<1>3. TypeOK'
  BY <1>1, <1>2 DEF Begin, IInv, TypeOK, Complete
<1>4. KeysAreUnique'
  BY <1>1, <1>2 DEF IInv, KeysAreUnique
<1>5. JobIsComplete'
  BY DEF Begin, JobIsComplete
<1>6. LastPollIsTrue'
  BY <1>2 DEF IInv, LastPollIsTrue
<1>. QED
  BY <1>3, <1>4, <1>5, <1>6 DEF IInv

\* Whatever job is next, its transaction begins from the stored state.
LEMMA BeginAnyKeeps == ASSUME IInv, BeginAny PROVE IInv'
  BY BeginKeeps, PollJobIsComplete, FailedPollJobIsComplete, ScrapeJobIsComplete DEF BeginAny

(* What a commit adds to the story of a query: nothing, or its verdict.     *)
LEMMA StoryOfCommit ==
    ASSUME IInv, Commit, NEW q \in Queries
    PROVE  /\ story'[q] \in Seq([verdict : Verdicts, at : Times])
           /\ \/ story'[q] = story[q]
              \/ \E v \in Verdicts : story'[q] = Append(story[q], [verdict |-> v, at |-> stamp])
           /\ job.poll /\ q = PollerQuery =>
                 story'[q] = Append(story[q], [verdict |-> None, at |-> stamp])
<1> DEFINE mine == QueryRecordsOf(job, q)
           v == job.records[CHOOSE i \in mine : TRUE].cause
<1>1. Complete(job) /\ TypeOK
  BY DEF IInv, JobIsComplete, Commit
<1>2. story'[q] = IF mine = {} THEN story[q]
                  ELSE Append(story[q], [verdict |-> v, at |-> stamp])
  BY DEF Commit, Remember
<1>3. story[q] \in Seq([verdict : Verdicts, at : Times]) /\ stamp \in Times
  BY <1>1 DEF TypeOK
<1>4. CASE mine = {}
  <2>1. ~(job.poll /\ q = PollerQuery)
    BY <1>1, <1>4 DEF Complete
  <2>. QED
    BY <1>2, <1>3, <1>4, <2>1
<1>5. CASE mine # {}
  <2>1. (CHOOSE i \in mine : TRUE) \in mine
    BY <1>5
  <2>2. v \in Verdicts
    <3>1. \A i \in mine : job.records[i] \in Records
      BY <1>1 DEF Complete, QueryRecordsOf
    <3>2. \A r \in Records : r.cause \in Verdicts
      BY DEF Records, QueryRecord, RouterRecord, Verdicts
    <3>. QED
      BY <2>1, <3>1, <3>2
  <2>3. job.poll /\ q = PollerQuery => v = None
    BY <1>1, <2>1 DEF Complete
  <2> HIDE DEF mine, v
  <2>4. story'[q] = Append(story[q], [verdict |-> v, at |-> stamp])
    BY <1>2, <1>5
  <2>5. [verdict |-> v, at |-> stamp] \in [verdict : Verdicts, at : Times]
    BY <1>3, <2>2
  <2>. QED
    BY <1>3, <2>2, <2>3, <2>4, <2>5
<1>. QED
  BY <1>4, <1>5

(* A commit keeps it: what it makes durable is what the transaction saw.    *)
LEMMA CommitKeeps == ASSUME IInv, Commit PROVE IInv'
<1>1. /\ rows' \subseteq work /\ work' = {} /\ phase' = "idle" /\ pos' = 0 /\ stamp' = 0
      /\ now' = now
  BY DEF Commit, Newest, NoTransaction
<1>2. Complete(job) /\ TypeOK
  BY DEF IInv, JobIsComplete, Commit
<1>3. 0 \in Times
  BY LimitsAssumption DEF Times
<1>4. TypeOK'
  <2>1. story' \in [Queries -> Seq([verdict : Verdicts, at : Times])]
    <3>1. story' = [q \in Queries |-> story'[q]]
      BY DEF Commit, Remember
    <3>. QED
      BY <3>1, StoryOfCommit
  <2>2. commits' \in Seq(Times)
    BY <1>2 DEF Commit, Remember, TypeOK
  <2>3. lastLog' \in [lines : Seq(Lines), at : Times]
    BY <1>2 DEF Commit, Remember, TypeOK, Complete
  <2>4. lastPoll' \in Times
    BY <1>2 DEF Commit, TypeOK
  <2>. QED
    BY <1>1, <1>2, <1>3, <2>1, <2>2, <2>3, <2>4 DEF TypeOK
<1>5. KeysAreUnique'
  BY <1>1 DEF IInv, KeysAreUnique
<1>6. JobIsComplete'
  BY <1>1 DEF JobIsComplete
<1>7. LastPollIsTrue'
  <2>0. PollerQuery \in Queries
    BY PollerIsQuery
  <2> DEFINE told == story[PollerQuery]
  <2>1. told \in Seq([verdict : Verdicts, at : Times])
    BY <1>2, <2>0 DEF TypeOK
  <2>2. CASE job.poll
    <3>1. story'[PollerQuery] = Append(told, [verdict |-> None, at |-> stamp])
      BY <2>0, <2>2, StoryOfCommit
    <3>2. lastPoll' = stamp
      BY <2>2 DEF Commit
    <3> DEFINE new == [verdict |-> None, at |-> stamp]
    <3>3. /\ Len(told) + 1 \in DOMAIN Append(told, new)
          /\ Append(told, new)[Len(told) + 1] = new
      <4> HIDE DEF told, new
      <4>. QED
        BY <2>1
    <3>. QED
      BY <3>1, <3>2, <3>3 DEF LastPollIsTrue
  <2>3. CASE ~job.poll
    <3>1. lastPoll' = lastPoll
      BY <2>3 DEF Commit
    <3>2. /\ DOMAIN told \subseteq DOMAIN story'[PollerQuery]
          /\ \A i \in DOMAIN told : story'[PollerQuery][i] = told[i]
      <4>1. CASE story'[PollerQuery] = told
        BY <4>1
      <4>2. ASSUME NEW v \in Verdicts,
                   story'[PollerQuery] = Append(told, [verdict |-> v, at |-> stamp])
            PROVE  /\ DOMAIN told \subseteq DOMAIN story'[PollerQuery]
                   /\ \A i \in DOMAIN told : story'[PollerQuery][i] = told[i]
        <5> HIDE DEF told
        <5>. QED
          BY <2>1, <4>2
      <4>. QED
        BY <2>0, <4>1, <4>2, StoryOfCommit
    <3>. QED
      BY <3>1, <3>2 DEF IInv, LastPollIsTrue
  <2>. QED
    BY <2>2, <2>3
<1>. QED
  BY <1>4, <1>5, <1>6, <1>7 DEF IInv

(* A rollback and a restart leave the table as last committed.              *)
LEMMA AbortKeeps == ASSUME IInv, Abort \/ Restart PROVE IInv'
<1>1. /\ rows' = rows /\ work' = {} /\ phase' = "idle" /\ pos' = 0 /\ stamp' = 0
      /\ lastPoll' \in {0, lastPoll}
      /\ UNCHANGED <<now, commits, story, lastLog>>
  BY DEF Abort, Restart, NoTransaction, history
<1>2. 0 \in Times
  BY LimitsAssumption DEF Times
<1>3. TypeOK'
  BY <1>1, <1>2 DEF IInv, TypeOK
<1>4. KeysAreUnique' /\ JobIsComplete'
  BY <1>1 DEF IInv, KeysAreUnique, JobIsComplete
<1>5. LastPollIsTrue'
  BY <1>1 DEF IInv, LastPollIsTrue
<1>. QED
  BY <1>3, <1>4, <1>5 DEF IInv

(* Time passes: nothing else changes.                                       *)
LEMMA TickKeeps == ASSUME IInv, Tick \/ UNCHANGED vars PROVE IInv'
<1>1. UNCHANGED <<rows, lastPoll, phase, job, pos, stamp, work, commits, story, lastLog>>
  BY DEF Tick, vars, tx, history
<1>2. now' \in Times
  BY LimitsAssumption DEF Tick, vars, IInv, TypeOK, Times
<1>3. TypeOK'
  BY <1>1, <1>2 DEF IInv, TypeOK
<1>4. KeysAreUnique' /\ LastPollIsTrue'
  BY <1>1 DEF IInv, KeysAreUnique, LastPollIsTrue
<1>5. JobIsComplete'
  BY <1>1 DEF IInv, JobIsComplete, Complete, QueryRecordsOf
<1>. QED
  BY <1>3, <1>4, <1>5 DEF IInv

-----------------------------------------------------------------------------
(* The inductive invariant: TypeOK and the two properties, with what a job  *)
(* of a poll has to contain for them.                                       *)
THEOREM InvariantHolds == Spec => []IInv
<1>1. IInv /\ [Next]_vars => IInv'
  BY BeginAnyKeeps, StoreRecordKeeps, CommitKeeps, AbortKeeps, TickKeeps DEF Next
<1>. QED
  BY InitHolds, <1>1, PTL DEF Spec

(* The table, the transaction and the histories have the types of the       *)
(* columns of archive.go:126-132.                                           *)
THEOREM TypeCorrect == Spec => []TypeOK
<1>1. IInv => TypeOK
  BY DEF IInv
<1>. QED
  BY InvariantHolds, <1>1, PTL

(* No insert of store ever meets a row with its primary key, its active_key *)
(* or its dedup_key, in any order of failures, recoveries, rollbacks and    *)
(* restarts.                                                                *)
THEOREM KeysStayUnique == Spec => []KeysAreUnique
<1>1. IInv => KeysAreUnique
  BY DEF IInv
<1>. QED
  BY InvariantHolds, <1>1, PTL

(* The published time of the last poll is that of a poll whose transaction  *)
(* was committed as a success.                                              *)
THEOREM PublishedPollIsCommitted == Spec => []LastPollIsTrue
<1>1. IInv => LastPollIsTrue
  BY DEF IInv
<1>. QED
  BY InvariantHolds, <1>1, PTL

-----------------------------------------------------------------------------
(* The newest rows                                                          *)

(* Every nonempty set of naturals has a least element.                      *)
LEMMA LeastNatural ==
    ASSUME NEW T, T \subseteq Nat, T # {}
    PROVE  \E t \in T : \A u \in T : t <= u
<1> DEFINE Less == {p \in Nat \X Nat : p[1] < p[2]}
<1>1. IsWellFoundedOn(Less, Nat)
  BY NatLessThanWellFounded DEF OpToRel
<1>2. PICK t \in T : \A u \in T : ~(<<u, t>> \in Less)
  <2>. HIDE DEF Less
  <2>. QED
    BY <1>1, WFMin
<1>3. ASSUME NEW u \in T PROVE t <= u
  <2>1. <<u, t>> \in Nat \X Nat /\ <<u, t>>[1] = u /\ <<u, t>>[2] = t
    OBVIOUS
  <2>2. ~(<<u, t>>[1] < <<u, t>>[2])
    BY <1>2, <2>1
  <2>. QED
    BY <2>1, <2>2
<1>. QED
  BY <1>3

\* How many rows of the table are newer.
Rank(rs, r) == Cardinality({s \in rs : Newer(s, r)})

(* The order of the deletion is strict, and total where the ids differ.     *)
LEMMA NewerIsStrict ==
    ASSUME NEW r \in Row, NEW s \in Row, NEW t \in Row
    PROVE  /\ ~Newer(r, r)
           /\ Newer(r, s) => ~Newer(s, r)
           /\ Newer(r, s) /\ Newer(s, t) => Newer(r, t)
           /\ r.id # s.id => Newer(r, s) \/ Newer(s, r)
<1>1. \A q \in Row : q.id \in Int /\ q.last \in Int
  BY LimitsAssumption DEF Row, Times
<1>. QED
  BY <1>1 DEF Newer

(* The newer row has the smaller rank.                                      *)
LEMMA RankIsStrict ==
    ASSUME NEW rs \in SUBSET Row, IsFiniteSet(rs), NEW r \in rs, NEW s \in rs
    PROVE  /\ Rank(rs, r) \in Nat
           /\ Newer(s, r) => Rank(rs, s) < Rank(rs, r)
<1> DEFINE Above(x) == {t \in rs : Newer(t, x)}
<1>1. \A x \in rs : IsFiniteSet(Above(x)) /\ Cardinality(Above(x)) \in Nat
  BY FS_Subset, FS_CardinalityType
<1>2. ASSUME Newer(s, r) PROVE Cardinality(Above(s)) < Cardinality(Above(r))
  <2>1. Above(s) \subseteq Above(r)
    BY <1>2, NewerIsStrict
  <2>2. s \in Above(r) /\ s \notin Above(s)
    BY <1>2, NewerIsStrict
  <2>3. /\ Cardinality(Above(s)) <= Cardinality(Above(r))
        /\ Cardinality(Above(s)) # Cardinality(Above(r))
    <3> HIDE DEF Above
    <3>. QED
      BY <1>1, <2>1, <2>2, FS_Subset
  <2>. QED
    BY <1>1, <2>3
<1>. QED
  BY <1>1, <1>2 DEF Rank

(* What is kept is newer than what is deleted, it is no more than the limit *)
(* allows, and nothing is deleted before the limit is reached               *)
(* (archive.go:258-262).                                                    *)
LEMMA NewestAreKept ==
    ASSUME NEW rs \in SUBSET Row, IsFiniteSet(rs), Distinct(rs)
    PROVE  /\ \A r \in rs \ Newest(rs), s \in Newest(rs) : Newer(s, r)
           /\ Cardinality(Newest(rs)) <= MaxRows
           /\ Newest(rs) = rs \/ Cardinality(Newest(rs)) = MaxRows
<1> DEFINE N == Newest(rs)
<1>0. MaxRows \in Nat \ {0}
  BY LimitsAssumption
<1>1. N \subseteq rs /\ \A r \in rs : r \in N <=> Rank(rs, r) < MaxRows
  BY DEF Newest, Rank
<1>2. \A r, s \in rs : r = s \/ Newer(r, s) \/ Newer(s, r)
  BY NewerIsStrict DEF Distinct
<1>3. IsFiniteSet(N) /\ Cardinality(N) \in Nat
  BY <1>1, FS_Subset, FS_CardinalityType
<1> HIDE DEF N
<1>4. \A r \in rs \ N, s \in N : Newer(s, r)
  <2> SUFFICES ASSUME NEW r \in rs \ N, NEW s \in N, ~Newer(s, r) PROVE FALSE
    OBVIOUS
  <2>1. s \in rs /\ Newer(r, s)
    BY <1>1, <1>2
  <2>. QED
    BY <1>0, <1>1, <2>1, RankIsStrict
<1>5. Cardinality(N) <= MaxRows
  <2>1. CASE N = {}
    BY <1>0, <2>1, FS_EmptySet
  <2>2. CASE N # {}
    <3> DEFINE Gaps == {MaxRows - Rank(rs, r) : r \in N}
    <3>1. Gaps \subseteq Nat /\ Gaps # {}
      BY <1>0, <1>1, <2>2, RankIsStrict
    <3>2. PICK r \in N : \A s \in N : MaxRows - Rank(rs, r) <= MaxRows - Rank(rs, s)
      <4>1. PICK least \in Gaps : \A gap \in Gaps : least <= gap
        <5> HIDE DEF Gaps
        <5>. QED
          BY <3>1, LeastNatural
      <4>. QED
        BY <4>1
    <3> DEFINE Above == {s \in rs : Newer(s, r)}
    <3>3. ASSUME NEW s \in N PROVE s \in Above \cup {r}
      <4>1. Rank(rs, s) <= Rank(rs, r)
        BY <1>0, <1>1, <3>2, RankIsStrict
      <4>2. ~Newer(r, s)
        BY <1>1, <4>1, RankIsStrict
      <4>. QED
        BY <1>1, <1>2, <4>2
    <3>4. IsFiniteSet(Above) /\ r \notin Above
      BY <1>1, FS_Subset, NewerIsStrict
    <3>5. Cardinality(Above) = Rank(rs, r)
      BY DEF Rank
    <3> HIDE DEF Above
    <3>6. IsFiniteSet(Above \cup {r}) /\ Cardinality(Above \cup {r}) = Rank(rs, r) + 1
      BY <3>4, <3>5, FS_AddElement
    <3>7. Cardinality(N) <= Rank(rs, r) + 1
      BY <3>3, <3>6, FS_Subset
    <3>. QED
      BY <1>0, <1>1, <1>3, <3>7, RankIsStrict
  <2>. QED
    BY <2>1, <2>2
<1>6. N = rs \/ Cardinality(N) = MaxRows
  <2> SUFFICES ASSUME rs \ N # {} PROVE Cardinality(N) = MaxRows
    BY <1>1
  <2> DEFINE Ranks == {Rank(rs, r) : r \in rs \ N}
  <2>1. Ranks \subseteq Nat /\ Ranks # {}
    BY RankIsStrict
  <2>2. PICK r \in rs \ N : \A s \in rs \ N : Rank(rs, r) <= Rank(rs, s)
    <3>1. PICK least \in Ranks : \A rank \in Ranks : least <= rank
      <4> HIDE DEF Ranks
      <4>. QED
        BY <2>1, LeastNatural
    <3>. QED
      BY <3>1
  <2> DEFINE Above == {s \in rs : Newer(s, r)}
  <2>3. ASSUME NEW s \in Above PROVE s \in N
    <3>1. Rank(rs, s) < Rank(rs, r)
      BY RankIsStrict
    <3>. QED
      BY <2>2, <3>1, RankIsStrict
  <2>4. Cardinality(Above) = Rank(rs, r)
    BY DEF Rank
  <2> HIDE DEF Above
  <2>5. Rank(rs, r) <= Cardinality(N)
    BY <1>3, <2>3, <2>4, FS_Subset
  <2>. QED
    BY <1>0, <1>1, <1>3, <1>5, <2>5, RankIsStrict
<1>. QED
  BY <1>4, <1>5, <1>6 DEF N

-----------------------------------------------------------------------------
Verdict == [verdict : Verdicts, at : Times]

\* No query has two verdicts in one job.
Once(j) == \A q \in Queries : \A i, k \in QueryRecordsOf(j, q) : i = k
CauseIn(j, q) == j.records[CHOOSE i \in QueryRecordsOf(j, q) : TRUE].cause

\* The story as the open transaction will have it, as far as it has come.
Told == [q \in Queries |->
    IF phase = "open" /\ \E i \in QueryRecordsOf(job, q) : i < pos
    THEN Append(story[q], [verdict |-> CauseIn(job, q), at |-> stamp])
    ELSE story[q]]

\* What a row is: only a failure is open, and only a router line has a dedup_key.
WellFormed(rs) ==
    /\ IsFiniteSet(rs)
    /\ \A r \in rs :
          /\ r.active => r.kind = "query" /\ r.cause # None /\ r.query \in Queries
          /\ r.kind = "router" <=> r.dedup # None

\* OpenIncidentsAreTrue of a row.
IsTrue(r, told) ==
    /\ r.count \in 1 .. Len(told)
    /\ \A i \in Len(told) - r.count + 1 .. Len(told) : told[i].verdict = r.cause
    /\ told[Len(told) - r.count + 1].at = r.first
    /\ told[Len(told)].at = r.last
Truth(rs, S) == \A r \in rs : r.active => IsTrue(r, S[r.query])

\* FailuresAreOpen of a query, for a table that may still exceed the limit.
LastFailed(told) == told # <<>> /\ told[Len(told)].verdict # None
Gone(rs, time, at) ==
    \/ at < time - Retention
    \/ Cardinality(rs) >= MaxRows /\ \A r \in rs : r.last >= at
OpenOrGone(rs, S, time) ==
    \A q \in Queries : LastFailed(S[q]) =>
        ActiveRows(rs, q) # {} \/ Gone(rs, time, S[q][Len(S[q])].at)

\* RecoveriesAreReal of a query.
Turns(told) == {i \in 2 .. Len(told) : told[i].verdict = None /\ told[i - 1].verdict # None}
Recoveries(rs, q) == {r \in rs : r.kind = "recovery" /\ r.query = q}
AreReal(shown, told) ==
    /\ \A r \in shown : \E i \in Turns(told) : told[i].at = r.first
    /\ Cardinality(shown) <= Cardinality(Turns(told))
Real(rs, S) == \A q \in Queries : AreReal(Recoveries(rs, q), S[q])

\* Nothing is from the future, and nothing has outlived the retention.
Recent(rs, time) == \A r \in rs : time - Retention <= r.last /\ r.last <= time

\* CommittedLogIsArchived, line by line.
HasLine(rs, log, i) ==
    \E r \in rs : r.kind = "router" /\ r.dedup = <<log[i], Occurrence(log, i)>>
LogKept(rs, time) ==
    lastLog.at = time =>
        \/ \A i \in DOMAIN lastLog.lines : HasLine(rs, lastLog.lines, i)
        \/ Cardinality(rs) >= MaxRows

-----------------------------------------------------------------------------
(* What an append does to a story                                           *)

(* The new verdict is the last, and the others stay where they were.        *)
LEMMA AppendToStory ==
    ASSUME NEW told \in Seq(Verdict), NEW v \in Verdicts, NEW time \in Times
    PROVE  LET new == Append(told, [verdict |-> v, at |-> time]) IN
           /\ new \in Seq(Verdict)
           /\ new # <<>> /\ Len(new) = Len(told) + 1
           /\ new[Len(new)] = [verdict |-> v, at |-> time]
           /\ \A i \in 1 .. Len(told) : new[i] = told[i]
<1> DEFINE e == [verdict |-> v, at |-> time]
<1>1. e \in Verdict
  BY DEF Verdict
<1> HIDE DEF e
<1>2. /\ Append(told, e) \in Seq(Verdict)
      /\ Append(told, e) # <<>> /\ Len(Append(told, e)) = Len(told) + 1
      /\ Append(told, e)[Len(Append(told, e))] = e
      /\ \A i \in 1 .. Len(told) : Append(told, e)[i] = told[i]
  BY <1>1
<1>. QED
  BY <1>2 DEF e

(* A story has finitely many turns.                                         *)
LEMMA TurnsAreFinite ==
    ASSUME NEW told \in Seq(Verdict)
    PROVE  IsFiniteSet(Turns(told)) /\ Cardinality(Turns(told)) \in Nat
<1>1. IsFiniteSet(2 .. Len(told))
  BY FS_Interval
<1>. QED
  BY <1>1, FS_Subset, FS_CardinalityType DEF Turns

(* A turn stays one, and a success after a failure is another.              *)
LEMMA TurnsOfAppend ==
    ASSUME NEW told \in Seq(Verdict), NEW v \in Verdicts, NEW time \in Times
    PROVE  LET new == Append(told, [verdict |-> v, at |-> time]) IN
           /\ Turns(told) \subseteq Turns(new)
           /\ \A i \in Turns(told) : new[i] = told[i]
           /\ v = None /\ LastFailed(told) =>
                 /\ Len(new) \in Turns(new)
                 /\ Cardinality(Turns(new)) >= Cardinality(Turns(told)) + 1
<1> DEFINE new == Append(told, [verdict |-> v, at |-> time])
<1>1. /\ new \in Seq(Verdict) /\ new # <<>> /\ Len(new) = Len(told) + 1
      /\ new[Len(new)] = [verdict |-> v, at |-> time]
      /\ \A i \in 1 .. Len(told) : new[i] = told[i]
  BY AppendToStory
<1> HIDE DEF new
<1>2. Turns(told) \subseteq Turns(new) /\ \A i \in Turns(told) : new[i] = told[i]
  BY <1>1 DEF Turns
<1>3. ASSUME v = None, LastFailed(told)
      PROVE  /\ Len(new) \in Turns(new)
             /\ Cardinality(Turns(new)) >= Cardinality(Turns(told)) + 1
  <2>1. Len(told) \in Nat \ {0}
    BY <1>3 DEF LastFailed
  <2>2. Len(new) \in Turns(new) /\ Len(new) \notin Turns(told)
    BY <1>1, <1>3, <2>1 DEF Turns, LastFailed
  <2>3. Cardinality(Turns(told) \cup {Len(new)}) = Cardinality(Turns(told)) + 1
    BY <2>2, TurnsAreFinite, FS_AddElement
  <2>4. Cardinality(Turns(told) \cup {Len(new)}) <= Cardinality(Turns(new))
    BY <1>1, <1>2, <2>2, TurnsAreFinite, FS_Subset
  <2>. QED
    BY <1>1, <2>2, <2>3, <2>4, TurnsAreFinite
<1>. QED
  BY <1>2, <1>3 DEF new

(* Recoveries stay real when the story goes on.                             *)
LEMMA RealAfterAppend ==
    ASSUME NEW told \in Seq(Verdict), NEW v \in Verdicts, NEW time \in Times,
           NEW shown, IsFiniteSet(shown), AreReal(shown, told)
    PROVE  AreReal(shown, Append(told, [verdict |-> v, at |-> time]))
<1> DEFINE new == Append(told, [verdict |-> v, at |-> time])
<1>1. new \in Seq(Verdict) /\ Turns(told) \subseteq Turns(new) /\ \A i \in Turns(told) : new[i] = told[i]
  BY AppendToStory, TurnsOfAppend
<1> HIDE DEF new
<1>2. Cardinality(Turns(told)) <= Cardinality(Turns(new))
  BY <1>1, TurnsAreFinite, FS_Subset
<1>3. Cardinality(shown) <= Cardinality(Turns(new))
  BY <1>1, <1>2, TurnsAreFinite, FS_CardinalityType DEF AreReal
<1>. QED
  BY <1>1, <1>3 DEF AreReal, new

(* So they do when some of them are deleted.                                *)
LEMMA RealSubset ==
    ASSUME NEW told \in Seq(Verdict), NEW shown, IsFiniteSet(shown), AreReal(shown, told),
           NEW rest \in SUBSET shown
    PROVE  AreReal(rest, told)
<1>1. Cardinality(rest) <= Cardinality(shown)
  BY FS_Subset
<1>2. IsFiniteSet(rest)
  BY FS_Subset
<1>. QED
  BY <1>1, <1>2, TurnsAreFinite, FS_CardinalityType DEF AreReal

(* A success after a failure makes room for one recovery more.              *)
LEMMA RealRecovery ==
    ASSUME NEW told \in Seq(Verdict), NEW time \in Times, LastFailed(told),
           NEW shown, IsFiniteSet(shown), AreReal(shown, told), NEW r, r.first = time
    PROVE  AreReal(shown \cup {r}, Append(told, [verdict |-> None, at |-> time]))
<1> DEFINE new == Append(told, [verdict |-> None, at |-> time])
<1>0. None \in Verdicts
  BY DEF Verdicts
<1>1. /\ new \in Seq(Verdict)
      /\ new[Len(new)] = [verdict |-> None, at |-> time]
  BY <1>0, AppendToStory
<1>2. /\ Turns(told) \subseteq Turns(new) /\ \A i \in Turns(told) : new[i] = told[i]
      /\ Len(new) \in Turns(new)
      /\ Cardinality(Turns(new)) >= Cardinality(Turns(told)) + 1
  BY <1>0, TurnsOfAppend
<1> HIDE DEF new
<1>3. /\ Cardinality(shown) \in Nat
      /\ Cardinality(shown \cup {r}) =
            IF r \in shown THEN Cardinality(shown) ELSE Cardinality(shown) + 1
  BY FS_AddElement, FS_CardinalityType
<1>4. Cardinality(shown \cup {r}) <= Cardinality(Turns(new))
  BY <1>1, <1>2, <1>3, TurnsAreFinite DEF AreReal
<1>5. \A s \in shown \cup {r} : \E i \in Turns(new) : new[i].at = s.first
  BY <1>1, <1>2 DEF AreReal
<1>. QED
  BY <1>4, <1>5 DEF AreReal, new

-----------------------------------------------------------------------------
(* What the steps of a transaction do to the table                          *)

(* Closing an incident changes its flag and nothing else.                   *)
LEMMA DeactivateFacts ==
    ASSUME NEW rs \in SUBSET Row, Distinct(rs), WellFormed(rs), NEW q
    PROVE  LET closed == Deactivate(rs, q) IN
           /\ WellFormed(closed)
           /\ Cardinality(closed) = Cardinality(rs)
           /\ \A r \in closed : r.active => r \in rs /\ r.query # q
           /\ \A r \in rs : r.active /\ r.query # q => r \in closed
           /\ \A p : Recoveries(closed, p) = Recoveries(rs, p)
           /\ \A r \in closed : \E s \in rs : r.last = s.last
           /\ \A s \in rs : \E r \in closed : r.kind = s.kind /\ r.dedup = s.dedup
<1> DEFINE Closed(r) == IF r \in ActiveRows(rs, q) THEN [r EXCEPT !.active = FALSE] ELSE r
           closed == Deactivate(rs, q)
           f == [r \in rs |-> Closed(r)]
<1>1. ASSUME NEW r \in rs
      PROVE  /\ Closed(r).id = r.id /\ Closed(r).query = r.query /\ Closed(r).dedup = r.dedup
             /\ Closed(r).kind = r.kind /\ Closed(r).last = r.last /\ Closed(r).cause = r.cause
             /\ Closed(r).active => r.active /\ r.query # q /\ Closed(r) = r
             /\ r.active /\ r.query # q => Closed(r) = r
             /\ r.kind = "recovery" \/ Closed(r).kind = "recovery" => Closed(r) = r
  BY DEF ActiveRows, Row, WellFormed
<1>2. closed = {Closed(r) : r \in rs}
  BY DEF Deactivate
<1>3. f \in Surjection(rs, closed)
  BY <1>2 DEF Surjection
<1>4. f \in Injection(rs, closed)
  <2>1. \A r, s \in rs : Closed(r) = Closed(s) => r = s
    <3> HIDE DEF Closed, closed, f
    <3>. QED
      BY <1>1 DEF Distinct
  <2> HIDE DEF Closed, closed
  <2>. QED
    BY <1>3, <2>1 DEF Injection, IsInjective, Surjection
<1>5. IsFiniteSet(closed) /\ Cardinality(closed) = Cardinality(rs)
  <2> HIDE DEF f, closed
  <2>. QED
    BY <1>3, <1>4, FS_Surjection DEF WellFormed
<1> HIDE DEF Closed, closed, f
<1>6. WellFormed(closed)
  BY <1>1, <1>2, <1>5 DEF WellFormed
<1>7. \A p : Recoveries(closed, p) = Recoveries(rs, p)
  BY <1>1, <1>2 DEF Recoveries
<1>8. /\ \A r \in closed : r.active => r \in rs /\ r.query # q
      /\ \A r \in rs : r.active /\ r.query # q => r \in closed
      /\ \A r \in closed : \E s \in rs : r.last = s.last
      /\ \A s \in rs : \E r \in closed : r.kind = s.kind /\ r.dedup = s.dedup
  BY <1>1, <1>2
<1>. QED
  BY <1>5, <1>6, <1>7, <1>8 DEF closed

\* The table has grown: rows were added, or touched at the time of the job.
Grows(rs, new, time) ==
    /\ IsFiniteSet(new) /\ Cardinality(rs) <= Cardinality(new)
    /\ \A r \in new : r.last = time \/ \E s \in rs : r.last = s.last
    /\ \A s \in rs : \E r \in new : r.kind = s.kind /\ r.dedup = s.dedup

(* A table that grows stays recent and keeps the lines it has.              *)
LEMMA GrowthKeeps ==
    ASSUME NEW rs \in SUBSET Row, IsFiniteSet(rs), NEW new \in SUBSET Row, NEW time \in Times,
           Grows(rs, new, time)
    PROVE  /\ Recent(rs, time) => Recent(new, time)
           /\ LogKept(rs, time) => LogKept(new, time)
           /\ \A log, i : HasLine(rs, log, i) => HasLine(new, log, i)
           /\ \A at \in Times : Gone(rs, time, at) /\ at <= time => Gone(new, time, at)
<1>1. Recent(rs, time) => Recent(new, time)
  BY LimitsAssumption DEF Recent, Grows, Times
<1>2. \A log, i : HasLine(rs, log, i) => HasLine(new, log, i)
  BY DEF Grows, HasLine
<1>3. Cardinality(rs) >= MaxRows => Cardinality(new) >= MaxRows
  BY LimitsAssumption, FS_CardinalityType DEF Grows
<1>4. LogKept(rs, time) => LogKept(new, time)
  BY <1>2, <1>3 DEF LogKept
<1>5. \A at \in Times : Gone(rs, time, at) /\ at <= time => Gone(new, time, at)
  BY <1>3 DEF Gone, Grows
<1>. QED
  BY <1>1, <1>2, <1>4, <1>5

(* The ways in which the table grows, see StoreRecord.                      *)
LEMMA InsertGrows ==
    ASSUME NEW rs \in SUBSET Row, IsFiniteSet(rs), NEW row, row.last = stamp
    PROVE  Grows(rs, rs \cup {row}, stamp)
<1>1. /\ Cardinality(rs) \in Nat /\ IsFiniteSet(rs \cup {row})
      /\ Cardinality(rs \cup {row}) =
            IF row \in rs THEN Cardinality(rs) ELSE Cardinality(rs) + 1
  BY FS_AddElement, FS_CardinalityType
<1>2. Cardinality(rs) <= Cardinality(rs \cup {row})
  BY <1>1
<1>. QED
  BY <1>1, <1>2 DEF Grows

(* A row takes the place of an open one that is closed.                     *)
LEMMA ReplaceGrows ==
    ASSUME NEW rs \in SUBSET Row, Distinct(rs), WellFormed(rs), NEW q, NEW row, row.last = stamp
    PROVE  Grows(rs, Deactivate(rs, q) \cup {row}, stamp)
<1> DEFINE closed == Deactivate(rs, q)
<1>1. closed \in SUBSET Row
  BY DeactivateType
<1>2. /\ IsFiniteSet(closed) /\ Cardinality(closed) = Cardinality(rs)
      /\ \A r \in closed : \E s \in rs : r.last = s.last
      /\ \A s \in rs : \E r \in closed : r.kind = s.kind /\ r.dedup = s.dedup
  BY DeactivateFacts DEF WellFormed
<1> HIDE DEF closed
<1>3. Grows(closed, closed \cup {row}, stamp)
  BY <1>1, <1>2, InsertGrows
<1>. QED
  BY <1>2, <1>3 DEF Grows, closed

(* A row is brought up to date.                                             *)
LEMMA TouchGrows ==
    ASSUME NEW rs \in SUBSET Row, IsFiniteSet(rs), NEW r \in rs, NEW row,
           Distinct(rs), row.id = r.id, row.last = stamp, row.kind = r.kind, row.dedup = r.dedup
    PROVE  Grows(rs, (rs \ {r}) \cup {row}, stamp)
<1>1. row \notin rs \ {r}
  BY DEF Distinct
<1>2. IsFiniteSet(rs \ {r}) /\ Cardinality(rs \ {r}) = Cardinality(rs) - 1
  BY FS_RemoveElement
<1> DEFINE new == (rs \ {r}) \cup {row}
<1>3. IsFiniteSet(new) /\ Cardinality(new) = Cardinality(rs) - 1 + 1
  <2> DEFINE rest == rs \ {r}
  <2> HIDE DEF rest
  <2>. QED
    BY <1>1, <1>2, FS_AddElement DEF rest
<1>4. Cardinality(rs) <= Cardinality(new)
  BY <1>3, FS_CardinalityType
<1>. QED
  BY <1>3, <1>4 DEF Grows

-----------------------------------------------------------------------------
(* The story of the open transaction                                        *)

\* What a table tells, if the queries have the stories S.
Tells(rs, S, time) ==
    /\ WellFormed(rs) /\ Truth(rs, S) /\ OpenOrGone(rs, S, time) /\ Real(rs, S)
    /\ Recent(rs, time) /\ LogKept(rs, time)
    /\ \A q \in Queries : \A i \in DOMAIN S[q] : S[q][i].at <= time

(* It is a story for each query.                                            *)
LEMMA ToldType ==
    ASSUME TypeOK, JobIsComplete
    PROVE  Told \in [Queries -> Seq(Verdict)]
<1> SUFFICES ASSUME NEW q \in Queries PROVE Told[q] \in Seq(Verdict)
  BY DEF Told
<1>1. story[q] \in Seq(Verdict)
  BY DEF TypeOK, Verdict
<1> DEFINE said == {i \in QueryRecordsOf(job, q) : i < pos}
<1>2. CASE phase = "open" /\ \E i \in QueryRecordsOf(job, q) : i < pos
  <2>1. (CHOOSE i \in QueryRecordsOf(job, q) : TRUE) \in QueryRecordsOf(job, q)
    BY <1>2
  <2>2. \A i \in QueryRecordsOf(job, q) : job.records[i] \in Records
    BY <1>2 DEF JobIsComplete, Complete, QueryRecordsOf
  <2>3. \A r \in Records : r.cause \in Verdicts
    BY DEF Records, QueryRecord, RouterRecord, Verdicts
  <2>4. CauseIn(job, q) \in Verdicts
    BY <2>1, <2>2, <2>3 DEF CauseIn
  <2>5. stamp \in Times
    BY DEF TypeOK
  <2>. QED
    BY <1>1, <1>2, <2>4, <2>5, AppendToStory DEF Told
<1>3. CASE ~(phase = "open" /\ \E i \in QueryRecordsOf(job, q) : i < pos)
  BY <1>1, <1>3 DEF Told
<1>. QED
  BY <1>2, <1>3

(* A record of a router line leaves the stories as they are, one of a query *)
(* adds its verdict to the story of the query.                              *)
LEMMA ToldStep ==
    ASSUME TypeOK, JobIsComplete, Once(job), Recording, NextRecord
    PROVE  /\ Record.kind = "router" => Told' = Told
           /\ Record.kind = "query" =>
                 Told' = [Told EXCEPT ![Record.query] =
                             Append(@, [verdict |-> Record.cause, at |-> stamp])]
<1>1. /\ phase' = phase /\ job' = job /\ stamp' = stamp /\ story' = story
      /\ pos' = pos + 1 /\ phase = "open" /\ pos \in Nat
  BY DEF NextRecord, Recording, TypeOK, history
<1>2. \A q \in Queries : QueryRecordsOf(job, q)' = QueryRecordsOf(job, q)
  BY <1>1 DEF QueryRecordsOf
<1>3. ASSUME NEW q \in Queries, ~(Record.kind = "query" /\ Record.query = q)
      PROVE  Told'[q] = Told[q]
  <2>1. \A i \in QueryRecordsOf(job, q) : i # pos /\ i \in Nat
    BY <1>3, <1>1 DEF QueryRecordsOf, Record, JobIsComplete, Complete
  <2>2. \A i \in QueryRecordsOf(job, q) : i < pos + 1 <=> i < pos
    BY <1>1, <2>1
  <2>. QED
    BY <1>1, <1>2, <2>2 DEF Told, CauseIn, QueryRecordsOf
<1>4. ASSUME NEW q \in Queries, Record.kind = "query", Record.query = q
      PROVE  Told'[q] = Append(Told[q], [verdict |-> Record.cause, at |-> stamp])
  <2>1. pos \in QueryRecordsOf(job, q)
    BY <1>4 DEF QueryRecordsOf, Record, Recording
  <2>2. QueryRecordsOf(job, q) = {pos}
    BY <2>1 DEF Once
  <2>3. Told[q] = story[q]
    BY <1>1, <2>2 DEF Told
  <2>4. CauseIn(job, q) = Record.cause
    BY <2>2 DEF CauseIn, Record
  <2>5. \E i \in QueryRecordsOf(job, q) : i < pos + 1
    BY <1>1, <2>1
  <2>. QED
    BY <1>1, <1>2, <2>3, <2>4, <2>5 DEF Told, CauseIn, QueryRecordsOf
<1>5. Told = [q \in Queries |-> Told[q]] /\ Told' = [q \in Queries |-> Told'[q]]
  BY DEF Told
<1>6. Record.kind = "query" => Record.query \in Queries
  BY RecordType
<1> HIDE DEF Told
<1>7. ASSUME Record.kind = "router" PROVE Told' = Told
  BY <1>3, <1>5, <1>7
<1>8. ASSUME Record.kind = "query"
      PROVE  Told' = [Told EXCEPT ![Record.query] =
                             Append(@, [verdict |-> Record.cause, at |-> stamp])]
  BY <1>3, <1>4, <1>5, <1>6, <1>8
<1>. QED
  BY <1>7, <1>8

-----------------------------------------------------------------------------
(* A story that is not empty ends with a verdict.                           *)
LEMMA LastOfStory ==
    ASSUME NEW told \in Seq(Verdict), told # <<>>
    PROVE  /\ Len(told) \in DOMAIN told
           /\ told[Len(told)].verdict \in Verdicts /\ told[Len(told)].at \in Times
<1>1. Len(told) \in DOMAIN told /\ told[Len(told)] \in Verdict
  OBVIOUS
<1>. QED
  BY <1>1 DEF Verdict

(* A router line is no incident and no recovery.                            *)
LEMMA LineTells ==
    ASSUME NEW rs \in SUBSET Row, NEW S \in [Queries -> Seq(Verdict)], stamp \in Times,
           Tells(rs, S, stamp), NEW row \in Row,
           row.kind = "router", row.active = FALSE, row.dedup # None, row.last = stamp
    PROVE  Tells(rs \cup {row}, S, stamp)
<1> DEFINE new == rs \cup {row}
<1>1. Grows(rs, new, stamp)
  BY InsertGrows DEF Tells, WellFormed
<1>2. /\ \A r \in new : r.active <=> r \in rs /\ r.active
      /\ \A q : ActiveRows(new, q) = ActiveRows(rs, q)
      /\ \A q : Recoveries(new, q) = Recoveries(rs, q)
  BY DEF ActiveRows, Recoveries
<1>3. WellFormed(new)
  BY <1>1 DEF Tells, WellFormed, Grows
<1>4. Recent(new, stamp) /\ LogKept(new, stamp)
  BY <1>1, GrowthKeeps DEF Tells, WellFormed
<1>5. OpenOrGone(new, S, stamp)
  <2> SUFFICES ASSUME NEW q \in Queries, LastFailed(S[q])
               PROVE  ActiveRows(new, q) # {} \/ Gone(new, stamp, S[q][Len(S[q])].at)
    BY DEF OpenOrGone
  <2>1. S[q][Len(S[q])].at \in Times /\ S[q][Len(S[q])].at <= stamp
    BY LastOfStory DEF Tells, LastFailed
  <2>2. ActiveRows(rs, q) # {} \/ Gone(rs, stamp, S[q][Len(S[q])].at)
    BY DEF OpenOrGone, Tells
  <2>3. new \in SUBSET Row /\ IsFiniteSet(rs)
    BY DEF Tells, WellFormed
  <2> HIDE DEF new
  <2>4. \A at \in Times : Gone(rs, stamp, at) /\ at <= stamp => Gone(new, stamp, at)
    BY <1>1, <2>3, GrowthKeeps
  <2>. QED
    BY <1>2, <2>1, <2>2, <2>4
<1>6. Truth(new, S) /\ Real(new, S)
  BY <1>2 DEF Tells, Truth, Real
<1>. QED
  BY <1>3, <1>4, <1>5, <1>6 DEF Tells

\* What the table has to do with a verdict on q.
Follows(rs, new, q, v, told) ==
    /\ \A r \in new : r.active => (r \in rs /\ r.query # q) \/ (r.query = q /\ IsTrue(r, told))
    /\ \A r \in rs : r.active /\ r.query # q => r \in new
    /\ v # None => ActiveRows(new, q) # {}
    /\ \A p \in Queries : p # q => Recoveries(new, p) = Recoveries(rs, p)
    /\ AreReal(Recoveries(new, q), told)

(* Then it tells the story with this verdict.                               *)
LEMMA VerdictTells ==
    ASSUME NEW rs \in SUBSET Row, NEW S \in [Queries -> Seq(Verdict)], stamp \in Times,
           Tells(rs, S, stamp), NEW q \in Queries, NEW v \in Verdicts, NEW told,
           told = Append(S[q], [verdict |-> v, at |-> stamp]),
           NEW S2, S2 = [S EXCEPT ![q] = told],
           NEW new \in SUBSET Row, WellFormed(new), Grows(rs, new, stamp),
           Follows(rs, new, q, v, told)
    PROVE  Tells(new, S2, stamp)
<1>1. S2[q] = told /\ \A p \in Queries : p # q => S2[p] = S[p]
  OBVIOUS
<1>2. S[q] \in Seq(Verdict)
  OBVIOUS
<1>3. /\ told \in Seq(Verdict) /\ told # <<>> /\ Len(told) = Len(S[q]) + 1
      /\ told[Len(told)] = [verdict |-> v, at |-> stamp]
      /\ \A i \in 1 .. Len(S[q]) : told[i] = S[q][i]
  BY <1>2, AppendToStory
<1>4. Truth(new, S2)
  <2> SUFFICES ASSUME NEW r \in new, r.active PROVE IsTrue(r, S2[r.query])
    BY DEF Truth
  <2>1. r.query \in Queries
    BY DEF WellFormed
  <2>. QED
    BY <1>1, <2>1 DEF Tells, Truth, Follows
<1>5. OpenOrGone(new, S2, stamp)
  <2> SUFFICES ASSUME NEW p \in Queries, LastFailed(S2[p])
               PROVE  ActiveRows(new, p) # {} \/ Gone(new, stamp, S2[p][Len(S2[p])].at)
    BY DEF OpenOrGone
  <2>1. CASE p = q
    BY <1>1, <1>3, <2>1 DEF LastFailed, Follows
  <2>2. CASE p # q
    <3>1. S[p] \in Seq(Verdict) /\ LastFailed(S[p]) /\ S2[p] = S[p]
      BY <1>1, <2>2
    <3>2. S[p][Len(S[p])].at \in Times /\ S[p][Len(S[p])].at <= stamp
      BY <3>1, LastOfStory DEF Tells, LastFailed
    <3>3. ActiveRows(rs, p) # {} => ActiveRows(new, p) # {}
      BY <2>2 DEF ActiveRows, Follows
    <3>4. ActiveRows(rs, p) # {} \/ Gone(rs, stamp, S[p][Len(S[p])].at)
      BY <3>1 DEF OpenOrGone, Tells
    <3>5. \A at \in Times : Gone(rs, stamp, at) /\ at <= stamp => Gone(new, stamp, at)
      BY GrowthKeeps DEF Tells, WellFormed
    <3>. QED
      BY <3>1, <3>2, <3>3, <3>4, <3>5
  <2>. QED
    BY <2>1, <2>2
<1>6. Real(new, S2)
  BY <1>1 DEF Tells, Real, Follows
<1>7. Recent(new, stamp) /\ LogKept(new, stamp)
  BY GrowthKeeps DEF Tells, WellFormed
<1>8. ASSUME NEW p \in Queries, NEW i \in DOMAIN S2[p] PROVE S2[p][i].at <= stamp
  <2>1. CASE p # q
    BY <1>1, <1>8, <2>1 DEF Tells
  <2>2. CASE p = q
    <3>1. i \in 1 .. Len(S[q]) \/ i = Len(told)
      BY <1>1, <1>3, <1>8, <2>2
    <3>2. i \in 1 .. Len(S[q]) => S[q][i].at <= stamp
      BY DEF Tells
    <3>3. stamp <= stamp
      BY LimitsAssumption DEF Times
    <3>. QED
      BY <1>1, <1>3, <2>2, <3>1, <3>2, <3>3
  <2>. QED
    BY <2>1, <2>2
<1>. QED
  BY <1>4, <1>5, <1>6, <1>7, <1>8 DEF Tells

-----------------------------------------------------------------------------
(* The four verdicts of store                                               *)

(* Nothing is open: the success leaves no trace.                            *)
LEMMA SuccessTells ==
    ASSUME NEW rs \in SUBSET Row, NEW S \in [Queries -> Seq(Verdict)], stamp \in Times,
           Tells(rs, S, stamp), NEW q \in Queries, ActiveRows(rs, q) = {}
    PROVE  Tells(rs, [S EXCEPT ![q] = Append(@, [verdict |-> None, at |-> stamp])], stamp)
<1> DEFINE told == Append(S[q], [verdict |-> None, at |-> stamp])
           S2 == [S EXCEPT ![q] = Append(@, [verdict |-> None, at |-> stamp])]
<1>1. Grows(rs, rs, stamp) /\ None \in Verdicts /\ S[q] \in Seq(Verdict)
  <2>1. IsFiniteSet(rs) /\ Cardinality(rs) \in Nat
    BY FS_CardinalityType DEF Tells, WellFormed
  <2>. QED
    BY <2>1 DEF Grows, Verdicts
<1>2. IsFiniteSet(Recoveries(rs, q))
  BY FS_Subset DEF Recoveries, Tells, WellFormed
<1>3. AreReal(Recoveries(rs, q), told)
  BY <1>1, <1>2, RealAfterAppend DEF Tells, Real
<1>4. \A r \in rs : r.active => r.query # q
  BY DEF ActiveRows
<1>5. WellFormed(rs)
  BY DEF Tells
<1>6. told = Append(S[q], [verdict |-> None, at |-> stamp]) /\ S2 = [S EXCEPT ![q] = told]
  OBVIOUS
<1> HIDE DEF told, S2
<1>7. Follows(rs, rs, q, None, told)
  BY <1>3, <1>4 DEF Follows
<1>8. Tells(rs, S2, stamp)
  BY <1>1, <1>5, <1>6, <1>7, VerdictTells
<1>. QED
  BY <1>8 DEF S2

(* An open incident is true, so the story has a failure that this success   *)
(* ends.                                                                    *)
LEMMA RecoveryTells ==
    ASSUME NEW rs \in SUBSET Row, NEW S \in [Queries -> Seq(Verdict)], stamp \in Times,
           Distinct(rs), Tells(rs, S, stamp), NEW q \in Queries, ActiveRows(rs, q) # {},
           NEW row \in Row, row.kind = "recovery", row.query = q, row.active = FALSE,
           row.first = stamp, row.last = stamp, row.dedup = None
    PROVE  Tells(Deactivate(rs, q) \cup {row},
                 [S EXCEPT ![q] = Append(@, [verdict |-> None, at |-> stamp])], stamp)
<1> DEFINE told == Append(S[q], [verdict |-> None, at |-> stamp])
           closed == Deactivate(rs, q)
           new == closed \cup {row}
           S2 == [S EXCEPT ![q] = Append(@, [verdict |-> None, at |-> stamp])]
<1>0. WellFormed(rs) /\ S[q] \in Seq(Verdict) /\ None \in Verdicts
  BY DEF Tells, Verdicts
<1>1. /\ WellFormed(closed) /\ closed \in SUBSET Row
      /\ \A r \in closed : r.active => r \in rs /\ r.query # q
      /\ \A r \in rs : r.active /\ r.query # q => r \in closed
      /\ \A p : Recoveries(closed, p) = Recoveries(rs, p)
  BY <1>0, DeactivateFacts, DeactivateType
<1>2. Grows(rs, new, stamp)
  BY <1>0, ReplaceGrows
<1>3. LastFailed(S[q])
  <2>1. PICK r \in rs : r.active /\ r.query = q
    BY DEF ActiveRows
  <2>2. IsTrue(r, S[q]) /\ r.cause # None
    BY <1>0, <2>1 DEF Tells, Truth, WellFormed
  <2>3. r.count \in 1 .. Len(S[q]) /\ Len(S[q]) \in Nat
    BY <1>0, <2>2 DEF IsTrue
  <2>. QED
    BY <2>2, <2>3 DEF IsTrue, LastFailed
<1> HIDE DEF told, closed
<1>4. IsFiniteSet(Recoveries(rs, q)) /\ AreReal(Recoveries(rs, q), S[q])
  BY <1>0, FS_Subset DEF Recoveries, Tells, Real, WellFormed
<1>5. AreReal(Recoveries(rs, q) \cup {row}, told)
  BY <1>0, <1>3, <1>4, RealRecovery DEF told
<1>6. /\ Recoveries(new, q) = Recoveries(rs, q) \cup {row}
      /\ \A p : p # q => Recoveries(new, p) = Recoveries(rs, p)
  BY <1>1 DEF Recoveries
<1>7. WellFormed(new)
  BY <1>1, <1>2 DEF WellFormed, Grows
<1>8. \A r \in new : r.active => r \in rs /\ r.query # q
  BY <1>1
<1> HIDE DEF new
<1>9. \A r \in rs : r.active /\ r.query # q => r \in new
  BY <1>1 DEF new
<1>10. new \in SUBSET Row
  BY <1>1 DEF new
<1>11. AreReal(Recoveries(new, q), told)
  BY <1>5, <1>6
<1>12. told = Append(S[q], [verdict |-> None, at |-> stamp]) /\ S2 = [S EXCEPT ![q] = told]
  BY DEF told
<1> HIDE DEF S2
<1>13. Follows(rs, new, q, None, told)
  BY <1>6, <1>8, <1>9, <1>11 DEF Follows
<1>14. Tells(new, S2, stamp)
  BY <1>0, <1>2, <1>7, <1>10, <1>12, <1>13, VerdictTells
<1>. QED
  BY <1>14 DEF new, closed, S2

-----------------------------------------------------------------------------
(* The same failure again: the incident counts one verdict more.            *)
LEMMA RepeatTells ==
    ASSUME NEW rs \in SUBSET Row, NEW S \in [Queries -> Seq(Verdict)], stamp \in Times,
           Distinct(rs), Tells(rs, S, stamp), NEW q \in Queries, NEW r \in ActiveRows(rs, q),
           NEW row \in Row, row.id = r.id, row.kind = r.kind, row.query = r.query,
           row.cause = r.cause, row.dedup = r.dedup, row.active = r.active, row.first = r.first,
           row.last = stamp, row.count = r.count + 1
    PROVE  Tells((rs \ {r}) \cup {row},
                 [S EXCEPT ![q] = Append(@, [verdict |-> r.cause, at |-> stamp])], stamp)
<1> DEFINE told == Append(S[q], [verdict |-> r.cause, at |-> stamp])
           new == (rs \ {r}) \cup {row}
           S2 == [S EXCEPT ![q] = Append(@, [verdict |-> r.cause, at |-> stamp])]
<1>0. /\ WellFormed(rs) /\ S[q] \in Seq(Verdict) /\ new \in SUBSET Row
      /\ r \in rs /\ r.active /\ r.query = q /\ r.kind = "query" /\ r.cause # None
      /\ r.cause \in Verdicts
  BY DEF Tells, ActiveRows, WellFormed, Row
<1>1. Grows(rs, new, stamp)
  BY <1>0, TouchGrows DEF WellFormed
<1>2. WellFormed(new)
  BY <1>0, <1>1 DEF WellFormed, Grows
<1>3. \A p : Recoveries(new, p) = Recoveries(rs, p)
  BY <1>0 DEF Recoveries
<1>4. AreReal(Recoveries(rs, q), told)
  <2>1. IsFiniteSet(Recoveries(rs, q)) /\ AreReal(Recoveries(rs, q), S[q])
    BY <1>0, FS_Subset DEF Recoveries, Tells, Real, WellFormed
  <2>. QED
    BY <1>0, <2>1, RealAfterAppend
<1>5. IsTrue(row, told)
  <2>1. IsTrue(r, S[q])
    BY <1>0 DEF Tells, Truth
  <2>2. /\ Len(told) = Len(S[q]) + 1 /\ told[Len(told)] = [verdict |-> r.cause, at |-> stamp]
        /\ \A i \in 1 .. Len(S[q]) : told[i] = S[q][i]
        /\ Len(S[q]) \in Nat
    BY <1>0, AppendToStory
  <2> HIDE DEF told
  <2>3. r.count \in 1 .. Len(S[q])
    BY <2>1 DEF IsTrue
  <2>4. ASSUME NEW i \in Len(told) - row.count + 1 .. Len(told) PROVE told[i].verdict = row.cause
    <3>1. i = Len(told) \/ i \in Len(S[q]) - r.count + 1 .. Len(S[q])
      BY <2>2, <2>3
    <3>. QED
      BY <2>1, <2>2, <2>3, <3>1 DEF IsTrue
  <2>5. told[Len(told) - row.count + 1].at = row.first
    <3>1. Len(told) - row.count + 1 = Len(S[q]) - r.count + 1
      BY <2>2, <2>3
    <3>2. Len(S[q]) - r.count + 1 \in 1 .. Len(S[q])
      BY <2>2, <2>3
    <3>. QED
      BY <2>1, <2>2, <3>1, <3>2 DEF IsTrue
  <2>6. row.count \in 1 .. Len(told)
    BY <2>2, <2>3
  <2>7. told[Len(told)].at = row.last
    BY <2>2
  <2>. QED
    BY <2>4, <2>5, <2>6, <2>7 DEF IsTrue
<1>6. /\ \A s \in new : s.active => (s \in rs /\ s.query # q) \/ (s.query = q /\ IsTrue(s, told))
      /\ \A s \in rs : s.active /\ s.query # q => s \in new
      /\ ActiveRows(new, q) # {}
  <2>1. \A s \in rs : s.active /\ s.query = q => s = r
    BY <1>0 DEF Distinct
  <2> HIDE DEF told
  <2>. QED
    BY <1>0, <1>5, <2>1 DEF ActiveRows
<1>7. told = Append(S[q], [verdict |-> r.cause, at |-> stamp]) /\ S2 = [S EXCEPT ![q] = told]
  OBVIOUS
<1> HIDE DEF told, new
<1>8. AreReal(Recoveries(new, q), told)
  BY <1>3, <1>4
<1> HIDE DEF S2
<1>9. Follows(rs, new, q, r.cause, told)
  BY <1>3, <1>6, <1>8 DEF Follows
<1>10. Tells(new, S2, stamp)
  BY <1>0, <1>1, <1>2, <1>7, <1>9, VerdictTells
<1>. QED
  BY <1>10 DEF S2, new

(* A first failure, or one of another cause: a new incident that counts it  *)
(* is open instead of what was.                                             *)
LEMMA FailureTells ==
    ASSUME NEW rs \in SUBSET Row, NEW S \in [Queries -> Seq(Verdict)], stamp \in Times,
           Distinct(rs), Tells(rs, S, stamp), NEW q \in Queries,
           NEW v \in Verdicts, v # None,
           NEW row \in Row, row.kind = "query", row.query = q, row.active = TRUE,
           row.cause = v, row.first = stamp, row.last = stamp, row.dedup = None, row.count = 1
    PROVE  Tells(Deactivate(rs, q) \cup {row},
                 [S EXCEPT ![q] = Append(@, [verdict |-> v, at |-> stamp])], stamp)
<1> DEFINE told == Append(S[q], [verdict |-> v, at |-> stamp])
           closed == Deactivate(rs, q)
           new == closed \cup {row}
           S2 == [S EXCEPT ![q] = Append(@, [verdict |-> v, at |-> stamp])]
<1>0. WellFormed(rs) /\ S[q] \in Seq(Verdict)
  BY DEF Tells
<1>1. /\ WellFormed(closed) /\ closed \in SUBSET Row
      /\ \A r \in closed : r.active => r \in rs /\ r.query # q
      /\ \A r \in rs : r.active /\ r.query # q => r \in closed
      /\ \A p : Recoveries(closed, p) = Recoveries(rs, p)
  BY <1>0, DeactivateFacts, DeactivateType
<1>2. Grows(rs, new, stamp)
  BY <1>0, ReplaceGrows
<1> HIDE DEF closed
<1>3. \A p : Recoveries(new, p) = Recoveries(rs, p)
  BY <1>1 DEF Recoveries
<1>4. AreReal(Recoveries(new, q), told)
  <2>1. IsFiniteSet(Recoveries(rs, q)) /\ AreReal(Recoveries(rs, q), S[q])
    BY <1>0, FS_Subset DEF Recoveries, Tells, Real, WellFormed
  <2>2. AreReal(Recoveries(rs, q), told)
    BY <1>0, <2>1, RealAfterAppend
  <2> HIDE DEF told, new
  <2>. QED
    BY <1>3, <2>2
<1>5. IsTrue(row, told)
  <2>1. /\ Len(told) \in Nat \ {0} /\ told[Len(told)] = [verdict |-> v, at |-> stamp]
    BY <1>0, AppendToStory
  <2> HIDE DEF told
  <2>2. row.count \in 1 .. Len(told) /\ Len(told) - row.count + 1 = Len(told)
    BY <2>1
  <2>. QED
    BY <2>1, <2>2 DEF IsTrue
<1>6. told = Append(S[q], [verdict |-> v, at |-> stamp]) /\ S2 = [S EXCEPT ![q] = told]
  OBVIOUS
<1> HIDE DEF told
<1>7. WellFormed(new) /\ new \in SUBSET Row
  BY <1>1, <1>2 DEF WellFormed, Grows
<1>8. /\ \A s \in new : s.active => (s \in rs /\ s.query # q) \/ (s.query = q /\ IsTrue(s, told))
      /\ \A s \in rs : s.active /\ s.query # q => s \in new
      /\ ActiveRows(new, q) # {}
  BY <1>1, <1>5 DEF ActiveRows
<1> HIDE DEF new
<1> HIDE DEF S2
<1>9. Follows(rs, new, q, v, told)
  BY <1>3, <1>4, <1>8 DEF Follows
<1>10. Tells(new, S2, stamp)
  BY <1>0, <1>2, <1>6, <1>7, <1>9, VerdictTells
<1>. QED
  BY <1>10 DEF S2, new, closed

-----------------------------------------------------------------------------
(* Jobs that hold together, and the records of one                          *)

\* The job of a poll begins with the lines of its log.
HasLog(j) ==
    /\ Len(j.log) < Len(j.records)
    /\ \A i \in DOMAIN j.log : j.records[i] = RouterRecord(<<j.log[i], Occurrence(j.log, i)>>)
WellMade(j) == Once(j) /\ (j.poll => HasLog(j))

TimesGrow == LastStore <= now /\ lastLog.at <= LastStore
TableTells == Cardinality(rows) <= MaxRows /\ Tells(rows, story, LastStore)
WorkTells ==
    phase = "open" =>
        /\ WellMade(job)
        /\ pos \in 1 .. Len(job.records) + 1
        /\ LastStore <= stamp /\ stamp <= now
        /\ Tells(work, Told, stamp)
        /\ job.poll => \A i \in DOMAIN job.log : i < pos => HasLine(work, job.log, i)

StoryInv == TimesGrow /\ TableTells /\ WorkTells

-----------------------------------------------------------------------------
(* A poll: the lines of the log, then the one verdict on the poller.        *)
LEMMA PollJobIsWellMade == ASSUME NEW log \in Logs PROVE WellMade(PollJob(log))
<1> DEFINE lines == RouterRecords(log)
           last == QueryRecord(PollerQuery, None)
           j == PollJob(log)
<1>1. /\ log \in Seq(Lines) /\ lines \in Seq(Records)
      /\ \A i \in DOMAIN lines : lines[i].kind = "router"
  BY RouterRecordsType
<1>2. /\ DOMAIN lines = DOMAIN log
      /\ \A i \in DOMAIN log : lines[i] = RouterRecord(<<log[i], Occurrence(log, i)>>)
  BY DEF RouterRecords
<1>3. j.records = Append(lines, last) /\ j.log = log
  BY DEF PollJob
<1> HIDE DEF lines, last, j
<1>4. /\ Len(lines) = Len(log) /\ Len(j.records) = Len(log) + 1
      /\ DOMAIN j.records = 1 .. Len(log) + 1
      /\ \A i \in DOMAIN log : j.records[i] = lines[i]
  BY <1>1, <1>2, <1>3
<1>5. HasLog(j)
  BY <1>1, <1>2, <1>3, <1>4 DEF HasLog
<1>6. \A q : \A i \in QueryRecordsOf(j, q) : i = Len(log) + 1
  BY <1>1, <1>2, <1>4 DEF QueryRecordsOf
<1>. QED
  BY <1>5, <1>6 DEF WellMade, Once, j

(* A poll that failed: one verdict.                                         *)
LEMMA FailedPollJobIsWellMade ==
    ASSUME NEW cause \in Causes PROVE WellMade(FailedPollJob(cause))
<1> DEFINE j == FailedPollJob(cause)
<1>1. DOMAIN j.records = {1} /\ j.poll = FALSE
  BY DEF FailedPollJob
<1> HIDE DEF j
<1>. QED
  BY <1>1 DEF WellMade, Once, QueryRecordsOf, j

(* A collector lists no definition twice.                                   *)
LEMMA ScrapeJobIsWellMade ==
    ASSUME NEW c \in Collectors, NEW verdict \in [DOMAIN Definitions[c] -> Verdicts]
    PROVE  WellMade(ScrapeJob(c, verdict))
<1> DEFINE j == ScrapeJob(c, verdict)
<1>1. /\ DOMAIN j.records = DOMAIN Definitions[c] /\ j.poll = FALSE
      /\ \A i \in DOMAIN Definitions[c] : j.records[i].query = Definitions[c][i]
  BY DEF ScrapeJob, QueryRecord
<1>2. \A i, k \in DOMAIN Definitions[c] : Definitions[c][i] = Definitions[c][k] => i = k
  BY DefinitionsAssumption DEF IsInjective
<1> HIDE DEF j
<1>. QED
  BY <1>1, <1>2 DEF WellMade, Once, QueryRecordsOf, j

(* What a record does to the table agrees with what it adds to the story.   *)
LEMMA RecordTells ==
    ASSUME IInv, StoryInv, StoreRecord
    PROVE  Tells(work, Told, stamp) /\ Grows(work, work', stamp) /\ Tells(work', Told', stamp)
<1>0. /\ Recording /\ NextRecord /\ phase = "open"
  BY DEF StoreRecord, StoreLine, StoreSuccess, StoreRecovery, StoreRepeat, StoreFailure,
         Succeeded, Failed, Recording
<1>1. /\ work \in SUBSET Row /\ Distinct(work) /\ stamp \in Times /\ TypeOK /\ JobIsComplete
  BY DEF IInv, TypeOK, KeysAreUnique, Distinct
<1>2. Tells(work, Told, stamp) /\ Once(job) /\ IsFiniteSet(work) /\ WellFormed(work)
  BY <1>0 DEF StoryInv, WorkTells, WellMade, Tells, WellFormed
<1>3. Told \in [Queries -> Seq(Verdict)]
  BY <1>1, ToldType
<1>4. /\ Record.kind = "router" => Told' = Told
      /\ Record.kind = "query" =>
            Told' = [Told EXCEPT ![Record.query] =
                        Append(@, [verdict |-> Record.cause, at |-> stamp])]
  BY <1>0, <1>1, <1>2, ToldStep
<1>5. /\ Record \in Records
      /\ Record.kind = "router" => Record.dedup \in Dedups
      /\ Record.kind = "query" => Record.dedup = None /\ Record.query \in Queries
  BY <1>0, <1>1, RecordType
<1>6. Record.cause \in Verdicts
  BY <1>5 DEF Records, QueryRecord, RouterRecord, Verdicts
<1>7. Grows(work, work, stamp)
  BY <1>2, FS_CardinalityType DEF Grows
<1>8. \A id \in 1 .. MaxId : id \in Nat
  BY LimitsAssumption
<1>9. CASE StoreLine
  <2>1. Record.kind = "router" /\ Record.dedup # None
    BY <1>5, <1>9, NoneAssumption DEF StoreLine
  <2>2. CASE UNCHANGED work
    BY <1>2, <1>4, <1>7, <2>1, <2>2
  <2>3. CASE ~UNCHANGED work
    <3>1. PICK id \in 1 .. MaxId : work' = work \cup {NewRow(id, "router", Record, FALSE)}
      BY <1>9, <2>3 DEF StoreLine
    <3> DEFINE row == NewRow(id, "router", Record, FALSE)
    <3>2. row \in Row
      BY <1>1, <1>5, <1>8, NewRowType
    <3>3. /\ row.kind = "router" /\ row.active = FALSE /\ row.last = stamp
          /\ row.dedup = Record.dedup
      BY DEF NewRow
    <3> HIDE DEF row
    <3>4. Tells(work \cup {row}, Told, stamp)
      BY <1>1, <1>2, <1>3, <2>1, <3>2, <3>3, LineTells
    <3>5. Grows(work, work \cup {row}, stamp)
      BY <1>1, <1>2, <3>3, InsertGrows
    <3>. QED
      BY <1>2, <1>4, <2>1, <3>1, <3>4, <3>5 DEF row
  <2>. QED
    BY <2>2, <2>3
<1>10. CASE StoreSuccess
  <2>1. work' = work /\ Record.kind = "query" /\ Record.cause = None
        /\ ActiveRows(work, Record.query) = {}
    BY <1>10 DEF StoreSuccess, Succeeded, Active
  <2>. QED
    BY <1>1, <1>2, <1>3, <1>4, <1>5, <1>7, <2>1, SuccessTells
<1>11. CASE StoreRecovery
  <2>1. Record.kind = "query" /\ Record.cause = None /\ ActiveRows(work, Record.query) # {}
    BY <1>11 DEF StoreRecovery, Succeeded, Active
  <2>2. PICK id \in 1 .. MaxId :
           work' = Deactivate(work, Record.query) \cup {NewRow(id, "recovery", Record, FALSE)}
    BY <1>11 DEF StoreRecovery
  <2> DEFINE row == NewRow(id, "recovery", Record, FALSE)
  <2>3. row \in Row
    BY <1>1, <1>5, <1>8, NewRowType
  <2>4. /\ row.kind = "recovery" /\ row.query = Record.query /\ row.active = FALSE
        /\ row.first = stamp /\ row.last = stamp /\ row.dedup = None
    BY <1>5, <2>1 DEF NewRow
  <2> HIDE DEF row
  <2>5. Tells(Deactivate(work, Record.query) \cup {row},
              [Told EXCEPT ![Record.query] = Append(@, [verdict |-> None, at |-> stamp])], stamp)
    BY <1>1, <1>2, <1>3, <1>5, <2>1, <2>3, <2>4, RecoveryTells
  <2>6. Grows(work, Deactivate(work, Record.query) \cup {row}, stamp)
    BY <1>1, <1>2, <2>4, ReplaceGrows
  <2>. QED
    BY <1>2, <1>4, <2>1, <2>2, <2>5, <2>6 DEF row
<1>12. CASE StoreRepeat
  <2>1. Record.kind = "query"
    BY <1>12 DEF StoreRepeat, Failed
  <2>2. PICK r \in ActiveRows(work, Record.query) :
           /\ r.cause = Record.cause
           /\ work' = (work \ {r}) \cup {[r EXCEPT !.last = stamp, !.count = @ + 1]}
    BY <1>12 DEF StoreRepeat, Active
  <2>3. r \in work /\ r \in Row
    BY <1>1 DEF ActiveRows
  <2> DEFINE row == [r EXCEPT !.last = stamp, !.count = @ + 1]
  <2>4. /\ row.id = r.id /\ row.kind = r.kind /\ row.query = r.query
        /\ row.cause = r.cause /\ row.dedup = r.dedup /\ row.active = r.active
        /\ row.first = r.first /\ row.last = stamp /\ row.count = r.count + 1
    BY <2>3 DEF Row
  <2>5. row \in Row
    <3> DEFINE seen == [r EXCEPT !.last = stamp]
    <3>1. seen \in Row /\ seen.count = r.count
      BY <1>1, <2>3 DEF Row
    <3>2. row = [seen EXCEPT !.count = r.count + 1]
      OBVIOUS
    <3>3. r.count + 1 \in Nat
      BY <2>3 DEF Row
    <3> HIDE DEF seen, row
    <3>. QED
      BY <3>1, <3>2, <3>3 DEF Row
  <2> HIDE DEF row
  <2>6. Tells((work \ {r}) \cup {row},
              [Told EXCEPT ![Record.query] = Append(@, [verdict |-> r.cause, at |-> stamp])], stamp)
    BY <1>1, <1>2, <1>3, <1>5, <2>1, <2>4, <2>5, RepeatTells
  <2>7. Grows(work, (work \ {r}) \cup {row}, stamp)
    BY <1>1, <1>2, <2>3, <2>4, TouchGrows
  <2>. QED
    BY <1>2, <1>4, <2>1, <2>2, <2>6, <2>7 DEF row
<1>13. CASE StoreFailure
  <2>1. Record.kind = "query" /\ Record.cause # None
    BY <1>13 DEF StoreFailure, Failed
  <2>2. PICK id \in 1 .. MaxId :
           work' = Deactivate(work, Record.query) \cup {NewRow(id, "query", Record, TRUE)}
    BY <1>13 DEF StoreFailure
  <2> DEFINE row == NewRow(id, "query", Record, TRUE)
  <2>3. row \in Row
    BY <1>1, <1>5, <1>8, NewRowType
  <2>4. /\ row.kind = "query" /\ row.query = Record.query /\ row.active = TRUE
        /\ row.cause = Record.cause
        /\ row.first = stamp /\ row.last = stamp /\ row.dedup = None /\ row.count = 1
    BY <1>5, <2>1 DEF NewRow
  <2> HIDE DEF row
  <2>5. Tells(Deactivate(work, Record.query) \cup {row},
              [Told EXCEPT ![Record.query] = Append(@, [verdict |-> Record.cause, at |-> stamp])],
              stamp)
    BY <1>1, <1>2, <1>3, <1>5, <1>6, <2>1, <2>3, <2>4, FailureTells
  <2>6. Grows(work, Deactivate(work, Record.query) \cup {row}, stamp)
    BY <1>1, <1>2, <2>4, ReplaceGrows
  <2>. QED
    BY <1>2, <1>4, <2>1, <2>2, <2>5, <2>6 DEF row
<1>. QED
  BY <1>9, <1>10, <1>11, <1>12, <1>13 DEF StoreRecord

-----------------------------------------------------------------------------
(* Retention, the limit, and the start of a job                             *)

(* The rows past their retention go: what they told is due for removal.     *)
LEMMA ExpiryTells ==
    ASSUME NEW rs \in SUBSET Row, NEW S \in [Queries -> Seq(Verdict)],
           NEW past \in Times, NEW time \in Times, past <= time, lastLog.at <= past,
           lastLog.at \in Times, Tells(rs, S, past)
    PROVE  Tells(Unexpired(rs, time), S, time)
<1> DEFINE new == Unexpired(rs, time)
<1>0. Retention \in Nat /\ past \in Int /\ time \in Int /\ \A r \in rs : r.last \in Int
  BY LimitsAssumption DEF Times, Row
<1>1. new \subseteq rs /\ \A r \in rs : r \in new <=> r.last >= time - Retention
  BY DEF Unexpired
<1> HIDE DEF new
<1>2. /\ IsFiniteSet(rs) /\ WellFormed(rs) /\ Truth(rs, S) /\ OpenOrGone(rs, S, past)
      /\ Real(rs, S) /\ Recent(rs, past) /\ LogKept(rs, past)
      /\ \A q \in Queries : \A i \in DOMAIN S[q] : S[q][i].at <= past
  BY DEF Tells, WellFormed
<1>3. WellFormed(new) /\ Truth(new, S)
  BY <1>1, <1>2, FS_Subset DEF WellFormed, Truth
<1>4. Recent(new, time)
  BY <1>0, <1>1, <1>2 DEF Recent
<1>5. Real(new, S)
  <2> SUFFICES ASSUME NEW q \in Queries PROVE AreReal(Recoveries(new, q), S[q])
    BY DEF Real
  <2>1. Recoveries(new, q) \in SUBSET Recoveries(rs, q) /\ IsFiniteSet(Recoveries(rs, q))
    BY <1>1, <1>2, FS_Subset DEF Recoveries
  <2>. QED
    BY <1>2, <2>1, RealSubset DEF Real
<1>6. LogKept(new, time)
  <2> SUFFICES ASSUME lastLog.at = time
               PROVE  /\ lastLog.at = past /\ new = rs
    BY <1>2 DEF LogKept
  <2>1. past = time
    BY <1>0
  <2>. QED
    BY <1>0, <1>1, <1>2, <2>1 DEF Recent
<1>7. OpenOrGone(new, S, time)
  <2> SUFFICES ASSUME NEW q \in Queries, LastFailed(S[q])
               PROVE  ActiveRows(new, q) # {} \/ Gone(new, time, S[q][Len(S[q])].at)
    BY DEF OpenOrGone
  <2> DEFINE at == S[q][Len(S[q])].at
  <2>1. at \in Int
    BY LastOfStory DEF LastFailed, Times
  <2>2. CASE ActiveRows(rs, q) # {}
    <3>1. PICK r \in rs : r.active /\ r.query = q
      BY <2>2 DEF ActiveRows
    <3>2. at = r.last
      BY <1>2, <3>1 DEF Truth, IsTrue
    <3>. QED
      BY <1>0, <1>1, <3>1, <3>2 DEF ActiveRows, Gone
  <2>3. CASE Gone(rs, past, at)
    <3>1. CASE new = rs
      BY <1>0, <2>1, <2>3, <3>1 DEF Gone
    <3>2. CASE new # rs
      <4>1. PICK r \in rs : r \notin new
        BY <1>1, <3>2
      <4>2. r.last < time - Retention
        BY <1>0, <1>1, <4>1
      <4>. QED
        BY <1>0, <2>1, <2>3, <4>2 DEF Gone
    <3>. QED
      BY <3>1, <3>2
  <2>. QED
    BY <1>2, <2>2, <2>3 DEF OpenOrGone
<1>8. \A q \in Queries : \A i \in DOMAIN S[q] : S[q][i].at <= time
  <2> SUFFICES ASSUME NEW q \in Queries, NEW i \in DOMAIN S[q] PROVE S[q][i].at <= time
    OBVIOUS
  <2>1. S[q][i] \in Verdict
    OBVIOUS
  <2>2. S[q][i].at \in Int /\ S[q][i].at <= past
    BY <1>2, <2>1 DEF Verdict, Times
  <2>. QED
    BY <1>0, <2>2
<1>. QED
  BY <1>3, <1>4, <1>5, <1>6, <1>7, <1>8 DEF Tells, new

(* The rows beyond the limit go: what is left is full, and newer.           *)
LEMMA TrimTells ==
    ASSUME NEW rs \in SUBSET Row, NEW S \in [Queries -> Seq(Verdict)], NEW time \in Times,
           Distinct(rs), Tells(rs, S, time)
    PROVE  LET new == Newest(rs) IN
           /\ Cardinality(new) <= MaxRows
           /\ WellFormed(new) /\ Truth(new, S) /\ OpenOrGone(new, S, time)
           /\ Real(new, S) /\ Recent(new, time)
           /\ new = rs \/ Cardinality(new) >= MaxRows
           /\ Cardinality(rs) >= MaxRows => Cardinality(new) >= MaxRows
<1> DEFINE new == Newest(rs)
<1>1. /\ WellFormed(rs) /\ Truth(rs, S) /\ OpenOrGone(rs, S, time)
      /\ Real(rs, S) /\ Recent(rs, time) /\ IsFiniteSet(rs)
  BY DEF Tells, WellFormed
<1>2. /\ \A r \in rs \ new, s \in new : Newer(s, r)
      /\ Cardinality(new) <= MaxRows
      /\ new = rs \/ Cardinality(new) = MaxRows
  BY <1>1, NewestAreKept
<1>3. new \subseteq rs
  BY DEF Newest
<1>4. MaxRows \in Nat /\ \A r \in rs : r.last \in Int
  BY LimitsAssumption DEF Times, Row
<1> HIDE DEF new
<1>5. /\ new = rs \/ Cardinality(new) >= MaxRows
      /\ Cardinality(rs) >= MaxRows => Cardinality(new) >= MaxRows
  BY <1>2, <1>4
<1>6. WellFormed(new) /\ Truth(new, S) /\ Recent(new, time)
  BY <1>1, <1>3, FS_Subset DEF WellFormed, Truth, Recent
<1>7. Real(new, S)
  <2> SUFFICES ASSUME NEW q \in Queries PROVE AreReal(Recoveries(new, q), S[q])
    BY DEF Real
  <2>1. Recoveries(new, q) \in SUBSET Recoveries(rs, q) /\ IsFiniteSet(Recoveries(rs, q))
    BY <1>1, <1>3, FS_Subset DEF Recoveries
  <2>. QED
    BY <1>1, <2>1, RealSubset DEF Real
<1>8. OpenOrGone(new, S, time)
  <2> SUFFICES ASSUME NEW q \in Queries, LastFailed(S[q])
               PROVE  ActiveRows(new, q) # {} \/ Gone(new, time, S[q][Len(S[q])].at)
    BY DEF OpenOrGone
  <2> DEFINE at == S[q][Len(S[q])].at
  <2>1. CASE ActiveRows(rs, q) # {}
    <3>1. PICK r \in rs : r.active /\ r.query = q
      BY <2>1 DEF ActiveRows
    <3>2. at = r.last
      BY <1>1, <3>1 DEF Truth, IsTrue
    <3>3. CASE r \in new
      BY <3>1, <3>3 DEF ActiveRows
    <3>4. CASE r \notin new
      <4>1. \A s \in new : s.last >= r.last
        BY <1>2, <1>3, <1>4, <3>4 DEF Newer
      <4>2. Cardinality(new) >= MaxRows
        BY <1>5, <3>4
      <4>. QED
        BY <3>2, <4>1, <4>2 DEF Gone
    <3>. QED
      BY <3>3, <3>4
  <2>2. CASE Gone(rs, time, at)
    BY <1>3, <1>5, <2>2 DEF Gone
  <2>. QED
    BY <1>1, <2>1, <2>2 DEF OpenOrGone
<1>. QED
  BY <1>2, <1>5, <1>6, <1>7, <1>8 DEF new

-----------------------------------------------------------------------------
(* The time of the last committed job is a time.                            *)
LEMMA LastStoreType == ASSUME TypeOK PROVE LastStore \in Times
<1>1. commits \in Seq(Times) /\ 0 \in Times
  BY LimitsAssumption DEF TypeOK, Times
<1>. QED
  BY <1>1 DEF LastStore

(* The empty archive tells nothing.                                         *)
LEMMA StoryHoldsInitially == Init => StoryInv
<1> SUFFICES ASSUME Init PROVE StoryInv
  OBVIOUS
<1> USE LimitsAssumption
<1>1. IsFiniteSet({}) /\ Cardinality({}) = 0 /\ LastStore = 0
  BY FS_EmptySet DEF Init, LastStore
<1>2. TimesGrow /\ WorkTells
  BY <1>1 DEF Init, TimesGrow, WorkTells
<1>3. /\ WellFormed(rows) /\ Truth(rows, story) /\ OpenOrGone(rows, story, LastStore)
      /\ Recent(rows, LastStore) /\ LogKept(rows, LastStore)
      /\ \A q \in Queries : \A i \in DOMAIN story[q] : story[q][i].at <= LastStore
  BY <1>1 DEF Init, WellFormed, Truth, OpenOrGone, LastFailed, Recent, LogKept
<1>4. Real(rows, story)
  <2> SUFFICES ASSUME NEW q \in Queries PROVE AreReal(Recoveries({}, q), <<>>)
    BY DEF Init, Real
  <2> DEFINE shown == Recoveries({}, q)
             turns == Cardinality(Turns(<<>>))
  <2>1. shown = {} /\ Cardinality(shown) = 0
    BY <1>1 DEF Recoveries
  <2>2. <<>> \in Seq(Verdict)
    OBVIOUS
  <2>3. turns \in Nat
    BY <2>2, TurnsAreFinite
  <2>4. AreReal(shown, <<>>) <=>
            (\A r \in shown : \E i \in Turns(<<>>) : <<>>[i].at = r.first) /\ Cardinality(shown) <= turns
    BY DEF AreReal
  <2> HIDE DEF shown, turns
  <2>5. AreReal(shown, <<>>)
    BY <2>1, <2>3, <2>4
  <2>. QED
    BY <2>5 DEF shown
<1>. QED
  BY <1>1, <1>2, <1>3, <1>4 DEF StoryInv, TableTells, Tells, Init

(* A transaction begins with the committed table, less what has expired.    *)
LEMMA BeginKeepsStory ==
    ASSUME IInv, StoryInv, NEW j, Complete(j), WellMade(j), Begin(j)
    PROVE  StoryInv'
<1>1. /\ UNCHANGED <<rows, lastPoll, now, commits, story, lastLog>>
      /\ phase' = "open" /\ job' = j /\ pos' = 1 /\ stamp' = now /\ work' = Unexpired(rows, now)
  BY DEF Begin, history
<1>2. TimesGrow' /\ TableTells'
  BY <1>1 DEF StoryInv, TimesGrow, TableTells, LastStore, Tells, LogKept
<1>3. TypeOK /\ LastStore \in Times /\ now \in Times /\ lastLog.at \in Times
  BY LastStoreType DEF IInv, TypeOK
<1>4. story \in [Queries -> Seq(Verdict)] /\ rows \in SUBSET Row
  BY <1>3 DEF TypeOK, Verdict
<1>5. Tells(Unexpired(rows, now), story, now)
  BY <1>3, <1>4, ExpiryTells DEF StoryInv, TimesGrow, TableTells
<1>6. Told' = story
  <2>1. \A q \in Queries : \A i \in QueryRecordsOf(job', q) : ~(i < 1)
    BY <1>1 DEF QueryRecordsOf, Complete
  <2>2. Told' = [q \in Queries |-> story[q]]
    BY <1>1, <2>1 DEF Told
  <2>. QED
    BY <1>4, <2>2
<1>7. Tells(work, Told, stamp)'
  BY <1>1, <1>5, <1>6 DEF Tells, LogKept
<1>8. WorkTells'
  <2>1. WellMade(job)'
    BY <1>1 DEF WellMade, Once, HasLog, QueryRecordsOf
  <2>2. 1 \in 1 .. Len(j.records) + 1
    BY DEF Complete
  <2>3. LastStore' <= now /\ now <= now
    BY <1>1, <1>3 DEF StoryInv, TimesGrow, LastStore, Times
  <2>4. (job.poll => \A i \in DOMAIN job.log : i < pos => HasLine(work, job.log, i))'
    BY <1>1 DEF Complete
  <2>. QED
    BY <1>1, <1>7, <2>1, <2>2, <2>3, <2>4 DEF WorkTells
<1>. QED
  BY <1>2, <1>8 DEF StoryInv

(* Every job of the writer is made well.                                    *)
LEMMA BeginAnyKeepsStory == ASSUME IInv, StoryInv, BeginAny PROVE StoryInv'
  BY BeginKeepsStory, PollJobIsComplete, FailedPollJobIsComplete, ScrapeJobIsComplete,
     PollJobIsWellMade, FailedPollJobIsWellMade, ScrapeJobIsWellMade DEF BeginAny

-----------------------------------------------------------------------------
(* The steps keep it                                                        *)

(* A record of the job: what the table tells goes as far as the story does, *)
(* and of a log the lines so far are there.                                 *)
LEMMA RecordKeepsStory == ASSUME IInv, StoryInv, StoreRecord PROVE StoryInv'
<1>0. /\ Recording /\ NextRecord /\ phase = "open"
  BY DEF StoreRecord, StoreLine, StoreSuccess, StoreRecovery, StoreRepeat, StoreFailure,
         Succeeded, Failed, Recording
<1>1. /\ UNCHANGED <<rows, lastPoll, now, phase, job, stamp, commits, story, lastLog>>
      /\ pos' = pos + 1 /\ pos \in DOMAIN job.records
  BY <1>0 DEF NextRecord, Recording, history
<1>2. Complete(job) /\ WellMade(job) /\ TypeOK
  BY <1>0 DEF IInv, JobIsComplete, StoryInv, WorkTells
<1>3. TimesGrow' /\ TableTells'
  BY <1>1 DEF StoryInv, TimesGrow, TableTells, LastStore, Tells, LogKept
<1>4. Tells(work, Told, stamp)'
  BY <1>1, RecordTells DEF Tells, LogKept
<1>5. (pos \in 1 .. Len(job.records) + 1)'
  BY <1>1, <1>2 DEF Complete
<1>6. WellMade(job)'
  BY <1>1, <1>2 DEF WellMade, Once, HasLog, QueryRecordsOf
<1>7. ASSUME job.poll, NEW i \in DOMAIN job.log, i < pos + 1
      PROVE  HasLine(work', job.log, i)
  <2>1. i \in Nat /\ pos \in Nat /\ IsFiniteSet(work) /\ work \in SUBSET Row
    BY <1>2, <1>0 DEF IInv, TypeOK, Complete, StoryInv, WorkTells, Tells, WellFormed
  <2>2. CASE i < pos
    <3>1. HasLine(work, job.log, i)
      BY <1>0, <1>7, <2>2 DEF StoryInv, WorkTells
    <3>2. Grows(work, work', stamp)
      BY RecordTells
    <3>. QED
      BY <3>1, <3>2 DEF HasLine, Grows
  <2>3. CASE i = pos
    <3> DEFINE key == <<job.log[i], Occurrence(job.log, i)>>
    <3>1. Record = RouterRecord(key)
      BY <1>2, <1>7, <2>3 DEF WellMade, HasLog, Record
    <3>2. Record.kind = "router" /\ Record.dedup = key
      BY <3>1 DEF RouterRecord
    <3>3. StoreLine
      BY <3>2 DEF StoreRecord, StoreSuccess, StoreRecovery, StoreRepeat, StoreFailure,
                  Succeeded, Failed
    <3>4. key # None
      BY <1>0, <1>2, <3>2, RecordType, NoneAssumption
    <3> HIDE DEF key
    <3>5. \E r \in work' : r.kind = "router" /\ r.dedup = key
      <4>1. CASE \E r \in work : r.dedup = Record.dedup
        <5>1. work' = work
          BY <3>3, <4>1 DEF StoreLine
        <5>2. WellFormed(work)
          BY <1>0 DEF StoryInv, WorkTells, Tells
        <5>. QED
          BY <3>2, <3>4, <4>1, <5>1, <5>2 DEF WellFormed
      <4>2. CASE ~\E r \in work : r.dedup = Record.dedup
        <5>1. PICK id \in 1 .. MaxId : work' = work \cup {NewRow(id, "router", Record, FALSE)}
          BY <3>3, <4>2 DEF StoreLine
        <5>2. /\ NewRow(id, "router", Record, FALSE).kind = "router"
              /\ NewRow(id, "router", Record, FALSE).dedup = key
          BY <3>2 DEF NewRow
        <5>. QED
          BY <5>1, <5>2
      <4>. QED
        BY <4>1, <4>2
    <3>. QED
      BY <3>5 DEF HasLine, key
  <2>. QED
    BY <1>7, <1>1, <2>1, <2>2, <2>3
<1>8. LastStore' <= stamp' /\ stamp' <= now'
  BY <1>0, <1>1 DEF StoryInv, WorkTells, LastStore
<1>9. (job.poll => \A i \in DOMAIN job.log : i < pos => HasLine(work, job.log, i))'
  <2>1. job' = job /\ pos' = pos + 1
    BY <1>1
  <2>2. \A i \in DOMAIN job.log : HasLine(work', job.log, i) = HasLine(work, job.log, i)'
    BY <1>1 DEF HasLine, Occurrence
  <2>. QED
    BY <1>7, <2>1, <2>2
<1>10. WorkTells'
  BY <1>4, <1>5, <1>6, <1>8, <1>9 DEF WorkTells
<1>. QED
  BY <1>3, <1>10 DEF StoryInv

(* The commit: the story becomes what the transaction was told, and the     *)
(* table what the limit leaves of it.                                       *)
LEMMA CommitKeepsStory == ASSUME IInv, StoryInv, Commit PROVE StoryInv'
<1>1. /\ phase = "open" /\ pos \notin DOMAIN job.records
      /\ rows' = Newest(work) /\ now' = now /\ phase' = "idle"
      /\ commits' = Append(commits, stamp)
      /\ lastLog' = IF job.poll THEN [lines |-> job.log, at |-> stamp] ELSE lastLog
  BY DEF Commit, Remember, NoTransaction
<1>2. /\ Complete(job) /\ WellMade(job) /\ TypeOK /\ JobIsComplete
      /\ work \in SUBSET Row /\ Distinct(work)
  BY <1>1 DEF IInv, JobIsComplete, StoryInv, WorkTells, TypeOK, KeysAreUnique, Distinct
<1>3. /\ pos \in 1 .. Len(job.records) + 1 /\ stamp \in Times
      /\ LastStore <= stamp /\ stamp <= now /\ Tells(work, Told, stamp)
      /\ job.poll => \A i \in DOMAIN job.log : i < pos => HasLine(work, job.log, i)
  BY <1>1, <1>2 DEF StoryInv, WorkTells, TypeOK
<1>4. pos = Len(job.records) + 1 /\ DOMAIN job.records = 1 .. Len(job.records)
  BY <1>1, <1>2, <1>3 DEF Complete
<1>5. story' = Told
  <2>1. story' = [q \in Queries |->
            LET mine == QueryRecordsOf(job, q) IN
            IF mine = {} THEN story[q]
            ELSE Append(story[q], [verdict |-> job.records[CHOOSE i \in mine : TRUE].cause,
                                   at |-> stamp])]
    BY DEF Commit, Remember
  <2>2. \A q : QueryRecordsOf(job, q) # {} <=> \E i \in QueryRecordsOf(job, q) : i < pos
    <3>1. \A q : \A i \in QueryRecordsOf(job, q) : i \in 1 .. Len(job.records)
      BY <1>4 DEF QueryRecordsOf
    <3>2. Len(job.records) \in Nat
      BY <1>2 DEF Complete
    <3>3. \A i \in 1 .. Len(job.records) : i < pos
      BY <1>4, <3>2
    <3>. QED
      BY <3>1, <3>3
  <2>. QED
    BY <1>1, <2>1, <2>2 DEF Told, CauseIn
<1>6. LastStore' = stamp
  <2>1. commits \in Seq(Times) /\ stamp \in Times /\ commits' = Append(commits, stamp)
    BY <1>1, <1>2, <1>3 DEF TypeOK
  <2>2. commits' # <<>> /\ commits'[Len(commits')] = stamp
    BY <2>1
  <2>. QED
    BY <2>2 DEF LastStore
<1>7. Told \in [Queries -> Seq(Verdict)]
  BY <1>2, ToldType
<1> DEFINE new == Newest(work)
<1>8. /\ Cardinality(new) <= MaxRows
      /\ WellFormed(new) /\ Truth(new, Told) /\ OpenOrGone(new, Told, stamp)
      /\ Real(new, Told) /\ Recent(new, stamp)
      /\ new = work \/ Cardinality(new) >= MaxRows
      /\ Cardinality(work) >= MaxRows => Cardinality(new) >= MaxRows
  BY <1>2, <1>3, <1>7, TrimTells
<1> HIDE DEF new
<1>9. ASSUME NEW lines,
             (\A i \in DOMAIN lines : HasLine(work, lines, i)) \/ Cardinality(work) >= MaxRows
      PROVE  (\A i \in DOMAIN lines : HasLine(new, lines, i)) \/ Cardinality(new) >= MaxRows
  BY <1>8, <1>9
<1>10. LogKept(rows, LastStore)'
  <2> SUFFICES ASSUME lastLog'.at = stamp
               PROVE  \/ \A i \in DOMAIN lastLog'.lines : HasLine(work, lastLog'.lines, i)
                      \/ Cardinality(work) >= MaxRows
    <3>1. (\A i \in DOMAIN lastLog'.lines : HasLine(new, lastLog'.lines, i)) \/ Cardinality(new) >= MaxRows
          => LogKept(rows, LastStore)'
      BY <1>1 DEF LogKept, HasLine, Occurrence, new
    <3>2. lastLog'.at # stamp => LogKept(rows, LastStore)'
      BY <1>6 DEF LogKept
    <3>. QED
      BY <3>1, <3>2, <1>9
  <2>1. CASE job.poll
    <3>1. lastLog'.lines = job.log
      BY <1>1, <2>1
    <3>2. \A i \in DOMAIN job.log : i \in Int /\ i < pos
      BY <1>2, <1>4, <2>1 DEF WellMade, HasLog, Complete
    <3>. QED
      BY <1>3, <2>1, <3>1, <3>2
  <2>2. CASE ~job.poll
    <3>1. lastLog' = lastLog
      BY <1>1, <2>2
    <3>. QED
      BY <1>3, <3>1 DEF Tells, LogKept
  <2>. QED
    BY <2>1, <2>2
<1>11. \A q \in Queries : \A i \in DOMAIN Told[q] : Told[q][i].at <= stamp
  BY <1>3 DEF Tells
<1>12. TableTells'
  <2>1. Tells(rows, story, LastStore)'
    BY <1>1, <1>5, <1>6, <1>8, <1>10, <1>11 DEF Tells, LogKept, new
  <2>2. (Cardinality(rows) <= MaxRows)'
    BY <1>1, <1>8 DEF new
  <2>. QED
    BY <2>1, <2>2 DEF TableTells
<1>13. TimesGrow'
  <2>1. lastLog'.at <= stamp
    <3>1. CASE job.poll
      BY <1>1, <1>3, <3>1 DEF Times
    <3>2. CASE ~job.poll
      <4>1. lastLog' = lastLog /\ lastLog.at <= LastStore
        BY <1>1, <3>2 DEF StoryInv, TimesGrow
      <4>2. lastLog.at \in Int /\ LastStore \in Int /\ stamp \in Int
        <5>1. lastLog \in [lines : Seq(Lines), at : Times] /\ LastStore \in Times
          BY <1>2, LastStoreType DEF TypeOK
        <5>2. Times \subseteq Int
          BY LimitsAssumption DEF Times
        <5>. QED
          BY <1>3, <5>1, <5>2
      <4>. QED
        BY <1>3, <4>1, <4>2
    <3>. QED
      BY <3>1, <3>2
  <2>. QED
    BY <1>1, <1>3, <1>6, <2>1 DEF TimesGrow
<1>14. WorkTells'
  BY <1>1 DEF WorkTells
<1>. QED
  BY <1>12, <1>13, <1>14 DEF StoryInv

(* A rollback and a restart leave the table and the stories as they were.   *)
LEMMA AbortKeepsStory == ASSUME StoryInv, Abort \/ Restart PROVE StoryInv'
<1>1. phase' = "idle" /\ UNCHANGED <<rows, now, commits, story, lastLog>>
  BY DEF Abort, Restart, NoTransaction, history
<1>2. TimesGrow' /\ TableTells'
  BY <1>1 DEF StoryInv, TimesGrow, TableTells, LastStore, Tells, LogKept
<1>3. WorkTells'
  BY <1>1 DEF WorkTells
<1>. QED
  BY <1>2, <1>3 DEF StoryInv

(* Time passes: no transaction notices, for its time is fixed.              *)
LEMMA TickKeepsStory == ASSUME IInv, StoryInv, Tick \/ UNCHANGED vars PROVE StoryInv'
<1>1. UNCHANGED <<rows, phase, job, pos, stamp, work, commits, story, lastLog>>
  BY DEF Tick, vars, tx, history
<1>2. TypeOK /\ now \in Int /\ stamp \in Int /\ LastStore \in Int /\ now' \in {now, now + 1}
  <2>1. TypeOK /\ now \in Times /\ stamp \in Times /\ LastStore \in Times
    BY LastStoreType DEF IInv, TypeOK
  <2>2. Times \subseteq Int
    BY LimitsAssumption DEF Times
  <2>3. now' \in {now, now + 1}
    BY DEF Tick, vars
  <2>. QED
    BY <2>1, <2>2, <2>3
<1>3. TimesGrow'
  BY <1>1, <1>2 DEF StoryInv, TimesGrow, LastStore
<1>4. TableTells'
  BY <1>1 DEF StoryInv, TableTells, LastStore, Tells, LogKept
<1>5. Told' = Told
  BY <1>1 DEF Told, CauseIn, QueryRecordsOf
<1>6. WorkTells'
  <2> SUFFICES ASSUME phase = "open" PROVE WorkTells'
    BY <1>1 DEF WorkTells
  <2>1. Tells(work, Told, stamp)'
    BY <1>1, <1>5 DEF StoryInv, WorkTells, Tells, LogKept
  <2>2. WellMade(job)'
    BY <1>1 DEF StoryInv, WorkTells, WellMade, Once, HasLog, QueryRecordsOf
  <2>3. LastStore' <= stamp' /\ stamp' <= now'
    BY <1>1, <1>2 DEF StoryInv, WorkTells, LastStore
  <2>4. pos' \in 1 .. Len(job'.records) + 1
    BY <1>1 DEF StoryInv, WorkTells
  <2>5. (job.poll => \A i \in DOMAIN job.log : i < pos => HasLine(work, job.log, i))'
    BY <1>1 DEF StoryInv, WorkTells
  <2>. QED
    BY <2>1, <2>2, <2>3, <2>4, <2>5 DEF WorkTells
<1>. QED
  BY <1>3, <1>4, <1>6 DEF StoryInv

(* The second inductive invariant: each table tells of the stories what the *)
(* archive promises, the committed one of the committed stories and the     *)
(* transaction's of those with the part of the job done so far.             *)
THEOREM StoryHolds == Spec => []StoryInv
<1>1. IInv /\ StoryInv /\ [Next]_vars => StoryInv'
  BY BeginAnyKeepsStory, RecordKeepsStory, CommitKeepsStory, AbortKeepsStory, TickKeepsStory
     DEF Next
<1>. QED
  BY StoryHoldsInitially, InvariantHolds, <1>1, PTL DEF Spec

-----------------------------------------------------------------------------
(* What the archive tells                                                   *)

(* What it says of incidents and failures.                                  *)
LEMMA StoryImplies == ASSUME StoryInv PROVE OpenIncidentsAreTrue /\ FailuresAreOpen
<1>1. OpenIncidentsAreTrue
  BY DEF StoryInv, TableTells, Tells, Truth, IsTrue, OpenIncidentsAreTrue
<1>2. FailuresAreOpen
  <2>1. OpenOrGone(rows, story, LastStore) /\ IsFiniteSet(rows) /\ Cardinality(rows) <= MaxRows
    BY DEF StoryInv, TableTells, Tells, WellFormed
  <2>2. Cardinality(rows) >= MaxRows => Cardinality(rows) = MaxRows
    BY <2>1, FS_CardinalityType, LimitsAssumption
  <2>. QED
    BY <2>1, <2>2 DEF OpenOrGone, Gone, LastFailed, LastVerdict, FailuresAreOpen
<1>. QED
  BY <1>1, <1>2

(* An open incident counts the failures since the last other verdict, and   *)
(* has the times of the first and the last of them, whatever rollbacks,     *)
(* restarts, expiries and trims came between (archive.go:224-252).          *)
THEOREM OpenIncidentsStayTrue == Spec => []OpenIncidentsAreTrue
<1>1. StoryInv => OpenIncidentsAreTrue
  BY StoryImplies
<1>. QED
  BY StoryHolds, <1>1, PTL

(* A query that failed last has its incident open, unless retention or the  *)
(* limit of rows took it (archive.go:212, 245-260).                         *)
THEOREM FailuresStayOpen == Spec => []FailuresAreOpen
<1>1. StoryInv => FailuresAreOpen
  BY StoryImplies
<1>. QED
  BY StoryHolds, <1>1, PTL

(* A recovery in the table is a success that followed a failure, and none   *)
(* is there twice (archive.go:224-234).                                     *)
THEOREM RecoveriesStayReal == Spec => []RecoveriesAreReal
<1>1. StoryInv => RecoveriesAreReal
  BY DEF StoryInv, TableTells, Tells, Real, AreReal, Recoveries, Turns, RecoveriesAreReal
<1>. QED
  BY StoryHolds, <1>1, PTL

(* The number of a line grows from one of its repetitions to the next.      *)
LEMMA OccurrenceGrows ==
    ASSUME NEW log \in Seq(Lines), NEW i \in DOMAIN log, NEW k \in DOMAIN log,
           i < k, log[i] = log[k]
    PROVE  Occurrence(log, i) < Occurrence(log, k)
<1> DEFINE before == {m \in 1 .. i : log[m] = log[i]}
           after == {m \in 1 .. k : log[m] = log[k]}
<1>1. i \in Nat /\ k \in Nat /\ i \in 1 .. k /\ k \in 1 .. k
  OBVIOUS
<1>2. IsFiniteSet(1 .. k)
  BY <1>1, FS_Interval
<1>3. IsFiniteSet(after) /\ before \subseteq after /\ k \in after /\ k \notin before
  BY <1>1, <1>2, FS_Subset
<1>4. IsFiniteSet(before) /\ Cardinality(before) <= Cardinality(after)
      /\ (Cardinality(before) = Cardinality(after) => before = after)
  BY <1>3, FS_Subset
<1>5. Cardinality(before) \in Nat /\ Cardinality(after) \in Nat
  BY <1>3, <1>4, FS_CardinalityType
<1>6. Cardinality(before) < Cardinality(after)
  BY <1>3, <1>4, <1>5
<1>. QED
  BY <1>6 DEF Occurrence

(* The number of a line is a number.                                        *)
LEMMA OccurrenceIsNumber ==
    ASSUME NEW log \in Seq(Lines), NEW i \in DOMAIN log PROVE Occurrence(log, i) \in Nat
<1>1. IsFiniteSet(1 .. i)
  BY FS_Interval
<1>2. IsFiniteSet({k \in 1 .. i : log[k] = log[i]})
  BY <1>1, FS_Subset
<1>. QED
  BY <1>2, FS_CardinalityType DEF Occurrence

(* If each line of a log has a row of its number, the text of a line is in  *)
(* the table at least as often as it is in the log.                         *)
LEMMA EveryLineHasItsRow ==
    ASSUME IsFiniteSet(rows), lastLog.lines \in Seq(Lines),
           \A i \in DOMAIN lastLog.lines : HasLine(rows, lastLog.lines, i)
    PROVE  LogIsArchived
<1> SUFFICES ASSUME NEW l \in Lines PROVE ArchivedTimes(l) >= LoggedTimes(l)
  BY DEF LogIsArchived
<1> DEFINE log == lastLog.lines
           logged == {i \in DOMAIN log : log[i] = l}
           kept == {r \in rows : r.kind = "router" /\ r.dedup[1] = l}
           row(i) == CHOOSE r \in rows :
                        r.kind = "router" /\ r.dedup = <<log[i], Occurrence(log, i)>>
           f == [i \in logged |-> row(i)]
<1>1. \A i \in logged : /\ row(i) \in rows /\ row(i).kind = "router"
                        /\ row(i).dedup = <<log[i], Occurrence(log, i)>>
  BY DEF HasLine
<1> HIDE DEF row
<1>2. ASSUME NEW i \in logged PROVE row(i) \in kept
  <2>1. row(i).dedup[1] = log[i]
    BY <1>1
  <2>. QED
    BY <1>1, <2>1
<1>3. ASSUME NEW i \in logged, NEW k \in logged, row(i) = row(k) PROVE i = k
  <2>1. Occurrence(log, i) = Occurrence(log, k)
    <3>1. row(i).dedup[2] = Occurrence(log, i) /\ row(k).dedup[2] = Occurrence(log, k)
      BY <1>1
    <3>. QED
      BY <1>3, <3>1
  <2>2. i \in Int /\ k \in Int /\ Occurrence(log, i) = Occurrence(log, k)
    BY <2>1
  <2>3. ~(i < k)
    <3> SUFFICES ASSUME i < k PROVE FALSE
      OBVIOUS
    <3>1. Occurrence(log, i) < Occurrence(log, k)
      BY OccurrenceGrows
    <3>2. Occurrence(log, i) \in Int
      BY OccurrenceIsNumber
    <3>. QED
      BY <2>1, <3>1, <3>2
  <2>4. ~(k < i)
    <3> SUFFICES ASSUME k < i PROVE FALSE
      OBVIOUS
    <3>1. Occurrence(log, k) < Occurrence(log, i)
      BY OccurrenceGrows
    <3>2. Occurrence(log, i) \in Int
      BY OccurrenceIsNumber
    <3>. QED
      BY <2>1, <3>1, <3>2
  <2>. QED
    BY <2>2, <2>3, <2>4
<1>4. f \in Injection(logged, kept)
  BY <1>2, <1>3, Zenon DEF Injection, IsInjective
<1>5. IsFiniteSet(kept)
  BY FS_Subset
<1>6. Cardinality(logged) <= Cardinality(kept)
  BY <1>4, <1>5, FS_Injection
<1>7. IsFiniteSet(logged) /\ Cardinality(logged) \in Nat /\ Cardinality(kept) \in Nat
  BY <1>4, <1>5, FS_Injection, FS_CardinalityType
<1>. QED
  BY <1>6, <1>7 DEF ArchivedTimes, LoggedTimes

(* When a router log is committed, each of its lines is in the table as     *)
(* often as the router showed it, if there is room (archive.go:220, 254,    *)
(* 292).                                                                    *)
THEOREM CommittedLogStaysArchived == Spec => []CommittedLogIsArchived
<1>1. ASSUME IInv, StoryInv PROVE CommittedLogIsArchived
  <2>1. LogKept(rows, LastStore) /\ IsFiniteSet(rows) /\ Cardinality(rows) <= MaxRows
    BY <1>1 DEF StoryInv, TableTells, Tells, WellFormed
  <2>2. Cardinality(rows) >= MaxRows => Cardinality(rows) = MaxRows
    BY <2>1, FS_CardinalityType, LimitsAssumption
  <2>3. lastLog.lines \in Seq(Lines)
    BY <1>1 DEF IInv, TypeOK
  <2>. QED
    BY <2>1, <2>2, <2>3, EveryLineHasItsRow DEF LogKept, CommittedLogIsArchived
<1>. QED
  BY InvariantHolds, StoryHolds, <1>1, PTL

-----------------------------------------------------------------------------
(* The queue and its reports                                                *)

\* What the collectors and the poller report.
LegalJobs ==
    {PollJob(log) : log \in Logs} \cup {FailedPollJob(cause) : cause \in Causes}
    \cup UNION {{ScrapeJob(c, verdict) : verdict \in [DOMAIN Definitions[c] -> Verdicts]} :
                c \in Collectors}

ReportsType ==
    /\ reports \in Seq(LegalJobs) /\ Len(reports) <= MaxReports
    /\ queue \in Seq(Numbers)
    /\ fate \in [Numbers -> Buffer!Fates]

\* A number has a fate once it is reported, and waits in the queue if that is
\* what became of it.
FatesAreTrue ==
    /\ \A n \in Numbers : fate[n] = "none" <=> n > Len(reports)
    /\ \A n \in Numbers : fate[n] = "queued" <=> \E i \in DOMAIN queue : queue[i] = n

\* What is stored was reported before what is being stored, and that before
\* what waits, which waits in the order of the reports.
InOrder ==
    /\ \A i, k \in DOMAIN queue : i < k => queue[i] < queue[k]
    /\ \A n, m \in Numbers :
          \/ fate[n] = "stored" /\ fate[m] \in {"storing", "queued"}
          \/ fate[n] = "storing" /\ fate[m] = "queued"
          => n < m

\* The transaction is that of the report which is being stored.
StoresItsReport ==
    /\ phase = "open" => \E n \in Numbers : Storing = {n} /\ job = reports[n]
    /\ phase = "idle" => Storing = {}
    /\ phase \in {"idle", "open"}

QueueInv == ReportsType /\ FatesAreTrue /\ InOrder /\ StoresItsReport

-----------------------------------------------------------------------------
(* The numbers are those of the reports.                                    *)
LEMMA NumbersAre ==
    ASSUME ReportsType, FatesAreTrue
    PROVE  /\ Len(reports) \in Nat /\ Numbers \subseteq Nat
           /\ \A n \in Numbers : fate[n] # "none" <=> n \in 1 .. Len(reports)
           /\ \A n \in 1 .. Len(reports) : n \in Numbers
           /\ \A n \in Numbers : fate[n] # "none" => reports[n] \in LegalJobs
<1>1. MaxReports \in Nat /\ Len(reports) \in Nat /\ Len(reports) <= MaxReports
  BY QueueAssumption DEF ReportsType
<1>2. Numbers = 1 .. MaxReports
  BY DEF Numbers
<1>3. \A n \in Numbers : n \in Nat /\ n >= 1
  BY <1>1, <1>2
<1>4. \A n \in Numbers : fate[n] # "none" <=> n \in 1 .. Len(reports)
  BY <1>1, <1>3 DEF FatesAreTrue
<1>5. \A n \in 1 .. Len(reports) : n \in Numbers /\ reports[n] \in LegalJobs
  BY <1>1, <1>2 DEF ReportsType
<1>. QED
  BY <1>1, <1>3, <1>4, <1>5

(* Nothing is reported yet.                                                 *)
LEMMA StartHolds == StartArchive => QueueInv
<1> SUFFICES ASSUME StartArchive PROVE QueueInv
  OBVIOUS
<1>1. /\ reports = <<>> /\ queue = <<>> /\ fate = [n \in Numbers |-> "none"] /\ phase = "idle"
  BY DEF StartArchive, Init, Buffer!Init
<1>2. ReportsType
  BY <1>1, QueueAssumption DEF ReportsType, Buffer!Fates
<1>3. \A n \in Numbers : n > Len(reports)
  BY <1>1, QueueAssumption DEF Numbers
<1>. QED
  BY <1>1, <1>2, <1>3 DEF QueueInv, FatesAreTrue, InOrder, StoresItsReport, Storing

(* A report gets the next number: its fate follows that of all others.      *)
LEMMA EnqueueKeeps ==
    ASSUME QueueInv, NEW j \in LegalJobs, Enqueue(j) PROVE QueueInv'
<1> DEFINE n == Len(reports) + 1
<1>0. ReportsType /\ FatesAreTrue /\ InOrder /\ StoresItsReport /\ reports \in Seq(LegalJobs)
  BY DEF QueueInv, ReportsType
<1>1. /\ reports' = Append(reports, j) /\ Len(reports') = n
      /\ UNCHANGED <<phase, job>>
  BY <1>0 DEF Enqueue, vars, tx
<1>2. n \in Numbers /\ (Buffer!Accept(n) \/ Buffer!Drop(n) \/ Buffer!Ignore(n))
  BY <1>1 DEF Enqueue
<1>3. /\ Len(reports) \in Nat /\ Numbers \subseteq Nat
      /\ \A m \in Numbers : fate[m] # "none" <=> m \in 1 .. Len(reports)
      /\ \A m \in 1 .. Len(reports) : m \in Numbers
  BY <1>0, NumbersAre
<1>4. /\ reports' \in Seq(LegalJobs) /\ Len(reports') <= MaxReports
      /\ \A m \in 1 .. Len(reports) : reports'[m] = reports[m]
  BY <1>0, <1>1, <1>2, QueueAssumption DEF Numbers
<1> HIDE DEF n
<1>5. n = Len(reports) + 1 /\ n \in Nat
  BY <1>3 DEF n
<1>6. PICK f \in {"queued", "dropped", "discarded"} :
         /\ fate' = [fate EXCEPT ![n] = f]
         /\ f = "queued" => queue' = Append(queue, n)
         /\ f # "queued" => queue' = queue
  BY <1>2 DEF Buffer!Accept, Buffer!Drop, Buffer!Ignore
<1>7. /\ fate' \in [Numbers -> Buffer!Fates] /\ queue' \in Seq(Numbers)
      /\ \A m \in Numbers : fate'[m] = IF m = n THEN f ELSE fate[m]
  <2>1. queue' \in Seq(Numbers)
    <3>1. queue \in Seq(Numbers) /\ Append(queue, n) \in Seq(Numbers)
      BY <1>0, <1>2 DEF ReportsType
    <3>. QED
      BY <1>6, <3>1
  <2>2. f \in Buffer!Fates /\ fate \in [Numbers -> Buffer!Fates]
    BY <1>0 DEF ReportsType, Buffer!Fates
  <2>. QED
    BY <1>2, <1>6, <2>1, <2>2
<1>8. ReportsType'
  BY <1>4, <1>7 DEF ReportsType
<1>9. queue \in Seq(Numbers) /\ \A i \in DOMAIN queue : queue[i] \in Numbers /\ queue[i] < n
  <2>1. queue \in Seq(Numbers) /\ \A i \in DOMAIN queue : queue[i] \in Numbers
    BY <1>0 DEF ReportsType
  <2>2. \A i \in DOMAIN queue : fate[queue[i]] = "queued"
    BY <1>0, <2>1 DEF FatesAreTrue
  <2>3. ASSUME NEW i \in DOMAIN queue PROVE queue[i] < n
    <3>1. fate[queue[i]] # "none" /\ queue[i] \in Numbers
      BY <2>1, <2>2
    <3>2. queue[i] \in 1 .. Len(reports)
      BY <1>3, <3>1
    <3>. QED
      BY <1>3, <1>5, <3>2
  <2>. QED
    BY <2>1, <2>3
<1>10. FatesAreTrue'
  <2>1. \A m \in Numbers : fate'[m] = "none" <=> m > Len(reports')
    <3> SUFFICES ASSUME NEW m \in Numbers PROVE fate'[m] = "none" <=> m > n
      BY <1>1
    <3>1. m \in Nat /\ (fate[m] = "none" <=> m > Len(reports))
      BY <1>0, <1>3 DEF FatesAreTrue
    <3>. QED
      BY <1>3, <1>5, <1>7, <3>1
  <2>2. ASSUME NEW m \in Numbers PROVE fate'[m] = "queued" <=> \E i \in DOMAIN queue' : queue'[i] = m
    <3>1. fate[m] = "queued" <=> \E i \in DOMAIN queue : queue[i] = m
      BY <1>0 DEF FatesAreTrue
    <3>2. CASE f = "queued"
      <4>1. /\ queue' = Append(queue, n) /\ Len(queue) \in Nat /\ DOMAIN queue = 1 .. Len(queue)
            /\ DOMAIN queue' = 1 .. Len(queue) + 1 /\ queue'[Len(queue) + 1] = n
            /\ \A i \in 1 .. Len(queue) : queue'[i] = queue[i]
        BY <1>2, <1>6, <1>9, <3>2
      <4>2. (\E i \in DOMAIN queue' : queue'[i] = m) <=> (\E i \in DOMAIN queue : queue[i] = m) \/ m = n
        BY <4>1
      <4>. QED
        BY <1>7, <3>1, <3>2, <4>2
    <3>3. CASE f # "queued"
      <4>1. m = n => fate[m] # "queued"
        BY <1>3, <1>5, <2>2
      <4>. QED
        BY <1>6, <1>7, <3>1, <3>3, <4>1
    <3>. QED
      BY <3>2, <3>3
  <2>. QED
    BY <2>1, <2>2 DEF FatesAreTrue
<1>11. InOrder'
  <2>1. \A i, k \in DOMAIN queue' : i < k => queue'[i] < queue'[k]
    <3>1. \A i, k \in DOMAIN queue : i < k => queue[i] < queue[k]
      BY <1>0 DEF InOrder
    <3>2. CASE f = "queued"
      <4>1. /\ queue' = Append(queue, n) /\ Len(queue) \in Nat /\ DOMAIN queue = 1 .. Len(queue)
            /\ DOMAIN queue' = 1 .. Len(queue) + 1 /\ queue'[Len(queue) + 1] = n
            /\ \A i \in 1 .. Len(queue) : queue'[i] = queue[i]
        BY <1>2, <1>6, <1>9, <3>2
      <4>. QED
        BY <1>9, <3>1, <4>1
    <3>3. CASE f # "queued"
      BY <1>6, <3>1, <3>3
    <3>. QED
      BY <3>2, <3>3
  <2>2. ASSUME NEW k \in Numbers, NEW m \in Numbers,
               \/ fate'[k] = "stored" /\ fate'[m] \in {"storing", "queued"}
               \/ fate'[k] = "storing" /\ fate'[m] = "queued"
        PROVE  k < m
    <3>1. k # n /\ fate'[k] = fate[k] /\ k < n
      BY <1>3, <1>5, <1>6, <1>7, <2>2
    <3>2. CASE m = n
      BY <3>1, <3>2
    <3>3. CASE m # n
      BY <1>0, <1>7, <2>2, <3>1, <3>3 DEF InOrder
    <3>. QED
      BY <3>2, <3>3
  <2>. QED
    BY <2>1, <2>2 DEF InOrder
<1>12. StoresItsReport'
  <2>1. Storing' = Storing
    BY <1>3, <1>5, <1>6, <1>7 DEF Storing
  <2>2. \A m \in Storing : m \in 1 .. Len(reports)
    BY <1>3 DEF Storing
  <2>3. ASSUME phase = "open" PROVE \E m \in Numbers : Storing = {m} /\ job = reports'[m]
    <3>1. PICK m \in Numbers : Storing = {m} /\ job = reports[m]
      BY <1>0, <2>3 DEF StoresItsReport
    <3>2. reports'[m] = reports[m]
      BY <1>4, <2>2, <3>1
    <3>. QED
      BY <3>1, <3>2
  <2>. QED
    BY <1>0, <1>1, <2>1, <2>3 DEF StoresItsReport
<1>. QED
  BY <1>8, <1>10, <1>11, <1>12 DEF QueueInv

(* The oldest report that waits goes to the store.                          *)
LEMMA TakeKeeps == ASSUME QueueInv, Take PROVE QueueInv'
<1> DEFINE n == Head(queue)
<1>0. ReportsType /\ FatesAreTrue /\ InOrder /\ StoresItsReport /\ queue \in Seq(Numbers)
  BY DEF QueueInv, ReportsType
<1>1. /\ queue # <<>> /\ Storing = {}
      /\ fate' = [fate EXCEPT ![n] = "storing"] /\ queue' = Tail(queue)
      /\ reports' = reports /\ phase' = "open" /\ job' = reports[n]
  BY DEF Take, Begin, Buffer!Take, Storing
<1>2. /\ n = queue[1] /\ Len(queue) \in Nat \ {0} /\ DOMAIN queue = 1 .. Len(queue)
      /\ queue' \in Seq(Numbers) /\ DOMAIN queue' = 1 .. Len(queue) - 1
      /\ \A i \in 1 .. Len(queue) - 1 : queue'[i] = queue[i + 1]
      /\ n \in Numbers
  BY <1>0, <1>1
<1> HIDE DEF n
<1>3. Numbers \subseteq Nat
  BY <1>0, NumbersAre
<1>4. /\ fate' \in [Numbers -> Buffer!Fates]
      /\ \A m \in Numbers : fate'[m] = IF m = n THEN "storing" ELSE fate[m]
  BY <1>0, <1>1, <1>2 DEF ReportsType, Buffer!Fates
<1>5. fate[n] = "queued" /\ \A i \in 2 .. Len(queue) : n < queue[i]
  BY <1>0, <1>2 DEF FatesAreTrue, InOrder
<1>6. ReportsType'
  BY <1>0, <1>1, <1>2, <1>4 DEF ReportsType
<1>7. FatesAreTrue'
  <2>1. \A m \in Numbers : fate'[m] = "none" <=> m > Len(reports')
    BY <1>0, <1>1, <1>4, <1>5 DEF FatesAreTrue
  <2>2. ASSUME NEW m \in Numbers PROVE fate'[m] = "queued" <=> \E i \in DOMAIN queue' : queue'[i] = m
    <3>1. fate[m] = "queued" <=> \E i \in DOMAIN queue : queue[i] = m
      BY <1>0 DEF FatesAreTrue
    <3>2. ASSUME fate'[m] = "queued" PROVE \E i \in DOMAIN queue' : queue'[i] = m
      <4>1. m # n /\ fate[m] = "queued"
        BY <1>4, <3>2
      <4>2. PICK i \in 1 .. Len(queue) : queue[i] = m
        BY <1>2, <3>1, <4>1
      <4>3. i # 1 /\ i - 1 \in 1 .. Len(queue) - 1 /\ (i - 1) + 1 = i
        BY <1>2, <4>1, <4>2
      <4>. QED
        BY <1>2, <4>2, <4>3
    <3>3. ASSUME NEW i \in DOMAIN queue', queue'[i] = m PROVE fate'[m] = "queued"
      <4>1. i + 1 \in 2 .. Len(queue) /\ queue[i + 1] = m
        BY <1>2, <3>3
      <4>2. m # n
        BY <1>3, <1>2, <1>5, <4>1
      <4>3. fate[m] = "queued"
        BY <1>2, <3>1, <4>1
      <4>. QED
        BY <1>4, <4>2, <4>3
    <3>. QED
      BY <3>2, <3>3
  <2>. QED
    BY <2>1, <2>2 DEF FatesAreTrue
<1>8. InOrder'
  <2>1. \A i, k \in DOMAIN queue' : i < k => queue'[i] < queue'[k]
    <3>1. \A i, k \in 1 .. Len(queue) : i < k => queue[i] < queue[k]
      BY <1>0, <1>2 DEF InOrder
    <3>. QED
      BY <1>2, <3>1
  <2>2. ASSUME NEW k \in Numbers, NEW m \in Numbers,
               \/ fate'[k] = "stored" /\ fate'[m] \in {"storing", "queued"}
               \/ fate'[k] = "storing" /\ fate'[m] = "queued"
        PROVE  k < m
    <3>1. CASE fate'[k] = "stored"
      <4>1. fate[k] = "stored" /\ fate[m] \in {"storing", "queued"}
        BY <1>4, <1>5, <2>2, <3>1
      <4>. QED
        BY <1>0, <4>1 DEF InOrder
    <3>2. CASE fate'[k] = "storing" /\ fate'[m] = "queued"
      <4>1. k = n
        BY <1>1, <1>4, <3>2 DEF Storing
      <4>2. PICK i \in DOMAIN queue' : queue'[i] = m
        BY <1>7, <3>2 DEF FatesAreTrue
      <4>3. i + 1 \in 2 .. Len(queue) /\ queue[i + 1] = m
        BY <1>2, <4>2
      <4>. QED
        BY <1>5, <4>1, <4>3
    <3>. QED
      BY <2>2, <3>1, <3>2
  <2>. QED
    BY <2>1, <2>2 DEF InOrder
<1>9. StoresItsReport'
  <2>1. Storing' = {n}
    BY <1>1, <1>2, <1>4 DEF Storing
  <2>. QED
    BY <1>1, <1>2, <2>1 DEF StoresItsReport
<1>. QED
  BY <1>6, <1>7, <1>8, <1>9 DEF QueueInv

(* The transaction ends: its report has its final fate, no other changes.   *)
LEMMA EndKeeps ==
    ASSUME QueueInv, phase = "open", phase' = "idle", UNCHANGED <<queue, reports>>,
           NEW outcome \in {"stored", "failed"}, BecomeOf(outcome)
    PROVE  QueueInv'
<1>0. ReportsType /\ FatesAreTrue /\ InOrder /\ StoresItsReport
  BY DEF QueueInv
<1>1. PICK n \in Numbers : Storing = {n}
  BY <1>0 DEF StoresItsReport
<1>2. fate[n] = "storing" /\ \A m \in Numbers : fate[m] = "storing" => m = n
  BY <1>1 DEF Storing
<1>3. /\ fate' \in [Numbers -> Buffer!Fates]
      /\ \A m \in Numbers : fate'[m] = IF m = n THEN outcome ELSE fate[m]
  BY <1>0, <1>1 DEF BecomeOf, ReportsType, Buffer!Fates
<1>4. ReportsType' /\ FatesAreTrue'
  BY <1>0, <1>2, <1>3 DEF ReportsType, FatesAreTrue
<1>5. InOrder'
  BY <1>0, <1>2, <1>3 DEF InOrder
<1>6. StoresItsReport'
  BY <1>2, <1>3 DEF StoresItsReport, Storing
<1>. QED
  BY <1>4, <1>5, <1>6 DEF QueueInv

(* After a restart nothing waits, and what was stored stays so.             *)
LEMMA RestartKeeps == ASSUME QueueInv, ProcessRestarts PROVE QueueInv'
<1>0. ReportsType /\ FatesAreTrue
  BY DEF QueueInv
<1>1. /\ queue' = <<>> /\ reports' = reports /\ phase' = "idle"
      /\ fate' = [n \in Numbers |-> IF fate[n] \in {"queued", "storing"} THEN "failed" ELSE fate[n]]
  BY DEF ProcessRestarts, Restart, NoTransaction
<1>2. /\ fate' \in [Numbers -> Buffer!Fates] /\ queue' \in Seq(Numbers) /\ DOMAIN queue' = {}
      /\ \A n \in Numbers : /\ fate'[n] \notin {"queued", "storing"}
                            /\ fate'[n] = "none" <=> fate[n] = "none"
  BY <1>0, <1>1 DEF ReportsType, Buffer!Fates
<1>3. ReportsType' /\ FatesAreTrue' /\ InOrder' /\ StoresItsReport'
  BY <1>0, <1>1, <1>2 DEF ReportsType, FatesAreTrue, InOrder, StoresItsReport, Storing
<1>. QED
  BY <1>3 DEF QueueInv

(* The writer works on its transaction, the clock runs, the archive is      *)
(* closed: the queue stays as it is.                                        *)
LEMMA OthersKeep ==
    ASSUME QueueInv, UNCHANGED <<queue, fate, reports, phase, job>> PROVE QueueInv'
  BY DEF QueueInv, ReportsType, FatesAreTrue, InOrder, StoresItsReport, Storing

(* A record leaves the job and the phase of its transaction.                *)
LEMMA RecordLeavesJob ==
    ASSUME StoreRecord PROVE UNCHANGED <<phase, job, story, rows, commits>>
  BY DEF StoreRecord, StoreLine, StoreSuccess, StoreRecovery, StoreRepeat, StoreFailure,
         NextRecord, history

(* Every step keeps the invariant of the queue.                             *)
LEMMA QueueKeeps == ASSUME QueueInv, [Work]_allVars PROVE QueueInv'
<1>1. CASE Collected
  <2>0. PICK c \in Collectors : \E verdict \in [DOMAIN Definitions[c] -> Verdicts] :
           Enqueue(ScrapeJob(c, verdict))
    BY <1>1 DEF Collected
  <2>1. PICK verdict \in [DOMAIN Definitions[c] -> Verdicts] : Enqueue(ScrapeJob(c, verdict))
    BY <2>0
  <2>2. ScrapeJob(c, verdict) \in LegalJobs
    BY DEF LegalJobs
  <2>. QED
    BY <2>1, <2>2, EnqueueKeeps
<1>2. CASE Polled
  BY <1>2, EnqueueKeeps DEF Polled, LegalJobs
<1>3. CASE Take
  BY <1>3, TakeKeeps
<1>4. CASE WriterStores
  BY <1>4, RecordLeavesJob, OthersKeep DEF WriterStores, buffer
<1>5. CASE Stored
  BY <1>5, EndKeeps DEF Stored, Commit, NoTransaction
<1>6. CASE StoreFails
  BY <1>6, EndKeeps DEF StoreFails, Abort, NoTransaction
<1>7. CASE Close
  BY <1>7, OthersKeep DEF Close, Buffer!Shut, vars, tx
<1>8. CASE ProcessRestarts
  BY <1>8, RestartKeeps
<1>9. CASE Later
  BY <1>9, OthersKeep DEF Later, Tick, tx, buffer
<1>10. CASE UNCHANGED allVars
  BY <1>10, OthersKeep DEF allVars, vars, tx, buffer
<1>. QED
  BY <1>1, <1>2, <1>3, <1>4, <1>5, <1>6, <1>7, <1>8, <1>9, <1>10 DEF Work

(* The queue keeps the order of the reports, and the transaction is that of *)
(* the one report that left it.                                             *)
THEOREM QueueInvHolds == ArchiveSpec => []QueueInv
  BY StartHolds, QueueKeeps, PTL DEF ArchiveSpec

-----------------------------------------------------------------------------
(* The store                                                                *)

(* Every step of the archive is a step of its store or none.                *)
LEMMA StepRefines == ASSUME QueueInv, [Work]_allVars PROVE [Next]_vars
<1>1. CASE Collected \/ Polled
  BY <1>1 DEF Collected, Polled, Enqueue
<1>2. CASE Take
  <2>1. queue \in Seq(Numbers) /\ queue # <<>> /\ Begin(reports[Head(queue)])
    BY <1>2 DEF Take, Buffer!Take, QueueInv, ReportsType
  <2>2. Head(queue) \in Numbers /\ fate[Head(queue)] # "none"
    BY <2>1 DEF QueueInv, FatesAreTrue
  <2>3. reports[Head(queue)] \in LegalJobs
    BY <2>2, NumbersAre DEF QueueInv
  <2>4. BeginAny
    BY <2>1, <2>3 DEF LegalJobs, BeginAny
  <2>. QED
    BY <2>4 DEF Next
<1>3. CASE WriterStores
  BY <1>3 DEF WriterStores, Next
<1>4. CASE Stored \/ StoreFails \/ ProcessRestarts
  BY <1>4 DEF Stored, StoreFails, ProcessRestarts, Next
<1>5. CASE Close \/ UNCHANGED allVars
  BY <1>5 DEF Close, allVars
<1>6. CASE Later
  BY <1>6 DEF Later, Next
<1>. QED
  BY <1>1, <1>2, <1>3, <1>4, <1>5, <1>6 DEF Work

(* The queue gives the store the jobs it is made for, one at a time, also   *)
(* over restarts (archive.go:141-166; archive_poll.go:67-83).               *)
THEOREM ArchiveImplementsStore == ArchiveSpec => ImplementsStore
<1>1. StartArchive => Init
  BY DEF StartArchive
<1>2. QueueInv /\ [Work]_allVars => [Next]_vars
  BY StepRefines
<1>. QED
  BY QueueInvHolds, <1>1, <1>2, PTL DEF ArchiveSpec, ImplementsStore, Spec

(* What is proved of the store holds of the archive.                        *)
THEOREM StoreHolds == ArchiveSpec => [](IInv /\ StoryInv)
  BY ArchiveImplementsStore, InvariantHolds, StoryHolds, PTL DEF ImplementsStore

-----------------------------------------------------------------------------
(* What the archive tells                                                   *)

(* The stored reports are finitely many, and grow with the number of the    *)
(* last.                                                                    *)
LEMMA StoredAre ==
    ASSUME NEW q, NEW n \in Nat
    PROVE  /\ IsFiniteSet(StoredAbout(q, n)) /\ Cardinality(StoredAbout(q, n)) \in Nat
           /\ \A m \in StoredAbout(q, n) :
                 Cardinality(StoredAbout(q, m)) \in 1 .. Cardinality(StoredAbout(q, n))
<1>1. ASSUME NEW k \in Nat
      PROVE  IsFiniteSet(StoredAbout(q, k)) /\ Cardinality(StoredAbout(q, k)) \in Nat
  <2>1. IsFiniteSet(1 .. k)
    BY FS_Interval
  <2>. QED
    BY <2>1, FS_Subset, FS_CardinalityType DEF StoredAbout
<1>2. ASSUME NEW m \in StoredAbout(q, n)
      PROVE  Cardinality(StoredAbout(q, m)) \in 1 .. Cardinality(StoredAbout(q, n))
  <2>1. m \in Nat /\ m \in StoredAbout(q, m) /\ StoredAbout(q, m) \subseteq StoredAbout(q, n)
    BY <1>2 DEF StoredAbout
  <2>2. Cardinality(StoredAbout(q, m)) <= Cardinality(StoredAbout(q, n))
    BY <1>1, <2>1, FS_Subset
  <2>3. Cardinality(StoredAbout(q, m)) # 0
    BY <1>1, <2>1, FS_EmptySet
  <2>. QED
    BY <1>1, <2>1, <2>2, <2>3
<1>. QED
  BY <1>1, <1>2

(* While nothing is stored, nothing that was told changes.                  *)
LEMMA NothingStored ==
    ASSUME CommittedIsReported, story' = story,
           Len(reports) \in Nat, Len(reports') \in Nat, Len(reports) <= Len(reports'),
           \A m \in 1 .. Len(reports) : reports'[m] = reports[m],
           \A m \in 1 .. Len(reports') :
              fate'[m] = "stored" <=> m \in 1 .. Len(reports) /\ fate[m] = "stored"
    PROVE  CommittedIsReported'
<1>1. ASSUME NEW q \in Queries
      PROVE  /\ StoredAbout(q, Len(reports))' = StoredAbout(q, Len(reports))
             /\ \A n \in 1 .. Len(reports) : StoredAbout(q, n)' = StoredAbout(q, n)
  <2>1. ASSUME NEW n \in 1 .. Len(reports) PROVE StoredAbout(q, n)' = StoredAbout(q, n)
    <3>1. \A m \in 1 .. n : m \in 1 .. Len(reports) /\ m \in 1 .. Len(reports')
      OBVIOUS
    <3>2. \A m \in 1 .. n : reports'[m] = reports[m] /\ (fate'[m] = "stored" <=> fate[m] = "stored")
      BY <3>1
    <3>. QED
      BY <3>2 DEF StoredAbout, About
  <2>2. StoredAbout(q, Len(reports))' = StoredAbout(q, Len(reports))
    <3>1. \A m \in 1 .. Len(reports') :
             fate'[m] = "stored" <=> m \in 1 .. Len(reports) /\ fate[m] = "stored"
      OBVIOUS
    <3>2. \A m \in 1 .. Len(reports) : m \in 1 .. Len(reports') /\ reports'[m] = reports[m]
      OBVIOUS
    <3>. QED
      BY <3>1, <3>2 DEF StoredAbout, About
  <2>. QED
    BY <2>1, <2>2
<1>2. ASSUME NEW q \in Queries, NEW n \in StoredAbout(q, Len(reports))
      PROVE  VerdictOf(n, q)' = VerdictOf(n, q) /\ n \in 1 .. Len(reports)
  BY DEF VerdictOf, StoredAbout
<1>. QED
  BY <1>1, <1>2 DEF CommittedIsReported

(* A report is committed: its verdicts come after those of all others, for  *)
(* it is the last that left the queue.                                      *)
LEMMA StoredTells ==
    ASSUME QueueInv, IInv, CommittedIsReported, Stored PROVE CommittedIsReported'
<1>0. ReportsType /\ FatesAreTrue /\ InOrder /\ StoresItsReport /\ TypeOK
  BY DEF QueueInv, IInv
<1>1. /\ phase = "open" /\ reports' = reports /\ BecomeOf("stored")
      /\ story' = [q \in Queries |->
            LET mine == QueryRecordsOf(job, q) IN
            IF mine = {} THEN story[q]
            ELSE Append(story[q], [verdict |-> job.records[CHOOSE i \in mine : TRUE].cause,
                                   at |-> stamp])]
  BY DEF Stored, Commit, Remember
<1>2. PICK n \in Numbers : Storing = {n} /\ job = reports[n]
  BY <1>0, <1>1 DEF StoresItsReport
<1>3. fate[n] = "storing" /\ \A m \in Numbers : fate'[m] = IF m = n THEN "stored" ELSE fate[m]
  BY <1>1, <1>2 DEF BecomeOf, Storing
<1>4. /\ Len(reports) \in Nat /\ n \in 1 .. Len(reports)
      /\ \A m \in 1 .. Len(reports) : m \in Numbers
  BY <1>0, <1>3, NumbersAre
<1>5. \A m \in 1 .. Len(reports) : fate[m] = "stored" => m < n
  BY <1>0, <1>3, <1>4 DEF InOrder
<1> SUFFICES ASSUME NEW q \in Queries
             PROVE  /\ Len(story'[q]) = Cardinality(StoredAbout(q, Len(reports))')
                    /\ \A m \in StoredAbout(q, Len(reports))' :
                          story'[q][Cardinality(StoredAbout(q, m)')].verdict = VerdictOf(m, q)
  <2>1. ASSUME NEW q \in Queries, NEW m PROVE VerdictOf(m, q)' = VerdictOf(m, q)
    BY <1>1 DEF VerdictOf
  <2>. QED
    BY <1>1, <2>1 DEF CommittedIsReported
<1> DEFINE all == StoredAbout(q, Len(reports))
           before(m) == StoredAbout(q, m)
<1>6. /\ Len(story[q]) = Cardinality(all)
      /\ \A m \in all : story[q][Cardinality(before(m))].verdict = VerdictOf(m, q)
  BY DEF CommittedIsReported
<1>7. /\ IsFiniteSet(all) /\ Cardinality(all) \in Nat
      /\ \A m \in all : Cardinality(before(m)) \in 1 .. Cardinality(all)
  BY <1>4, StoredAre
<1>8. \A m \in all : m \in 1 .. Len(reports) /\ m < n
  BY <1>5 DEF StoredAbout
<1>9. story[q] \in Seq(Verdict)
  BY <1>0 DEF TypeOK, Verdict
<1>10. ASSUME NEW m \in all PROVE before(m)' = before(m)
  <2>1. \A k \in 1 .. m : k \in Numbers /\ k # n
    BY <1>4, <1>8
  <2>2. \A k \in 1 .. m : fate'[k] = fate[k]
    BY <1>3, <2>1
  <2>. QED
    BY <1>1, <2>2 DEF StoredAbout, About
<1>11. CASE QueryRecordsOf(job, q) = {}
  <2>1. story'[q] = story[q]
    BY <1>1, <1>11
  <2>2. all' = all
    BY <1>1, <1>2, <1>3, <1>4, <1>11 DEF StoredAbout, About
  <2>. QED
    BY <1>6, <1>10, <2>1, <2>2
<1>12. CASE QueryRecordsOf(job, q) # {}
  <2> DEFINE e == [verdict |-> VerdictOf(n, q), at |-> stamp]
  <2>1. story'[q] = Append(story[q], e)
    BY <1>1, <1>2, <1>12 DEF VerdictOf
  <2>2. e.verdict = VerdictOf(n, q)
    OBVIOUS
  <2> HIDE DEF e
  <2>3. /\ Len(story'[q]) = Len(story[q]) + 1 /\ story'[q][Len(story[q]) + 1] = e
        /\ \A i \in 1 .. Len(story[q]) : story'[q][i] = story[q][i]
    BY <1>9, <2>1
  <2>4. all' = all \cup {n} /\ before(n)' = all \cup {n}
    <3>1. \A m \in 1 .. Len(reports) :
             m \in all' <=> m \in all \/ m = n
      BY <1>1, <1>2, <1>3, <1>4, <1>12 DEF StoredAbout, About
    <3>2. all' \subseteq 1 .. Len(reports) /\ all \subseteq 1 .. Len(reports)
      BY <1>1 DEF StoredAbout
    <3>3. all' = all \cup {n}
      BY <1>4, <3>1, <3>2
    <3>4. before(n)' = {m \in all' : m <= n}
      BY <1>1, <1>4 DEF StoredAbout
    <3>. QED
      BY <1>4, <1>8, <3>3, <3>4
  <2>5. n \notin all
    BY <1>3 DEF StoredAbout
  <2> HIDE DEF all, before
  <2>6. Cardinality(all \cup {n}) = Cardinality(all) + 1
    BY <1>7, <2>5, FS_AddElement
  <2>7. ASSUME NEW m \in all \cup {n}
        PROVE  story'[q][Cardinality(before(m)')].verdict = VerdictOf(m, q)
    <3>1. CASE m = n
      BY <1>6, <2>2, <2>3, <2>4, <2>6, <3>1
    <3>2. CASE m \in all
      BY <1>6, <1>7, <1>10, <2>3, <3>2
    <3>. QED
      BY <3>1, <3>2
  <2>. QED
    BY <1>6, <2>3, <2>4, <2>6, <2>7 DEF all, before
<1>. QED
  BY <1>11, <1>12

(* Every step keeps it.                                                     *)
LEMMA ReportedKeeps ==
    ASSUME QueueInv, QueueInv', IInv, CommittedIsReported, [Work]_allVars
    PROVE  CommittedIsReported'
<1>0. /\ reports \in Seq(LegalJobs) /\ Len(reports) \in Nat /\ Len(reports') \in Nat
      /\ \A m \in Numbers : fate[m] # "none" <=> m \in 1 .. Len(reports)
      /\ \A m \in 1 .. Len(reports) : m \in Numbers
      /\ \A m \in 1 .. Len(reports') : m \in Numbers
      /\ fate \in [Numbers -> Buffer!Fates]
  <2>1. ReportsType /\ FatesAreTrue /\ ReportsType' /\ FatesAreTrue'
    BY DEF QueueInv
  <2>2. Len(reports') \in Nat /\ Len(reports') <= MaxReports
    BY <2>1 DEF ReportsType
  <2>3. \A m \in 1 .. Len(reports') : m \in Numbers
    BY <2>2, QueueAssumption DEF Numbers
  <2>. QED
    BY <2>1, <2>2, <2>3, NumbersAre DEF ReportsType
<1>1. ASSUME NEW j, Enqueue(j) PROVE CommittedIsReported'
  <2> DEFINE n == Len(reports')
  <2>1. reports' = Append(reports, j) /\ story' = story
    BY <1>1 DEF Enqueue, vars, history
  <2>2. n \in Numbers /\ fate[n] = "none" /\
        \E f \in {"queued", "dropped", "discarded"} : fate' = [fate EXCEPT ![n] = f]
    BY <1>1 DEF Enqueue, Buffer!Accept, Buffer!Drop, Buffer!Ignore
  <2>3. n = Len(reports) + 1 /\ \A m \in 1 .. Len(reports) : reports'[m] = reports[m]
    BY <1>0, <2>1
  <2> HIDE DEF n
  <2>4. \A m \in Numbers : fate'[m] = "stored" <=> fate[m] = "stored"
    BY <1>0, <2>2
  <2>5. \A m \in 1 .. n : fate'[m] = "stored" <=> m \in 1 .. Len(reports) /\ fate[m] = "stored"
    BY <1>0, <2>4 DEF n
  <2>. QED
    BY <1>0, <2>1, <2>3, <2>5, NothingStored DEF n
<1>2. ASSUME story' = story, reports' = reports,
             \A m \in Numbers : fate'[m] = "stored" <=> fate[m] = "stored"
      PROVE  CommittedIsReported'
  BY <1>0, <1>2, NothingStored
<1>3. CASE Collected \/ Polled
  BY <1>1, <1>3 DEF Collected, Polled
<1>4. CASE Take
  <2>1. /\ fate' = [fate EXCEPT ![Head(queue)] = "storing"] /\ story' = story /\ reports' = reports
        /\ queue # <<>> /\ queue \in Seq(Numbers)
    BY <1>4 DEF Take, Buffer!Take, Begin, history, QueueInv, ReportsType
  <2>2. Head(queue) \in Numbers /\ fate[Head(queue)] = "queued"
    BY <2>1 DEF QueueInv, FatesAreTrue
  <2>. QED
    BY <1>0, <1>2, <2>1, <2>2
<1>5. CASE WriterStores
  BY <1>2, <1>5, RecordLeavesJob DEF WriterStores, buffer
<1>6. CASE Stored
  BY <1>6, StoredTells
<1>7. CASE StoreFails
  <2>1. story' = story /\ reports' = reports /\ BecomeOf("failed")
    BY <1>7 DEF StoreFails, Abort, history
  <2>2. \A m \in Numbers : fate'[m] = "stored" <=> fate[m] = "stored"
    BY <2>1 DEF BecomeOf, Storing
  <2>. QED
    BY <1>2, <2>1, <2>2
<1>8. CASE ProcessRestarts
  <2>1. /\ story' = story /\ reports' = reports
        /\ fate' = [m \in Numbers |-> IF fate[m] \in {"queued", "storing"} THEN "failed" ELSE fate[m]]
    BY <1>8 DEF ProcessRestarts, Restart, history
  <2>. QED
    BY <1>2, <2>1
<1>9. CASE Close \/ Later \/ UNCHANGED allVars
  BY <1>2, <1>9 DEF Close, Later, Tick, Buffer!Shut, allVars, vars, history, buffer
<1>. QED
  BY <1>3, <1>4, <1>5, <1>6, <1>7, <1>8, <1>9 DEF Work

(* The archive tells of every query what was reported and committed, in     *)
(* this order and nothing else, over drops, failed transactions and         *)
(* restarts (archive.go:141-166, 264).                                      *)
THEOREM CommittedStaysReported == ArchiveSpec => []CommittedIsReported
<1>1. StartArchive => CommittedIsReported
  <2> SUFFICES ASSUME StartArchive, NEW q \in Queries
               PROVE  Len(story[q]) = Cardinality(StoredAbout(q, Len(reports)))
                      /\ StoredAbout(q, Len(reports)) = {}
    BY DEF CommittedIsReported
  <2>1. Len(reports) = 0 /\ story[q] = <<>>
    BY DEF StartArchive, Init
  <2>2. StoredAbout(q, Len(reports)) = {}
    BY <2>1 DEF StoredAbout
  <2>. QED
    BY <2>1, <2>2, FS_EmptySet
<1>2. QueueInv /\ QueueInv' /\ IInv /\ CommittedIsReported /\ [Work]_allVars => CommittedIsReported'
  BY ReportedKeeps
<1>. QED
  BY <1>1, <1>2, QueueInvHolds, StoreHolds, PTL DEF ArchiveSpec

(* When the last report on a query is stored the archive says what it said: *)
(* nothing is open after a success, and after a failure an incident of its  *)
(* cause, unless its row was due for removal (archive.go:147, 224-252).     *)
THEOREM ArchiveStaysAgreed == ArchiveSpec => []ArchiveAgreesWithLastReport
<1>1. ASSUME QueueInv, IInv, StoryInv, CommittedIsReported PROVE ArchiveAgreesWithLastReport
  <2>0. /\ ReportsType /\ OpenIncidentsAreTrue /\ FailuresAreOpen /\ WellFormed(rows)
        /\ TypeOK /\ Len(reports) \in Nat /\ DOMAIN reports = 1 .. Len(reports)
    <3>1. WellFormed(rows) /\ TypeOK
      BY <1>1 DEF StoryInv, TableTells, Tells, IInv
    <3>2. Len(reports) \in Nat /\ DOMAIN reports = 1 .. Len(reports)
      BY <1>1 DEF QueueInv, ReportsType
    <3>. QED
      BY <1>1, <3>1, <3>2, StoryImplies DEF QueueInv
  <2> SUFFICES ASSUME NEW q \in Queries, NEW n \in 1 .. Len(reports), About(n, q),
                      fate[n] = "stored", \A m \in 1 .. Len(reports) : About(m, q) => m <= n
               PROVE  IF VerdictOf(n, q) = None THEN ActiveRows(rows, q) = {}
                      ELSE Removed(q) \/ \E r \in ActiveRows(rows, q) : r.cause = VerdictOf(n, q)
    BY <2>0 DEF ArchiveAgreesWithLastReport
  <2>1. n \in StoredAbout(q, Len(reports))
    BY DEF StoredAbout
  <2>2. StoredAbout(q, n) = StoredAbout(q, Len(reports))
    BY <2>0 DEF StoredAbout
  <2>3. Cardinality(StoredAbout(q, Len(reports))) \in Nat
        /\ Cardinality(StoredAbout(q, n)) \in 1 .. Cardinality(StoredAbout(q, Len(reports)))
    BY <2>0, <2>1, StoredAre
  <2>4. /\ Len(story[q]) = Cardinality(StoredAbout(q, n))
        /\ story[q][Cardinality(StoredAbout(q, n))].verdict = VerdictOf(n, q)
    BY <1>1, <2>1, <2>2 DEF CommittedIsReported
  <2>5. Len(story[q]) \in Nat /\ Len(story[q]) >= 1 /\ LastVerdict(q).verdict = VerdictOf(n, q)
    BY <2>3, <2>4 DEF LastVerdict
  <2>6. story[q] # <<>>
    BY <2>5
  <2>7. ASSUME NEW r \in ActiveRows(rows, q) PROVE r.cause = VerdictOf(n, q) /\ r.cause # None
    <3>1. r \in rows /\ r.active /\ r.query = q
      BY DEF ActiveRows
    <3>2. /\ r.count \in 1 .. Len(story[q])
          /\ \A i \in Len(story[q]) - r.count + 1 .. Len(story[q]) : story[q][i].verdict = r.cause
      BY <2>0, <3>1 DEF OpenIncidentsAreTrue
    <3>3. story[q][Len(story[q])].verdict = r.cause
      BY <2>5, <3>2
    <3>. QED
      BY <2>0, <2>5, <3>1, <3>3 DEF LastVerdict, WellFormed
  <2>8. VerdictOf(n, q) # None => ActiveRows(rows, q) # {} \/ Removed(q)
    BY <2>0, <2>5, <2>6 DEF FailuresAreOpen, Removed
  <2>. QED
    BY <2>7, <2>8
<1>. QED
  BY <1>1, QueueInvHolds, StoreHolds, CommittedStaysReported, PTL
=============================================================================
