--------------------------- MODULE RepeatLogProofs ---------------------------
(****************************************************************************)
(* Proofs about RepeatLog, for any collectors and lines, any limit and any  *)
(* number of calls.                                                         *)
(****************************************************************************)
EXTENDS RepeatLog, FiniteSetTheorems, TLAPS

-----------------------------------------------------------------------------
(* The invariant                                                            *)

\* The collectors that write a line now.
Writers(l) == {c \in Collectors : writing[c] = l}

\* A finite number of lines with their repetitions.
IsTable(t) ==
    /\ IsFiniteSet(DOMAIN t) /\ DOMAIN t \subseteq Lines
    /\ t = [l \in DOMAIN t |-> t[l]]
    /\ \A l \in DOMAIN t : t[l] \in Nat

TypeOK ==
    /\ IsTable(pending) /\ IsTable(batch)
    /\ writing \in [Collectors -> Lines \cup {None}]
    /\ \A c \in Collectors : writing[c] \in LinesOf[c] \cup {None}
    /\ summaries \in {"wait", "flush", "last", "done"} /\ stopping \in BOOLEAN
    /\ called \in [Lines -> Nat] /\ written \in [Lines -> Nat]
    /\ summarised \in [Lines -> Nat] /\ repeated \in [Lines -> Nat]
    /\ direct \in [Lines -> Nat]

\* A line that has passed the limiter is remembered, unless there is no room.
PassedIsRemembered ==
    \A l \in Lines : direct[l] > 0 =>
        l \in DOMAIN pending \/ Cardinality(DOMAIN pending) = Limit

CountInv == TypeOK /\ PassedIsRemembered /\ NothingIsForgotten /\ OncePerWindow

\* The goroutine waits for its ticker with nothing left of the last window.
WaitsWithoutBatch == summaries = "wait" => batch = Empty

IInv == CountInv /\ WaitsWithoutBatch

-----------------------------------------------------------------------------
(* Tables                                                                   *)

(* The empty table counts nothing.                                          *)
LEMMA EmptyIsTable ==
    /\ IsTable(Empty) /\ DOMAIN Empty = {} /\ Cardinality(DOMAIN Empty) = 0
    /\ \A l : Count(Empty, l) = 0
  BY FS_EmptySet DEF Empty, IsTable, Count

(* What a table counts of a line is a number.                               *)
LEMMA CountType ==
    ASSUME NEW t, IsTable(t), NEW l PROVE Count(t, l) \in Nat
  BY DEF IsTable, Count

(* A repetition is counted for its line.                                    *)
LEMMA CountOneMore ==
    ASSUME NEW t, IsTable(t), NEW l \in DOMAIN t
    PROVE  /\ IsTable(Plus1(t, l)) /\ DOMAIN Plus1(t, l) = DOMAIN t
           /\ Count(Plus1(t, l), l) = Count(t, l) + 1
           /\ \A k : k # l => Count(Plus1(t, l), k) = Count(t, k)
  BY DEF IsTable, Count, Plus1

(* A line is remembered without repetitions.                                *)
LEMMA RememberOne ==
    ASSUME NEW t, IsTable(t), NEW l \in Lines, l \notin DOMAIN t
    PROVE  LET new == [k \in DOMAIN t \cup {l} |-> IF k = l THEN 0 ELSE t[k]] IN
           /\ IsTable(new) /\ DOMAIN new = DOMAIN t \cup {l}
           /\ Cardinality(DOMAIN new) = Cardinality(DOMAIN t) + 1
           /\ \A k : Count(new, k) = Count(t, k)
<1> DEFINE new == [k \in DOMAIN t \cup {l} |-> IF k = l THEN 0 ELSE t[k]]
<1>1. /\ IsFiniteSet(DOMAIN t \cup {l})
      /\ Cardinality(DOMAIN t \cup {l}) = Cardinality(DOMAIN t) + 1
  BY FS_AddElement DEF IsTable
<1>2. DOMAIN new = DOMAIN t \cup {l}
  OBVIOUS
<1>3. IsTable(new)
  BY <1>1 DEF IsTable
<1>4. \A k : Count(new, k) = Count(t, k)
  BY DEF Count
<1>. QED
  BY <1>1, <1>2, <1>3, <1>4

(* A line is taken out with its repetitions.                                *)
LEMMA TakeOne ==
    ASSUME NEW t, IsTable(t), NEW l \in DOMAIN t
    PROVE  LET rest == Restrict(t, DOMAIN t \ {l}) IN
           /\ IsTable(rest)
           /\ Count(rest, l) = 0 /\ Count(t, l) = t[l]
           /\ \A k : k # l => Count(rest, k) = Count(t, k)
<1>1. IsFiniteSet(DOMAIN t \ {l})
  BY FS_RemoveElement DEF IsTable
<1>. QED
  BY <1>1 DEF IsTable, Restrict, Count

-----------------------------------------------------------------------------
(* The writers of a line                                                    *)

(* A line has one collector, so it is written by it or by none.             *)
LEMMA OneWriter ==
    ASSUME TypeOK, NEW c \in Collectors, NEW l \in LinesOf[c]
    PROVE  Writers(l) = IF writing[c] = l THEN {c} ELSE {}
<1>1. l \in Lines /\ l # None
  BY LinesAssumption DEF Lines
<1>2. \A e \in Collectors : e # c => l \notin LinesOf[e]
  BY LinesAssumption
<1>. QED
  BY <1>1, <1>2 DEF TypeOK, Writers

(* How many write a line is a number.                                       *)
LEMMA WritersType ==
    ASSUME TypeOK, NEW l \in Lines PROVE Cardinality(Writers(l)) \in Nat
<1>1. PICK c \in Collectors : l \in LinesOf[c]
  BY DEF Lines
<1>. QED
  BY <1>1, OneWriter, FS_EmptySet, FS_Singleton, FS_CardinalityType

-----------------------------------------------------------------------------
(* The steps                                                                *)

(* Nothing was logged yet.                                                  *)
LEMMA InitHolds == Init => IInv
<1> SUFFICES ASSUME Init PROVE IInv
  OBVIOUS
<1>1. TypeOK
  BY EmptyIsTable DEF Init, TypeOK, Never
<1>2. \A l \in Lines : Writers(l) = {}
  BY LinesAssumption DEF Init, Writers
<1>3. \A l \in Lines : called[l] = 0 /\ written[l] = 0 /\ summarised[l] = 0 /\ repeated[l] = 0
                       /\ direct[l] = 0
  BY DEF Init, Never
<1>4. NothingIsForgotten
  <2>1. \A l \in Lines : Cardinality(Writers(l)) = 0 /\ Count(pending, l) = 0 /\ Count(batch, l) = 0
    BY <1>2, EmptyIsTable, FS_EmptySet DEF Init
  <2>. QED
    BY <1>3, <2>1 DEF NothingIsForgotten, Writers
<1>5. PassedIsRemembered /\ OncePerWindow
  BY <1>3, EmptyIsTable, LimitAssumption DEF Init, PassedIsRemembered, OncePerWindow
<1>. QED
  BY <1>1, <1>4, <1>5 DEF Init, IInv, CountInv, WaitsWithoutBatch

(* A repetition: it is counted in the table and nowhere else.               *)
LEMMA LogRepeatedKeeps ==
    ASSUME CountInv, NEW c \in Collectors, NEW l \in Lines, LogRepeated(c, l) PROVE CountInv'
<1>1. /\ l \in DOMAIN pending /\ pending' = Plus1(pending, l)
      /\ called' = Plus1(called, l) /\ repeated' = Plus1(repeated, l)
      /\ UNCHANGED <<batch, summaries, stopping, written, summarised, writing, direct>>
  BY DEF LogRepeated, Logs
<1>2. /\ IsTable(pending') /\ DOMAIN pending' = DOMAIN pending
      /\ Count(pending', l) = Count(pending, l) + 1
      /\ \A k : k # l => Count(pending', k) = Count(pending, k)
  BY <1>1, CountOneMore DEF CountInv, TypeOK
<1>3. TypeOK'
  BY <1>1, <1>2 DEF CountInv, TypeOK, Plus1
<1>4. PassedIsRemembered' /\ OncePerWindow'
  BY <1>1, <1>2 DEF CountInv, PassedIsRemembered, OncePerWindow
<1>5. NothingIsForgotten'
  <2> SUFFICES ASSUME NEW k \in Lines
               PROVE  /\ called'[k] = written[k] + Cardinality(Writers(k)) + summarised[k]
                                      + Count(pending', k) + Count(batch, k)
                      /\ repeated'[k] = summarised[k] + Count(pending', k) + Count(batch, k)
    BY <1>1 DEF NothingIsForgotten, Writers
  <2>1. /\ called[k] = written[k] + Cardinality(Writers(k)) + summarised[k]
                       + Count(pending, k) + Count(batch, k)
        /\ repeated[k] = summarised[k] + Count(pending, k) + Count(batch, k)
    BY DEF CountInv, NothingIsForgotten, Writers
  <2>2. /\ written[k] \in Nat /\ summarised[k] \in Nat /\ Cardinality(Writers(k)) \in Nat
        /\ Count(pending, k) \in Nat /\ Count(batch, k) \in Nat
    BY WritersType, CountType DEF CountInv, TypeOK
  <2>3. CASE k = l
    <3>1. called'[k] = called[k] + 1 /\ repeated'[k] = repeated[k] + 1
      BY <1>1, <2>3 DEF CountInv, TypeOK, Plus1
    <3>. QED
      BY <1>2, <2>1, <2>2, <2>3, <3>1
  <2>4. CASE k # l
    <3>1. called'[k] = called[k] /\ repeated'[k] = repeated[k]
      BY <1>1, <2>4 DEF CountInv, TypeOK, Plus1
    <3>. QED
      BY <1>2, <2>1, <2>2, <2>4, <3>1
  <2>. QED
    BY <2>3, <2>4
<1>. QED
  BY <1>3, <1>4, <1>5 DEF CountInv

(* A line that is not remembered: its collector is on the way to write it.  *)
LEMMA LogNewKeeps ==
    ASSUME CountInv, NEW c \in Collectors, NEW l \in Lines, LogNew(c, l) PROVE CountInv'
<1>1. /\ writing[c] = None /\ l \in LinesOf[c] /\ l \notin DOMAIN pending
      /\ called' = Plus1(called, l) /\ direct' = Plus1(direct, l)
      /\ writing' = [writing EXCEPT ![c] = l]
      /\ UNCHANGED <<batch, summaries, stopping, written, summarised, repeated>>
  BY DEF LogNew, Logs
<1>2. TypeOK /\ l # None
  BY LinesAssumption DEF CountInv
<1>3. Cardinality(DOMAIN pending) \in Nat /\ Cardinality(DOMAIN pending) <= Limit
  BY <1>2, FS_CardinalityType DEF TypeOK, IsTable, CountInv, OncePerWindow
<1>4. /\ IsTable(pending') /\ \A k : Count(pending', k) = Count(pending, k)
      /\ \/ /\ Cardinality(DOMAIN pending) < Limit
            /\ DOMAIN pending' = DOMAIN pending \cup {l}
            /\ Cardinality(DOMAIN pending') = Cardinality(DOMAIN pending) + 1
         \/ pending' = pending /\ Cardinality(DOMAIN pending) = Limit
  <2>1. CASE Cardinality(DOMAIN pending) < Limit
    <3>1. pending' = [k \in DOMAIN pending \cup {l} |-> IF k = l THEN 0 ELSE pending[k]]
      BY <2>1 DEF LogNew, Remember
    <3> DEFINE new == [k \in DOMAIN pending \cup {l} |-> IF k = l THEN 0 ELSE pending[k]]
    <3>2. /\ IsTable(new) /\ DOMAIN new = DOMAIN pending \cup {l}
          /\ Cardinality(DOMAIN new) = Cardinality(DOMAIN pending) + 1
          /\ \A k : Count(new, k) = Count(pending, k)
      BY <1>1, <1>2, RememberOne DEF TypeOK
    <3> HIDE DEF new
    <3>3. pending' = new
      BY <3>1 DEF new
    <3>. QED
      BY <2>1, <3>2, <3>3
  <2>2. CASE ~(Cardinality(DOMAIN pending) < Limit)
    <3>1. pending' = pending
      BY <2>2 DEF LogNew, Remember
    <3>. QED
      BY <1>2, <1>3, <2>2, <3>1, LimitAssumption DEF TypeOK
  <2>. QED
    BY <2>1, <2>2
<1>5. TypeOK'
  <2>1. writing' \in [Collectors -> Lines \cup {None}]
        /\ \A e \in Collectors : writing'[e] \in LinesOf[e] \cup {None}
    BY <1>1, <1>2 DEF TypeOK
  <2>2. called' \in [Lines -> Nat] /\ direct' \in [Lines -> Nat]
    BY <1>1, <1>2 DEF TypeOK, Plus1
  <2>. QED
    BY <1>1, <1>2, <1>4, <2>1, <2>2 DEF TypeOK
<1>6. direct \in [Lines -> Nat]
      /\ \A k \in Lines : direct'[k] = IF k = l THEN direct[k] + 1 ELSE direct[k]
  BY <1>1, <1>2 DEF TypeOK, Plus1
<1>7. PassedIsRemembered' /\ OncePerWindow'
  <2>1. PassedIsRemembered /\ OncePerWindow
    BY DEF CountInv
  <2>2. CASE pending' = pending /\ Cardinality(DOMAIN pending) = Limit
    BY <1>1, <1>6, <2>1, <2>2, LimitAssumption DEF PassedIsRemembered, OncePerWindow
  <2>3. CASE /\ Cardinality(DOMAIN pending) < Limit
             /\ DOMAIN pending' = DOMAIN pending \cup {l}
             /\ Cardinality(DOMAIN pending') = Cardinality(DOMAIN pending) + 1
    <3>1. \A k \in Lines : direct[k] <= 1 /\ (direct[k] > 0 => k \in DOMAIN pending)
      BY <1>3, <1>6, <2>1, <2>3, LimitAssumption DEF PassedIsRemembered, OncePerWindow
    <3>2. direct'[l] <= 1
      BY <1>1, <1>6, <3>1
    <3>3. \A k \in Lines : direct'[k] <= 1 /\ (direct'[k] > 0 => k \in DOMAIN pending')
      BY <1>6, <2>3, <3>1, <3>2
    <3>4. Cardinality(DOMAIN pending') <= Limit
      BY <1>3, <2>3, LimitAssumption
    <3>. QED
      BY <1>5, <3>3, <3>4 DEF PassedIsRemembered, OncePerWindow, TypeOK
  <2>. QED
    BY <1>4, <2>2, <2>3
<1>8. NothingIsForgotten'
  <2> SUFFICES ASSUME NEW k \in Lines
               PROVE  /\ called'[k] = written[k] + Cardinality(Writers(k)') + summarised[k]
                                      + Count(pending, k) + Count(batch, k)
                      /\ repeated[k] = summarised[k] + Count(pending, k) + Count(batch, k)
    BY <1>1, <1>4 DEF NothingIsForgotten, Writers
  <2>1. /\ called[k] = written[k] + Cardinality(Writers(k)) + summarised[k]
                       + Count(pending, k) + Count(batch, k)
        /\ repeated[k] = summarised[k] + Count(pending, k) + Count(batch, k)
    BY DEF CountInv, NothingIsForgotten, Writers
  <2>2. /\ written[k] \in Nat /\ summarised[k] \in Nat /\ Cardinality(Writers(k)) \in Nat
        /\ Count(pending, k) \in Nat /\ Count(batch, k) \in Nat
    BY WritersType, CountType, <1>2 DEF TypeOK
  <2>3. CASE k = l
    <3>1. called'[k] = called[k] + 1
      BY <1>1, <1>2, <2>3 DEF TypeOK, Plus1
    <3>2. Writers(k) = {}
      BY <1>1, <1>2, <2>3, OneWriter
    <3>3. Writers(k)' = {c}
      BY <1>1, <1>2, <2>3, <3>2 DEF Writers, TypeOK
    <3>4. Cardinality(Writers(k)) = 0 /\ Cardinality(Writers(k)') = 1
      BY <3>2, <3>3, FS_EmptySet, FS_Singleton
    <3>. QED
      BY <2>1, <2>2, <3>1, <3>4
  <2>4. CASE k # l
    <3>1. called'[k] = called[k]
      BY <1>1, <1>2, <2>4 DEF TypeOK, Plus1
    <3>2. k # None
      BY LinesAssumption
    <3>3. Writers(k)' = Writers(k)
      BY <1>1, <1>2, <2>4, <3>2 DEF Writers, TypeOK
    <3>. QED
      BY <2>1, <3>1, <3>3
  <2>. QED
    BY <2>3, <2>4
<1>. QED
  BY <1>5, <1>7, <1>8 DEF CountInv

(* The line is written.                                                     *)
LEMMA WrittenKeeps ==
    ASSUME CountInv, NEW c \in Collectors, Written(c) PROVE CountInv'
<1> DEFINE l == writing[c]
<1>1. /\ l # None /\ writing' = [writing EXCEPT ![c] = None]
      /\ written' = Plus1(written, l)
      /\ UNCHANGED <<pending, batch, summaries, stopping, called, summarised, repeated, direct>>
  BY DEF Written, limiter
<1>2. TypeOK /\ l \in LinesOf[c] /\ l \in Lines
  BY <1>1 DEF CountInv, TypeOK, Lines
<1>3. writing[c] = l
  OBVIOUS
<1> HIDE DEF l
<1>4. TypeOK'
  <2>1. writing' \in [Collectors -> Lines \cup {None}]
        /\ \A e \in Collectors : writing'[e] \in LinesOf[e] \cup {None}
    BY <1>1, <1>2 DEF TypeOK
  <2>2. written' \in [Lines -> Nat]
    BY <1>1, <1>2 DEF TypeOK, Plus1
  <2>. QED
    BY <1>1, <1>2, <2>1, <2>2 DEF TypeOK
<1>5. PassedIsRemembered' /\ OncePerWindow'
  BY <1>1 DEF CountInv, PassedIsRemembered, OncePerWindow
<1>6. NothingIsForgotten'
  <2> SUFFICES ASSUME NEW k \in Lines
               PROVE  /\ called[k] = written'[k] + Cardinality(Writers(k)') + summarised[k]
                                     + Count(pending, k) + Count(batch, k)
                      /\ repeated[k] = summarised[k] + Count(pending, k) + Count(batch, k)
    BY <1>1 DEF NothingIsForgotten, Writers
  <2>1. /\ called[k] = written[k] + Cardinality(Writers(k)) + summarised[k]
                       + Count(pending, k) + Count(batch, k)
        /\ repeated[k] = summarised[k] + Count(pending, k) + Count(batch, k)
    BY DEF CountInv, NothingIsForgotten, Writers
  <2>2. /\ written[k] \in Nat /\ summarised[k] \in Nat
        /\ Count(pending, k) \in Nat /\ Count(batch, k) \in Nat
    BY CountType, <1>2 DEF TypeOK
  <2>3. k # None
    BY LinesAssumption
  <2>4. CASE k = l
    <3>1. written'[k] = written[k] + 1
      BY <1>1, <1>2, <2>4 DEF TypeOK, Plus1
    <3>2. Writers(k) = {c}
      BY <1>2, <1>3, <2>4, OneWriter
    <3>3. Writers(k)' = {}
      BY <1>1, <1>2, <2>3, <3>2 DEF Writers, TypeOK
    <3>4. Cardinality(Writers(k)) = 1 /\ Cardinality(Writers(k)') = 0
      BY <3>2, <3>3, FS_EmptySet, FS_Singleton
    <3>. QED
      BY <2>1, <2>2, <3>1, <3>4
  <2>5. CASE k # l
    <3>1. written'[k] = written[k]
      BY <1>1, <1>2, <2>5 DEF TypeOK, Plus1
    <3>2. Writers(k)' = Writers(k)
      BY <1>1, <1>2, <1>3, <2>3, <2>5 DEF Writers, TypeOK
    <3>. QED
      BY <2>1, <3>1, <3>2
  <2>. QED
    BY <2>4, <2>5
<1>. QED
  BY <1>4, <1>5, <1>6 DEF CountInv

(* The whole table changes hands: the batch that it replaces is empty.      *)
LEMMA FlushKeeps ==
    ASSUME CountInv, batch = Empty, NEW next \in {"flush", "last"}, Flush(next) PROVE CountInv'
<1>1. /\ batch' = pending /\ pending' = Empty /\ direct' = Never /\ summaries' = next
      /\ UNCHANGED <<writing, stopping, called, written, summarised, repeated>>
  BY DEF Flush, Swap
<1>2. TypeOK'
  BY <1>1, EmptyIsTable DEF CountInv, TypeOK, Never
<1>3. PassedIsRemembered' /\ OncePerWindow'
  BY <1>1, EmptyIsTable, LimitAssumption DEF PassedIsRemembered, OncePerWindow, Never
<1>4. NothingIsForgotten'
  <2> SUFFICES ASSUME NEW k \in Lines
               PROVE  /\ called[k] = written[k] + Cardinality(Writers(k)) + summarised[k]
                                     + Count(Empty, k) + Count(pending, k)
                      /\ repeated[k] = summarised[k] + Count(Empty, k) + Count(pending, k)
    BY <1>1 DEF NothingIsForgotten, Writers
  <2>1. /\ called[k] = written[k] + Cardinality(Writers(k)) + summarised[k]
                       + Count(pending, k) + Count(Empty, k)
        /\ repeated[k] = summarised[k] + Count(pending, k) + Count(Empty, k)
    BY DEF CountInv, NothingIsForgotten, Writers
  <2>2. /\ written[k] \in Nat /\ summarised[k] \in Nat /\ Cardinality(Writers(k)) \in Nat
        /\ Count(pending, k) \in Nat /\ Count(Empty, k) = 0
    BY WritersType, CountType, EmptyIsTable DEF CountInv, TypeOK
  <2>. QED
    BY <2>1, <2>2
<1>. QED
  BY <1>2, <1>3, <1>4 DEF CountInv

(* A line of the batch is summarised.                                       *)
LEMMA SummariseKeeps == ASSUME CountInv, Summarise PROVE CountInv'
<1>1. PICK l \in DOMAIN batch : /\ batch' = Restrict(batch, DOMAIN batch \ {l})
                                /\ summarised' = [summarised EXCEPT ![l] = @ + batch[l]]
  BY DEF Summarise
<1>2. UNCHANGED <<pending, writing, summaries, stopping, called, written, repeated, direct>>
  BY DEF Summarise, goroutines
<1>3. /\ IsTable(batch') /\ Count(batch', l) = 0 /\ Count(batch, l) = batch[l]
      /\ \A k : k # l => Count(batch', k) = Count(batch, k)
  BY <1>1, TakeOne DEF CountInv, TypeOK
<1>4. l \in Lines /\ batch[l] \in Nat
  BY DEF CountInv, TypeOK, IsTable
<1>5. summarised \in [Lines -> Nat] /\ summarised' \in [Lines -> Nat]
      /\ \A k \in Lines : summarised'[k] = IF k = l THEN summarised[k] + batch[l] ELSE summarised[k]
  BY <1>1, <1>4 DEF CountInv, TypeOK
<1>6. TypeOK'
  BY <1>2, <1>3, <1>5 DEF CountInv, TypeOK
<1>7. PassedIsRemembered' /\ OncePerWindow'
  BY <1>2 DEF CountInv, PassedIsRemembered, OncePerWindow
<1>8. NothingIsForgotten'
  <2> SUFFICES ASSUME NEW k \in Lines
               PROVE  /\ called[k] = written[k] + Cardinality(Writers(k)) + summarised'[k]
                                     + Count(pending, k) + Count(batch', k)
                      /\ repeated[k] = summarised'[k] + Count(pending, k) + Count(batch', k)
    BY <1>2 DEF NothingIsForgotten, Writers
  <2>1. /\ called[k] = written[k] + Cardinality(Writers(k)) + summarised[k]
                       + Count(pending, k) + Count(batch, k)
        /\ repeated[k] = summarised[k] + Count(pending, k) + Count(batch, k)
    BY DEF CountInv, NothingIsForgotten, Writers
  <2>2. /\ written[k] \in Nat /\ summarised[k] \in Nat /\ Cardinality(Writers(k)) \in Nat
        /\ Count(pending, k) \in Nat /\ Count(batch, k) \in Nat
    BY WritersType, CountType DEF CountInv, TypeOK
  <2>3. summarised'[k] + Count(batch', k) = summarised[k] + Count(batch, k)
    BY <1>3, <1>4, <1>5, <2>2
  <2>4. summarised'[k] \in Nat /\ Count(batch', k) \in Nat
    BY <1>3, <1>5, CountType
  <2>. QED
    BY <2>1, <2>2, <2>3, <2>4
<1>. QED
  BY <1>6, <1>7, <1>8 DEF CountInv

(* What only moves the goroutine on changes no count.                       *)
LEMMA ControlKeeps ==
    ASSUME CountInv, UNCHANGED <<limiter, writing, history>>,
           summaries' \in {"wait", "flush", "last", "done"}, stopping' \in BOOLEAN
    PROVE  CountInv'
  BY DEF limiter, history, CountInv, TypeOK, PassedIsRemembered, NothingIsForgotten, OncePerWindow,
         Count, IsTable

(* No collector touches the batch or the goroutine that has it.             *)
LEMMA LogKeeps == ASSUME IInv, NEW c \in Collectors, Log(c) PROVE IInv'
<1>1. CountInv'
  BY LogRepeatedKeeps, LogNewKeeps, WrittenKeeps DEF IInv, Log
<1>2. UNCHANGED <<summaries, batch>>
  BY DEF Log, LogRepeated, LogNew, Logs, Written, limiter
<1>. QED
  BY <1>1, <1>2 DEF IInv, WaitsWithoutBatch

(* The goroutine of the summaries takes a table only when it waits.         *)
LEMMA SummariesKeep == ASSUME IInv, Summaries PROVE IInv'
<1>1. CASE Ticker \/ Stopped
  <2>1. PICK next \in {"flush", "last"} : Flush(next)
    BY <1>1 DEF Ticker, Stopped
  <2>2. batch = Empty /\ summaries' = next
    BY <2>1 DEF Flush, IInv, WaitsWithoutBatch
  <2>. QED
    BY <2>1, <2>2, FlushKeeps DEF IInv, WaitsWithoutBatch
<1>2. CASE Summarise
  <2>1. summaries' # "wait"
    BY <1>2 DEF Summarise, goroutines
  <2>. QED
    BY <1>2, <2>1, SummariseKeeps DEF IInv, WaitsWithoutBatch
<1>3. CASE Flushed
  <2>1. /\ summaries' \in {"wait", "done"} /\ stopping' \in BOOLEAN
        /\ UNCHANGED <<limiter, writing, history>> /\ batch' = Empty
    BY <1>3 DEF Flushed, limiter, IInv, CountInv, TypeOK
  <2>. QED
    BY <2>1, ControlKeeps DEF IInv, WaitsWithoutBatch
<1>. QED
  BY <1>1, <1>2, <1>3 DEF Summaries

(* main asks for the end, or nothing happens.                               *)
LEMMA StopKeeps == ASSUME IInv, Stop \/ UNCHANGED vars PROVE IInv'
<1>1. /\ summaries' = summaries /\ stopping' \in BOOLEAN /\ batch' = batch
      /\ UNCHANGED <<limiter, writing, history>>
  BY DEF Stop, vars, limiter, goroutines, IInv, CountInv, TypeOK
<1>2. summaries' \in {"wait", "flush", "last", "done"}
  BY <1>1 DEF IInv, CountInv, TypeOK
<1>. QED
  BY <1>1, <1>2, ControlKeeps DEF IInv, WaitsWithoutBatch

-----------------------------------------------------------------------------
(* The theorems                                                             *)

(* The inductive invariant: the two properties, the types, and what was     *)
(* let through in this window is remembered or there is no room.            *)
THEOREM InvariantHolds == Spec => []IInv
<1>1. IInv /\ [Next]_vars => IInv'
  BY LogKeeps, SummariesKeep, StopKeeps DEF Next, Ended
<1>. QED
  BY InitHolds, <1>1, PTL DEF Spec

(* Every occurrence of a line is told once, by itself or in a summary, at   *)
(* whatever moment the table is taken (collection_log.go:56-99).            *)
THEOREM EverythingIsTold == Spec => []NothingIsForgotten
<1>1. IInv => NothingIsForgotten
  BY DEF IInv, CountInv
<1>. QED
  BY InvariantHolds, <1>1, PTL

(* A line passes the limiter twice in a window only if there is no room for *)
(* it, and the table keeps its limit (collection_log.go:56-67).             *)
THEOREM LinesPassOnce == Spec => []OncePerWindow
<1>1. IInv => OncePerWindow
  BY DEF IInv, CountInv
<1>. QED
  BY InvariantHolds, <1>1, PTL


-----------------------------------------------------------------------------
(* Termination: the goroutine of the summaries is not kept busy by lines    *)
(* that go on being logged while it flushes.                                *)
Flushing == summaries \in {"flush", "last"}

\* The summaries of the flush at hand that are still to be made, and its end.
FlushLeft == IF Flushing THEN Cardinality(DOMAIN batch) + 1 ELSE 0

FlushIsBounded == FlushLeft <= Limit + 1

(* Each summary is one less to make, and no line that is logged meanwhile   *)
(* is added to the flush (collection_log.go:70-79).                         *)
FlushIsFinite ==
    [][/\ Summarise \/ Flushed => FlushLeft' < FlushLeft
       /\ Flushing => FlushLeft' <= FlushLeft]_vars

\* A batch was a table once, and a table has its limit.
BatchIsBounded == Cardinality(DOMAIN batch) <= Limit

(* A line that is summarised leaves the batch.                              *)
LEMMA SummariseShrinks ==
    ASSUME TypeOK, Summarise
    PROVE  /\ Cardinality(DOMAIN batch) \in Nat /\ Cardinality(DOMAIN batch') \in Nat
           /\ Cardinality(DOMAIN batch') = Cardinality(DOMAIN batch) - 1
           /\ summaries' = summaries
<1>1. PICK l \in DOMAIN batch : batch' = Restrict(batch, DOMAIN batch \ {l})
  BY DEF Summarise
<1>2. DOMAIN batch' = DOMAIN batch \ {l}
  BY <1>1 DEF Restrict
<1>3. IsFiniteSet(DOMAIN batch)
  BY DEF TypeOK, IsTable
<1>. QED
  BY <1>2, <1>3, FS_RemoveElement, FS_CardinalityType DEF Summarise, goroutines

(* What the other steps do to a flush: they end it, or leave it alone, or   *)
(* there is none.                                                           *)
LEMMA OthersLeaveTheFlush ==
    ASSUME IInv, Next, ~Summarise
    PROVE  \/ batch' = batch /\ (summaries' = summaries \/ (Flushing /\ ~Flushing'))
           \/ ~Flushing /\ batch' = pending
<1>1. ASSUME NEW c \in Collectors, Log(c) PROVE batch' = batch /\ summaries' = summaries
  BY <1>1 DEF Log, LogRepeated, LogNew, Logs, Written, limiter
<1>2. CASE Ticker \/ Stopped
  BY <1>2 DEF Ticker, Stopped, Flush, Swap, Flushing
<1>3. CASE Flushed
  BY <1>3 DEF Flushed, limiter, Flushing
<1>4. CASE Stop \/ Ended
  BY <1>4 DEF Stop, Ended, limiter, goroutines, vars
<1>. QED
  BY <1>1, <1>2, <1>3, <1>4 DEF Next, Summaries

(* No flush makes more than Limit summaries (1024 in the code), however     *)
(* fast the errors come in (collection_log.go:61, 70-79).                   *)
THEOREM FlushesAreFinite == Spec => []FlushIsBounded /\ FlushIsFinite
<1>1. Init => BatchIsBounded
  BY EmptyIsTable, LimitAssumption DEF Init, BatchIsBounded
<1>2. IInv /\ BatchIsBounded /\ [Next]_vars => BatchIsBounded'
  <2>. SUFFICES ASSUME IInv, BatchIsBounded, [Next]_vars PROVE BatchIsBounded'
    OBVIOUS
  <2>1. CASE Summarise
    BY <2>1, SummariseShrinks, LimitAssumption DEF IInv, CountInv, BatchIsBounded
  <2>2. CASE Next /\ ~Summarise
    BY <2>2, OthersLeaveTheFlush DEF IInv, CountInv, OncePerWindow, BatchIsBounded
  <2>3. CASE UNCHANGED vars
    BY <2>3 DEF vars, limiter, BatchIsBounded
  <2>. QED
    BY <2>1, <2>2, <2>3
<1>3. IInv /\ BatchIsBounded => FlushIsBounded
  BY FS_CardinalityType, LimitAssumption
  DEF IInv, CountInv, TypeOK, IsTable, BatchIsBounded, FlushIsBounded, FlushLeft
<1>4. IInv /\ [Next]_vars =>
          [/\ Summarise \/ Flushed => FlushLeft' < FlushLeft
           /\ Flushing => FlushLeft' <= FlushLeft]_vars
  <2>. SUFFICES ASSUME IInv, Next
                PROVE  /\ Summarise \/ Flushed => FlushLeft' < FlushLeft
                       /\ Flushing => FlushLeft' <= FlushLeft
    OBVIOUS
  <2>1. Cardinality(DOMAIN batch) \in Nat
    BY FS_CardinalityType DEF IInv, CountInv, TypeOK, IsTable
  <2>2. CASE Summarise
    <3>1. Flushing /\ Flushing'
      BY <2>2, SummariseShrinks DEF Summarise, Flushing, IInv, CountInv
    <3>2. FlushLeft' < FlushLeft /\ FlushLeft' <= FlushLeft
      BY <2>2, <3>1, SummariseShrinks DEF FlushLeft, IInv, CountInv
    <3>. QED
      BY <3>2
  <2>3. CASE ~Summarise
    <3>1. Flushed => Flushing /\ ~Flushing'
      BY DEF Flushed, Flushing
    <3>. QED
      BY <2>1, <2>3, <3>1, OthersLeaveTheFlush DEF FlushLeft, Flushing
  <2>. QED
    BY <2>2, <2>3
<1>. QED
  BY InvariantHolds, <1>1, <1>2, <1>3, <1>4, PTL DEF Spec, FlushIsFinite
=============================================================================
