----------------------------- MODULE RepeatLog -----------------------------
(****************************************************************************)
(* The limiter of repeated collection messages (collection_log.go): a       *)
(* message is written at once the first time it occurs in a window, its     *)
(* repetitions are counted, and the goroutine of startCollectionLogSummaries *)
(* writes the counts when its ticker fires and once more when main stops it *)
(* (main.go:1054-1055).                                                     *)
(*                                                                          *)
(* A line stands for the key of the limiter: level, message and identities. *)
(* The collectors log from goroutines of their own, each under its own      *)
(* mutex, and no message of one is a message of another.                    *)
(****************************************************************************)
EXTENDS Integers, FiniteSets, Functions

CONSTANTS
    Collectors, \* the goroutines that log
    LinesOf,    \* the lines each of them may log
    None,       \* no line
    Limit,      \* how many lines are remembered, 1024
    MaxCalls    \* bound: how often a line occurs

Lines == UNION {LinesOf[c] : c \in Collectors}

ASSUME LinesAssumption ==
    /\ None \notin Lines
    /\ \A c, e \in Collectors : c # e => LinesOf[c] \cap LinesOf[e] = {}
ASSUME LimitAssumption == Limit \in Nat /\ MaxCalls \in Nat

VARIABLES
    pending,    \* the lines remembered in this window, with their repetitions
    writing,    \* the line a collector writes, after it has released the lock
    batch,      \* the lines of the last window that are still to be summarised
    summaries,  \* the goroutine: "wait", "flush", "last" flush, "done"
    stopping,   \* close(stop) of main
    called,     \* history: how often each line occurred
    written,    \* history: how often it was written by itself
    summarised, \* history: the sum of its summaries
    repeated,   \* history: how often it was only counted
    direct      \* history: how often it was not counted in this window

limiter == <<pending, batch>>
goroutines == <<writing, summaries, stopping>>
history == <<called, written, summarised, repeated, direct>>
vars == <<limiter, goroutines, history>>

Never == [l \in Lines |-> 0]
Empty == [l \in {} |-> 0]
Plus1(count, l) == [count EXCEPT ![l] = @ + 1]

Init ==
    /\ pending = Empty /\ batch = Empty
    /\ writing = [c \in Collectors |-> None]
    /\ summaries = "wait" /\ stopping = FALSE
    /\ called = Never /\ written = Never /\ summarised = Never
    /\ repeated = Never /\ direct = Never

-----------------------------------------------------------------------------
(* repeatLogLimiter.log                                                     *)

Logs(c, l) ==
    /\ writing[c] = None
    /\ l \in LinesOf[c]
    /\ called[l] < MaxCalls
    /\ called' = Plus1(called, l)
    /\ UNCHANGED <<batch, summaries, stopping, written, summarised>>

\* Known in this window: counted and not written.
LogRepeated(c, l) ==
    /\ Logs(c, l)
    /\ l \in DOMAIN pending
    /\ pending' = Plus1(pending, l)
    /\ repeated' = Plus1(repeated, l)
    /\ UNCHANGED <<writing, direct>>

\* Mutant of Remember: a line is remembered although the table is full.
RememberAlways(l) == pending' = [k \in DOMAIN pending \cup {l} |-> IF k = l THEN 0 ELSE pending[k]]

\* "Bound memory even if errors contain changing text"
Remember(l) ==
    IF Cardinality(DOMAIN pending) < Limit
    THEN pending' = [k \in DOMAIN pending \cup {l} |-> IF k = l THEN 0 ELSE pending[k]]
    ELSE UNCHANGED pending

\* New in this window: the lock is released before it is written.
LogNew(c, l) ==
    /\ Logs(c, l)
    /\ l \notin DOMAIN pending
    /\ Remember(l)
    /\ writing' = [writing EXCEPT ![c] = l]
    /\ direct' = Plus1(direct, l)
    /\ UNCHANGED repeated

Written(c) ==
    /\ writing[c] # None
    /\ writing' = [writing EXCEPT ![c] = None]
    /\ written' = Plus1(written, writing[c])
    /\ UNCHANGED <<limiter, summaries, stopping, called, summarised, repeated, direct>>

-----------------------------------------------------------------------------
(* The goroutine of the summaries                                           *)

\* Mutant of Swap: the table is emptied without having been taken.
Discard == batch' = Empty /\ pending' = Empty

\* Under the lock: the table is taken and an empty one put in its place.
Swap == batch' = pending /\ pending' = Empty

Flush(next) ==
    /\ summaries = "wait"
    /\ summaries' = next
    /\ Swap
    /\ direct' = Never
    /\ UNCHANGED <<writing, stopping, called, written, summarised, repeated>>

Ticker == Flush("flush")

\* Mutant of Stopped: the goroutine returns at once.
StoppedAtOnce ==
    /\ stopping
    /\ summaries = "wait"
    /\ summaries' = "done"
    /\ UNCHANGED <<limiter, writing, stopping, history>>

Stopped == stopping /\ Flush("last")

\* The range over the map, in any order; a line without repetitions is passed
\* over.
Summarise ==
    /\ summaries \in {"flush", "last"}
    /\ \E l \in DOMAIN batch :
          /\ batch' = Restrict(batch, DOMAIN batch \ {l})
          /\ summarised' = [summarised EXCEPT ![l] = @ + batch[l]]
    /\ UNCHANGED <<pending, goroutines, called, written, repeated, direct>>

Flushed ==
    /\ summaries \in {"flush", "last"}
    /\ batch = Empty
    /\ summaries' = IF summaries = "last" THEN "done" ELSE "wait"
    /\ UNCHANGED <<limiter, writing, stopping, history>>

\* The deferred stopLogSummaries, after serveExporter; a scrape that has
\* outlived the shutdown minute may still log.
Stop ==
    /\ ~stopping
    /\ stopping' = TRUE
    /\ UNCHANGED <<limiter, writing, summaries, history>>

-----------------------------------------------------------------------------
Log(c) == (\E l \in Lines : LogRepeated(c, l) \/ LogNew(c, l)) \/ Written(c)
Summaries == Ticker \/ Stopped \/ Summarise \/ Flushed

\* The process ends.
Ended == summaries = "done" /\ UNCHANGED vars

Next == (\E c \in Collectors : Log(c)) \/ Summaries \/ Stop \/ Ended

Spec == Init /\ [][Next]_vars

\* The goroutine runs when it can, and its ticker fires every five minutes.
FairSpec == Spec /\ WF_vars(Summaries)

-----------------------------------------------------------------------------
Count(table, l) == IF l \in DOMAIN table THEN table[l] ELSE 0

(* "Error counters and query diagnostics remain unchanged", and so does     *)
(* what the log tells: every occurrence was written by itself, is in a      *)
(* summary, or is on its way to one of both, and none is told twice; the    *)
(* table may be taken at any moment between two calls of log                *)
(* (collection_log.go:56-79).                                               *)
NothingIsForgotten ==
    \A l \in Lines :
        /\ called[l] = written[l] + Cardinality({c \in Collectors : writing[c] = l})
                       + summarised[l] + Count(pending, l) + Count(batch, l)
        /\ repeated[l] = summarised[l] + Count(pending, l) + Count(batch, l)

(* "Logged immediately on their first occurrence in each five-minute        *)
(* window": a line gets past the limiter more than once in a window only if *)
(* the table is full, and the table never holds more than its limit         *)
(* (collection_log.go:56-67, README.md:184).                                *)
OncePerWindow ==
    /\ Cardinality(DOMAIN pending) <= Limit
    /\ \A l \in Lines : direct[l] > 1 => Cardinality(DOMAIN pending) = Limit /\ l \notin DOMAIN pending

(* "Summaries also flush on graceful shutdown": a repetition that was       *)
(* counted before the last flush is summarised in the end, also when main   *)
(* stops the goroutine in the middle of another flush                       *)
(* (collection_log.go:70-99, README.md:184).                               *)
RepeatsAreSummarised ==
    \A l \in Lines, n \in 1 .. MaxCalls :
        repeated[l] >= n /\ summaries \in {"wait", "flush"} ~> summarised[l] >= n
=============================================================================
