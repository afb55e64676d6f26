---------------------------- MODULE SoapCollect ----------------------------
(****************************************************************************)
(* The SOAP half of a collection: the loop of FritzboxCollector.Collect     *)
(* over its definitions, getActionResult with upnpCache, the enumeration of *)
(* a list by index, what is done when the router refuses an index of the    *)
(* host list (main.go, host_diagnostics.go), and the XML list that replaces *)
(* that enumeration if -host-list-xml is set (host_list.go).  collectMu     *)
(* admits one collection at a time; what interleaves with it is the router, *)
(* whose lists change between two calls, and the clock.                     *)
(*                                                                          *)
(* A row of a list is what identifies it in the labels of its metric, and   *)
(* its value, which stands for all its other fields, the reported one among *)
(* them; rows without that field are not told apart any further.  A         *)
(* definition is a record: the service, the metric name, the values of its  *)
(* fixed labels in the order of the labels' names, its TTL, and its kind:   *)
(* "count" reads the number of entries as a plain value, "hosts" enumerates *)
(* GetGenericHostEntry, "list" the entries of another service.  Definitions *)
(* of one name have labels of the same names, which the registry sees to.   *)
(****************************************************************************)
EXTENDS Integers, Sequences, FiniteSets, SequencesExt

CONSTANTS
    Def,        \* the definitions, a sequence in the order of the file
    Names,      \* what tells the rows of a list apart
    Values,     \* the values a row may have
    Missing,    \* a value the answer lacks
    Budget,     \* -collection-timeout
    MaxTime,    \* bound: the clock
    MaxRows,    \* bound: the length of a list
    MaxChanges, \* bound: changes of the lists
    MaxScrapes  \* bound: collections

Definitions == DOMAIN Def
Services == {Def[d].service : d \in Definitions}
Kinds == {"count", "hosts", "list"}

ASSUME DefAssumption ==
    /\ Def \in Seq(Range(Def))
    /\ \A e \in Definitions : /\ Def[e].kind \in Kinds /\ Def[e].ttl \in Nat
                             /\ Def[e].fixed \in Seq(Range(Def[e].fixed))
\* The list of the hosts is that of one service (useHostList).
ASSUME HostsAssumption ==
    \A e, f \in Definitions :
        Def[e].kind = "hosts" /\ Def[f].kind = "hosts" => Def[e].service = Def[f].service
ASSUME MissingAssumption == Missing \notin Nat
ASSUME BoundsAssumption ==
    /\ Budget \in Nat \ {0} /\ MaxTime \in Nat /\ MaxRows \in Nat
    /\ MaxChanges \in Nat /\ MaxScrapes \in Nat

VARIABLES
    root,     \* the services have been loaded
    xml,      \* -host-list-xml
    text,     \* fixedLabelValues: the fixed labels as they enter the key of a row
    hostList, \* fc.hostList: the XML list as last read
    body,     \* the XML list that is being downloaded
    cache,    \* upnpCache
    pc,       \* "idle", "next" definition; "count" and "rows" of an enumeration;
              \* "path", "download" and "body" of the XML list
    d,        \* the definition
    i,        \* the index, from zero
    count,    \* the number of entries this enumeration goes by
    waiting,  \* a request is on its way
    asked,    \* now of getActionResult
    began,    \* when the budget began
    reason,   \* the diagnosis of each definition, "ok" for none
    shown,    \* the rows each definition has emitted in this collection
    seen,     \* seenHosts: the rows of this enumeration
    list,     \* the lists of the router
    now,      \* the clock
    scrapes,  \* how many collections were started
    version,  \* history: how often each list has changed
    used,     \* history: the versions this enumeration was given
    shrunk    \* history: the list has lost a row since an index was refused

collection == <<d, i, count, waiting, asked, began, reason, shown, seen>>
router == <<list, version>>
settings == <<xml, text>>
config == <<root, settings, hostList, body>>
vars == <<config, cache, pc, collection, router, now, scrapes, used, shrunk>>

Rows == [name : Names, value : Values \cup {Missing}]
NoEntry == [value |-> Missing, stamp |-> -1, fetched |-> -1, version |-> -1]
NoList == [rows |-> <<>>, at |-> -1, fetched |-> -1, version |-> -1]

This == Def[d]
BudgetOver == now - began >= Budget

\* A key of upnpCache: <<s>> for the number of entries, <<s, n>> for one.
Keys == {<<s>> : s \in Services} \cup (Services \X (0 .. MaxRows - 1))
Key == IF pc = "count" THEN <<This.service>> ELSE <<This.service, i>>

\* The text is written once, at the start, in the order of a Go map.
Arrangements(s) == {[n \in DOMAIN s |-> s[p[n]]] : p \in Bijection(DOMAIN s, DOMAIN s)}
Texts == UNION {Arrangements(Def[e].fixed) : e \in Definitions}

Init ==
    /\ root = FALSE
    /\ xml \in BOOLEAN
    /\ text \in [Definitions -> Texts]
    /\ \A e \in Definitions : text[e] \in Arrangements(Def[e].fixed)
    /\ hostList = NoList /\ body = NoList
    /\ cache = [k \in Keys |-> NoEntry]
    /\ pc = "idle" /\ d = 0 /\ i = 0 /\ count = 0
    /\ waiting = FALSE /\ asked = 0 /\ began = 0
    /\ reason = [e \in Definitions |-> "ok"]
    /\ shown = [e \in Definitions |-> <<>>]
    /\ seen = {}
    /\ list = [s \in Services |-> <<>>]
    /\ version = [s \in Services |-> 0]
    /\ used = {}
    /\ shrunk = [s \in Services |-> FALSE]
    /\ now = 0 /\ scrapes = 0

\* diagnostics.fail: the first cause counts.
Fail(cause) == reason' = [reason EXCEPT ![d] = IF @ = "ok" THEN cause ELSE @]

NextDefinition == pc' = "next" /\ d' = d + 1

-----------------------------------------------------------------------------
(* The loop over the definitions                                            *)

\* LoadServices has succeeded.
Discovered ==
    /\ ~root
    /\ root' = TRUE
    /\ UNCHANGED <<settings, hostList, body, cache, pc, collection, router, now, scrapes, used, shrunk>>

StartScrape ==
    /\ pc = "idle"
    /\ scrapes < MaxScrapes
    /\ scrapes' = scrapes + 1
    /\ IF root
          THEN /\ pc' = "next" /\ d' = 1 /\ began' = now
               /\ reason' = [e \in Definitions |-> "ok"]
          ELSE /\ reason' = [e \in Definitions |-> "discovery"]
               /\ UNCHANGED <<pc, d, began>>
    /\ UNCHANGED <<config, cache, i, count, waiting, asked, shown, seen, router, now, used, shrunk>>

OutOfTime ==
    /\ pc = "next"
    /\ d \in Definitions
    /\ BudgetOver
    /\ Fail("timeout")
    /\ NextDefinition
    /\ UNCHANGED <<config, cache, i, count, waiting, asked, began, shown, seen, router,
                   now, scrapes, used, shrunk>>

\* The variables of the loop over a list are declared in it.
Afresh == i' = 0 /\ count' = 0 /\ seen' = {} /\ used' = {}

\* useHostList: the flag replaces the enumeration of hosts and nothing else.
UsesXml == xml /\ This.kind = "hosts"

\* Every other definition begins with the number of entries, to report it or
\* as the provider of an enumeration.
StartDefinition ==
    /\ pc = "next"
    /\ d \in Definitions
    /\ ~BudgetOver
    /\ ~UsesXml
    /\ pc' = "count"
    /\ Afresh
    /\ UNCHANGED <<config, cache, d, waiting, asked, began, reason, shown, router, now,
                   scrapes, shrunk>>

FinishScrape ==
    /\ pc = "next"
    /\ d \notin Definitions
    /\ pc' = "idle"
    /\ d' = 0 /\ asked' = 0 /\ began' = 0
    /\ Afresh
    /\ shown' = [e \in Definitions |-> <<>>]
    /\ UNCHANGED <<config, cache, waiting, reason, router, now, scrapes, shrunk>>

-----------------------------------------------------------------------------
(* What is done with a result                                               *)

\* The key of a row is the name, the text and what tells the row apart.
SameKey(e, f) == Def[e].name = Def[f].name /\ text[e] = text[f]
Reported(row) ==
    \E e \in Definitions : SameKey(e, d) /\ \E r \in Range(shown[e]) : r.name = row.name

\* Mutant of Emits: the lookup of duplicates is left out.
EmitsAll(row) == row.value # Missing

\* reportMetric: a value, and a key that no row had before.
Emits(row) == row.value # Missing /\ ~Reported(row)

\* logDuplicateHost: the same row again is passed over, another row with the
\* same labels is a conflict.
Again(row) == row \in seen
Conflict(row) == ~Again(row) /\ \E r \in seen : r.name = row.name

\* Mutant of NextIndex: the loop does not advance.
SameIndex == UNCHANGED <<i, pc, d>>

NextIndex == i' = i + 1 /\ UNCHANGED <<pc, d>>

Row(row) ==
    /\ IF ~Again(row) /\ Emits(row)
          THEN shown' = [shown EXCEPT ![d] = Append(@, row)]
          ELSE UNCHANGED shown
    /\ CASE Again(row) -> UNCHANGED reason
         [] Conflict(row) -> Fail("duplicate")
         [] ~Again(row) /\ ~Conflict(row) /\ row.value = Missing -> Fail("extract")
         [] OTHER -> IF Reported(row) THEN Fail("duplicate") ELSE UNCHANGED reason
    /\ seen' = IF This.kind = "hosts" /\ ~Conflict(row) THEN seen \cup {row} ELSE seen
    /\ NextIndex
    /\ UNCHANGED count

\* The number is the value of the metric.
CountReported(value) ==
    /\ LET row == [name |-> This.name, value |-> value] IN
       IF value = Missing THEN Fail("extract") /\ UNCHANGED shown
       ELSE IF Emits(row) THEN shown' = [shown EXCEPT ![d] = Append(@, row)] /\ UNCHANGED reason
       ELSE Fail("duplicate") /\ UNCHANGED shown
    /\ NextDefinition
    /\ UNCHANGED count

\* The number is how far the enumeration goes.
CountProvided(value) ==
    /\ IF value = Missing
          THEN Fail("request") /\ NextDefinition /\ UNCHANGED count
          ELSE pc' = "rows" /\ count' = value /\ UNCHANGED <<d, reason>>
    /\ UNCHANGED shown

Deliver(entry) ==
    /\ \/ pc = "rows" /\ Row(entry.value)
       \/ /\ pc = "count"
          /\ IF This.kind = "count" THEN CountReported(entry.value) ELSE CountProvided(entry.value)
          /\ UNCHANGED <<i, seen>>
    /\ used' = used \cup {entry.version}

-----------------------------------------------------------------------------
(* getActionResult                                                          *)

Calling == pc = "count" \/ (pc = "rows" /\ i < count)

\* Mutant of Usable: any result that is there will do.
UsableAtAnyAge == cache[Key] # NoEntry

\* The TTL is that of the definition that asks, whoever fetched the result.
Usable == cache[Key] # NoEntry /\ now - cache[Key].stamp <= This.ttl

\* An enumeration looks at its budget before every index.
MayCall == Calling /\ ~waiting /\ (pc = "rows" => ~BudgetOver)

FromCache ==
    /\ MayCall
    /\ Usable
    /\ Deliver(cache[Key])
    /\ UNCHANGED <<config, cache, waiting, asked, began, router, now, scrapes, shrunk>>

\* A result past its TTL is gone, also if the request that follows fails.
Ask ==
    /\ MayCall
    /\ ~Usable
    /\ ~BudgetOver
    /\ waiting' = TRUE
    /\ asked' = now
    /\ cache' = [cache EXCEPT ![Key] = NoEntry]
    /\ UNCHANGED <<config, pc, d, i, count, began, reason, shown, seen, router, now, scrapes,
                   used, shrunk>>

Entries == Len(list[This.service])
Answerable == pc = "count" \/ i < Entries

\* The number of entries, unless the answer lacks it.
Answers == IF pc = "count" THEN {Entries, Missing} ELSE {list[This.service][i + 1]}

Answer ==
    /\ waiting
    /\ ~BudgetOver
    /\ Answerable
    /\ \E value \in Answers :
          LET entry == [value |-> value, stamp |-> asked, fetched |-> now,
                        version |-> version[This.service]]
          IN  cache' = [cache EXCEPT ![Key] = entry] /\ Deliver(entry)
    /\ waiting' = FALSE
    /\ asked' = 0
    /\ UNCHANGED <<config, began, router, now, scrapes, shrunk>>

-----------------------------------------------------------------------------
(* A call that fails                                                        *)

\* No request is made any more, or it got no answer, no permission, a fault.
\* An enumeration goes on with the next index.
CallFails ==
    /\ waiting \/ (pc = "count" /\ BudgetOver /\ ~Usable)
    /\ Fail("request")
    /\ waiting' = FALSE
    /\ asked' = 0
    /\ cache' = [cache EXCEPT ![Key] = NoEntry]
    /\ IF pc = "count" THEN NextDefinition /\ UNCHANGED i ELSE NextIndex
    /\ UNCHANGED <<config, count, began, shown, seen, router, now, scrapes, used, shrunk>>

\* Mutant of Invalidate: the number of entries stays in the cache.
InvalidateRowsOnly ==
    cache' = [k \in Keys |-> IF k[1] = This.service /\ Len(k) = 2 THEN NoEntry ELSE cache[k]]

\* invalidateHostCache
Invalidate ==
    cache' = [k \in Keys |-> IF k[1] = This.service THEN NoEntry ELSE cache[k]]

\* Error 713 on a row of the host list: the enumeration ends, and nothing that
\* was cached of it is used again.
InvalidIndex ==
    /\ waiting
    /\ ~BudgetOver
    /\ ~Answerable
    /\ This.kind = "hosts"
    /\ Fail("request")
    /\ waiting' = FALSE
    /\ asked' = 0
    /\ Invalidate
    /\ NextDefinition
    /\ shrunk' = [shrunk EXCEPT ![This.service] = FALSE]
    /\ UNCHANGED <<config, i, count, began, shown, seen, router, now, scrapes, used>>

\* Mutant of LastRead: the loop ends one too early.
LastReadEarly == i + 1 >= count

LastRead == i = count

RowsDone ==
    /\ pc = "rows" /\ ~waiting
    /\ LastRead
    /\ NextDefinition
    /\ UNCHANGED <<config, cache, i, count, waiting, asked, began, reason, shown, seen, router,
                   now, scrapes, used, shrunk>>

\* The budget ends within an enumeration.
RowsTimeout ==
    /\ pc = "rows" /\ ~waiting
    /\ i < count
    /\ BudgetOver
    /\ Fail("timeout")
    /\ NextDefinition
    /\ UNCHANGED <<config, cache, i, count, waiting, asked, began, shown, seen, router, now,
                   scrapes, used, shrunk>>

-----------------------------------------------------------------------------
(* The XML host list                                                        *)

Unaffected == UNCHANGED <<root, settings, cache, i, count, waiting, asked, began, seen, router, now,
                          scrapes, shrunk>>

\* One cache for all definitions; the TTL is that of the one that asks.
ListUsable == hostList # NoList /\ now - hostList.at <= This.ttl

\* Every row has the fields of the metric: this is seen to before the first
\* row is reported.
Complete(rows) == \A n \in DOMAIN rows : rows[n].value # Missing

NameGiven(given, row) == \E r \in Range(given) : r.name = row.name

\* The first row of each name, unless another definition has reported it; in
\* some order, since the samples of a collection have none.
FirstOfEachName(rows) ==
    SetToSeq({rows[n] : n \in {n \in DOMAIN rows :
                Emits(rows[n]) /\ ~NameGiven(SubSeq(rows, 1, n - 1), rows[n])}})

\* Rows equal but for their position are passed over, others of one name clash.
Clash(rows) ==
    \/ \E m, n \in DOMAIN rows : rows[m].name = rows[n].name /\ rows[m] # rows[n]
    \/ \E n \in DOMAIN rows : Reported(rows[n])

\* collectHostList, with a list that was read.
ShowList(l) ==
    /\ IF Complete(l.rows)
          THEN /\ shown' = [shown EXCEPT ![d] = FirstOfEachName(l.rows)]
               /\ IF Clash(l.rows) THEN Fail("duplicate") ELSE UNCHANGED reason
               /\ used' = {l.version}
          ELSE Fail("request") /\ UNCHANGED <<shown, used>>
    /\ NextDefinition

ListFromCache ==
    /\ pc = "next" /\ d \in Definitions /\ UsesXml
    /\ ~BudgetOver
    /\ ListUsable
    /\ ShowList(hostList)
    /\ UNCHANGED <<hostList, body>>
    /\ Unaffected

Proceed(from, to) == pc = from /\ ~BudgetOver /\ pc' = to /\ UNCHANGED <<d, reason, shown, used>>

\* GetHostListPath is called, if the cached list will not do.
AskPath ==
    /\ d \in Definitions /\ UsesXml
    /\ ~ListUsable
    /\ Proceed("next", "path")
    /\ UNCHANGED <<hostList, body>>
    /\ Unaffected

\* It answers with a path on the router, from which the list is downloaded.
PathAnswered ==
    /\ Proceed("path", "download")
    /\ UNCHANGED <<hostList, body>>
    /\ Unaffected

\* The router begins to send its list.
Download ==
    /\ Proceed("download", "body")
    /\ body' = [rows |-> list[This.service], at |-> -1, fetched |-> now,
                version |-> version[This.service]]
    /\ UNCHANGED hostList
    /\ Unaffected

\* It was read to its end and understood: only now it replaces the old one.
Downloaded ==
    /\ pc = "body"
    /\ ~BudgetOver
    /\ hostList' = [body EXCEPT !.at = now]
    /\ body' = NoList
    /\ ShowList([body EXCEPT !.at = now])
    /\ Unaffected

\* Mutant of ListFails: the old list stands in for the new one.
ListFailsOver ==
    /\ pc \in {"path", "download", "body"}
    /\ Fail("request")
    /\ NextDefinition
    /\ shown' = [shown EXCEPT ![d] = FirstOfEachName(hostList.rows)]
    /\ body' = NoList
    /\ UNCHANGED <<hostList, used>>
    /\ Unaffected

\* The action is not there, a request fails or the budget ends, the path is on
\* another host, the list is too long or not understood.
ListFails ==
    /\ pc \in {"path", "download", "body"}
    /\ Fail("request")
    /\ NextDefinition
    /\ body' = NoList
    /\ UNCHANGED <<hostList, shown, used>>
    /\ Unaffected

-----------------------------------------------------------------------------
(* The router and the clock                                                 *)

ListBecomes(s, rows) ==
    /\ version[s] < MaxChanges
    /\ list' = [list EXCEPT ![s] = rows]
    /\ version' = [version EXCEPT ![s] = @ + 1]
    /\ UNCHANGED <<config, cache, pc, collection, now, scrapes, used>>

Join(s, row) ==
    /\ Len(list[s]) < MaxRows
    /\ ListBecomes(s, Append(list[s], row))
    /\ UNCHANGED shrunk

\* The rows behind it move up.
Leave(s, n) ==
    /\ ListBecomes(s, RemoveAt(list[s], n))
    /\ shrunk' = [shrunk EXCEPT ![s] = TRUE]

Tick ==
    /\ now < MaxTime
    /\ now' = now + 1
    /\ UNCHANGED <<config, cache, pc, collection, router, scrapes, used, shrunk>>

-----------------------------------------------------------------------------
GetActionResult == FromCache \/ Ask \/ Answer \/ CallFails \/ InvalidIndex
ReadHostList == ListFromCache \/ AskPath \/ PathAnswered \/ Download \/ Downloaded \/ ListFails
Collect == OutOfTime \/ StartDefinition \/ FinishScrape \/ GetActionResult \/ RowsDone \/ RowsTimeout
           \/ ReadHostList

\* Between collections the program may rest; within one it may not get stuck.
Rest == pc = "idle" /\ UNCHANGED vars

Next ==
    \/ Discovered \/ StartScrape \/ Collect
    \/ \E s \in Services :
          \/ \E row \in Rows : Join(s, row)
          \/ \E n \in DOMAIN list[s] : Leave(s, n)
    \/ Tick \/ Rest

Spec == Init /\ [][Next]_vars

\* The collection runs in a goroutine of its own and its requests have timeouts.
FairSpec == Spec /\ WF_vars(Collect)

-----------------------------------------------------------------------------
Reasons == {"ok", "discovery", "timeout", "request", "extract", "duplicate"}

Times == -1 .. MaxTime
Versions == -1 .. MaxChanges
CountEntries ==
    [value : 0 .. MaxRows \cup {Missing}, stamp : Times, fetched : Times, version : Versions]
RowEntries ==
    {NoEntry} \cup [value : Rows, stamp : Times, fetched : Times, version : Versions]
Lists == {rows \in Seq(Rows) : Len(rows) <= MaxRows}
Samples == [name : Names \cup {Def[e].name : e \in Definitions},
            value : Values \cup {Missing} \cup 0 .. MaxRows]
XmlLists == [rows : Lists, at : Times, fetched : Times, version : Versions]

TypeOK ==
    /\ root \in BOOLEAN /\ xml \in BOOLEAN /\ waiting \in BOOLEAN
    /\ \A e \in Definitions : text[e] \in Arrangements(Def[e].fixed)
    /\ hostList \in XmlLists /\ body \in XmlLists
    /\ cache = [k \in Keys |-> cache[k]]
    /\ \A s \in Services : cache[<<s>>] \in CountEntries
    /\ \A s \in Services, n \in 0 .. MaxRows - 1 : cache[<<s, n>>] \in RowEntries
    /\ pc \in {"idle", "next", "count", "rows", "path", "download", "body"}
    /\ d \in 0 .. Len(Def) + 1
    /\ count \in 0 .. MaxRows /\ i \in 0 .. count
    /\ now \in 0 .. MaxTime /\ asked \in 0 .. now /\ began \in 0 .. now
    /\ reason \in [Definitions -> Reasons]
    /\ shown \in [Definitions -> Seq(Samples)]
    /\ seen \subseteq Rows
    /\ list \in [Services -> Lists]
    /\ version \in [Services -> 0 .. MaxChanges]
    /\ used \subseteq Versions
    /\ shrunk \in [Services -> BOOLEAN]
    /\ scrapes \in 0 .. MaxScrapes

\* One series to the registry, if their rows are told apart by the same.
SameSeries(e, f) == Def[e].name = Def[f].name /\ Def[e].fixed = Def[f].fixed
Apart(e, f) ==
    \A m \in DOMAIN shown[e], n \in DOMAIN shown[f] :
        shown[e][m].name = shown[f][n].name => e = f /\ m = n

(* No series twice in a collection, which would make the registry refuse    *)
(* all of it: not from a list that holds a host twice or moves under the    *)
(* enumeration, and not from two definitions of one name with the same      *)
(* fixed label, or none.  With two or more fixed labels it is said of each  *)
(* definition by itself only: their texts are in the order of a Go map,     *)
(* another one for each definition, so that equal labels may give two keys  *)
(* and two definitions show one series (main.go:367-375, 471-472, 1002-1006).*)
SeriesAreUnique ==
    \A e, f \in Definitions :
        SameSeries(e, f) /\ (e = f \/ Len(Def[e].fixed) <= 1) => Apart(e, f)

(* An enumeration that succeeds, by index or as one XML list, and whose      *)
(* results, cached or not, all come from the list as it is now, has shown   *)
(* that list: no host is missing and none is left over (main.go:523-565,    *)
(* host_list.go:117-151).                                                   *)
Ends(e) == d = e /\ d' = e + 1 /\ Def[e].kind # "count"
StableListIsShown ==
    [][\A e \in Definitions :
          Ends(e) /\ reason'[e] = "ok" /\ used' = {version[Def[e].service]} =>
              Range(shown'[e]) = Range(list[Def[e].service])]_vars

(* "Validate before emitting anything", and HOST_LIST_XML.md: "failed       *)
(* refreshes are not emitted as stale success".  A definition that reads    *)
(* the XML list shows nothing, or every name of one list, the last one that *)
(* was read well, and nothing else; a name may be left to a definition with *)
(* the same key that has shown it before (host_list.go:117-151).            *)
NamesOf(rows) == {r.name : r \in Range(rows)}
WholeListOrNothing ==
    [][\A e \in Definitions : Ends(e) /\ xml /\ Def[e].kind = "hosts" =>
          IF reason'[e] \in {"request", "timeout"} THEN shown'[e] = <<>>
          ELSE /\ Range(shown'[e]) \subseteq Range(hostList'.rows)
               /\ NamesOf(hostList'.rows) \subseteq
                      UNION {NamesOf(shown'[o]) : o \in {o \in 1 .. e : SameKey(o, e)}}]_vars

(* "host cache invalidated for next scrape": the router refuses an index    *)
(* again only after the list has become shorter again, since neither the    *)
(* number of entries nor a row from before the refusal is used after it,    *)
(* by any definition (main.go:546-554, host_diagnostics.go:182-191).        *)
RefusedOnlyAfterShrink == [][InvalidIndex => shrunk[This.service]]_vars

(* A sample is at most as old as the TTL of its own definition, although    *)
(* definitions with other TTLs use and fetch the same cache entries         *)
(* (main.go:397-432).  The XML list is dated by the end of its download, so *)
(* that this may come on top (host_list.go:76-83, 117).                     *)
DataIsFresh ==
    [][\A e \in Definitions :
          d = e /\ shown'[e] # shown[e] =>
              IF pc \in {"count", "rows"}
              THEN now - cache'[Key].fetched <= Def[e].ttl
              ELSE now - hostList'.fetched < Def[e].ttl + Budget]_vars

(* A collection ends, whatever the router does and however long its lists.  *)
ScrapeEnds == pc = "next" ~> pc = "idle"

(* DIAGNOSTICS.md:122, "A failed index is reported but does not discard     *)
(* successful hosts or prevent reading later indexes": an enumeration that  *)
(* the budget does not end has asked for its last index.                    *)
LaterIndexesAreRead ==
    [][pc = "rows" /\ pc' = "next" => i >= count - 1 \/ BudgetOver]_vars
=============================================================================
