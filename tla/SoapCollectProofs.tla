------------------------- MODULE SoapCollectProofs -------------------------
(****************************************************************************)
(* Proofs about SoapCollect, for any definitions, TTLs, budget and rows,    *)
(* and any number of collections and changes of the lists.                  *)
(****************************************************************************)
EXTENDS SoapCollect, FiniteSetTheorems, WellFoundedInduction, TLAPS

-----------------------------------------------------------------------------
(* The invariant                                                            *)

\* Where the collection is: at a definition, in the way it is read.
InPlace ==
    /\ pc \in {"count", "rows", "path", "download", "body"} => d \in Definitions
    /\ pc \in {"count", "rows"} => ~UsesXml
    /\ pc \in {"path", "download", "body"} => UsesXml
    /\ pc = "rows" => This.kind # "count"
    /\ pc = "idle" => d = 0
    /\ pc = "next" => d >= 1
    /\ waiting => Calling
    /\ pc = "count" => i = 0 /\ seen = {} /\ used = {}

\* What a definition has shown it has shown since it is read; a definition that
\* was not read has shown nothing and not failed.
Untouched ==
    \A e \in Definitions :
        e > d \/ (e = d /\ pc # "rows") =>
            shown[e] = <<>> /\ (pc # "idle" => reason[e] = "ok")

\* No key twice in a collection.
KeysAreUnique == \A e, f \in Definitions : SameKey(e, f) => Apart(e, f)

ShownInv == InPlace /\ Untouched /\ KeysAreUnique

\* As long as a list has not lost a row, it has as many rows as is believed.
CachedCountsAreCovered ==
    \A s \in Services : shrunk[s] \/ cache[<<s>>].value = Missing
                        \/ cache[<<s>>].value <= Len(list[s])
CountIsCovered == pc = "rows" => shrunk[This.service] \/ count <= Len(list[This.service])

\* What is cached is dated before it was fetched, and the XML list not much later.
CacheIsDated == \A k \in Keys : cache[k].stamp <= cache[k].fetched
XmlListIsDated ==
    /\ hostList.at - hostList.fetched < Budget
    /\ pc = "body" => body.fetched >= began

\* What is cached of the list as it is now is the list as it is now.
EntriesAreTrue ==
    \A s \in Services :
        /\ cache[<<s>>].version <= version[s]
        /\ cache[<<s>>].version = version[s] => cache[<<s>>].value \in {Len(list[s]), Missing}
        /\ \A n \in 0 .. MaxRows - 1 :
              /\ cache[<<s, n>>].version <= version[s]
              /\ cache[<<s, n>>].version = version[s] =>
                    n < Len(list[s]) /\ cache[<<s, n>>].value = list[s][n + 1]

XmlListIsTrue(l) ==
    \A e \in Definitions : Def[e].kind = "hosts" =>
        /\ l.version <= version[Def[e].service]
        /\ l.version = version[Def[e].service] => l.rows = list[Def[e].service]

\* An enumeration that goes by the list as it is now has shown it so far.
ReadSoFar ==
    pc = "rows" =>
        LET s == This.service IN
        /\ used # {} /\ \A v \in used : v <= version[s]
        /\ reason[d] = "ok" /\ used = {version[s]} =>
              /\ count = Len(list[s])
              /\ Range(shown[d]) = {list[s][n] : n \in 1 .. i}
              /\ seen \subseteq Range(shown[d])

\* Type correctness in parts.
TypePlace ==
    /\ root \in BOOLEAN /\ xml \in BOOLEAN /\ waiting \in BOOLEAN
    /\ \A e \in Definitions : text[e] \in Arrangements(Def[e].fixed)
    /\ pc \in {"idle", "next", "count", "rows", "path", "download", "body"}
    /\ d \in 0 .. Len(Def) + 1
    /\ count \in 0 .. MaxRows /\ i \in 0 .. count
    /\ now \in 0 .. MaxTime /\ asked \in 0 .. now /\ began \in 0 .. now
    /\ scrapes \in 0 .. MaxScrapes
TypeLists ==
    /\ hostList \in XmlLists /\ body \in XmlLists
    /\ list \in [Services -> Lists]
    /\ version \in [Services -> 0 .. MaxChanges]
TypeCache ==
    /\ cache = [k \in Keys |-> cache[k]]
    /\ \A s \in Services : cache[<<s>>] \in CountEntries
    /\ \A s \in Services, n \in 0 .. MaxRows - 1 : cache[<<s, n>>] \in RowEntries
TypeTold ==
    /\ reason \in [Definitions -> Reasons]
    /\ shown \in [Definitions -> Seq(Samples)]
    /\ seen \subseteq Rows
    /\ used \subseteq Versions
    /\ shrunk \in [Services -> BOOLEAN]

\* Of a collection, of the cache and of the XML list.
PlaceInv == TypePlace /\ TypeTold /\ ShownInv /\ CountIsCovered /\ ReadSoFar
CacheInv == TypeCache /\ CachedCountsAreCovered /\ CacheIsDated /\ EntriesAreTrue
XmlInv == TypeLists /\ XmlListIsDated /\ XmlListIsTrue(hostList) /\ XmlListIsTrue(body)

IInv == PlaceInv /\ CacheInv /\ XmlInv

(* The parts are the whole.                                                 *)
LEMMA TypeParts == TypeOK <=> TypePlace /\ TypeLists /\ TypeCache /\ TypeTold
  BY DEF TypeOK, TypePlace, TypeLists, TypeCache, TypeTold

-----------------------------------------------------------------------------
(* Definitions and keys                                                     *)

(* The definitions are numbered from one.                                   *)
LEMMA DefinitionsAre ==
    /\ Len(Def) \in Nat /\ Definitions = 1 .. Len(Def)
    /\ \A e \in Definitions :
          Def[e].service \in Services /\ Def[e].kind \in Kinds /\ Def[e].ttl \in Nat
<1>1. Def \in Seq(Range(Def))
  BY DefAssumption
<1>2. Len(Def) \in Nat /\ DOMAIN Def = 1 .. Len(Def)
  BY <1>1
<1>. QED
  BY <1>2, DefAssumption DEF Definitions, Services

(* A key is that of a number of entries or of one entry, and tells which.   *)
LEMMA KeysAre ==
    /\ \A s \in Services : <<s>> \in Keys
    /\ \A s \in Services, n \in 0 .. MaxRows - 1 : <<s, n>> \in Keys
    /\ \A k \in Keys : \/ \E s \in Services : k = <<s>>
                       \/ \E s \in Services, n \in 0 .. MaxRows - 1 : k = <<s, n>>
  BY DEF Keys

(* The first of them is the service.                                        *)
LEMMA KeysDiffer ==
    /\ \A s, t, n : <<s>> # <<t, n>>
    /\ \A s, t : <<s>> = <<t>> <=> s = t
    /\ \A s, t, n, m : <<s, n>> = <<t, m>> <=> s = t /\ n = m
  OBVIOUS

(* One entry is put into the cache.                                         *)
LEMMA CachePut ==
    ASSUME cache = [k \in Keys |-> cache[k]], d \in Definitions,
           \/ pc = "count"
           \/ pc = "rows" /\ i \in 0 .. MaxRows - 1,
           NEW entry, cache' = [cache EXCEPT ![Key] = entry]
    PROVE  /\ Key \in Keys /\ cache' = [k \in Keys |-> cache'[k]]
           /\ cache'[Key] = entry
           /\ \A k \in Keys : cache'[k] = entry \/ cache'[k] = cache[k]
           /\ \A s \in Services :
                 cache'[<<s>>] = IF pc = "count" /\ s = This.service THEN entry ELSE cache[<<s>>]
           /\ \A s \in Services, n \in 0 .. MaxRows - 1 :
                 cache'[<<s, n>>] = IF pc = "rows" /\ s = This.service /\ n = i
                                    THEN entry ELSE cache[<<s, n>>]
<1>1. This.service \in Services
  BY DefinitionsAre DEF This
<1>2. Key \in Keys
  BY <1>1, KeysAre DEF Key
<1>3. \A k \in Keys : cache'[k] = IF k = Key THEN entry ELSE cache[k]
  BY <1>2
<1>4. cache' = [k \in Keys |-> cache'[k]]
  BY <1>2
<1>5. ASSUME NEW s \in Services
      PROVE  cache'[<<s>>] = IF pc = "count" /\ s = This.service THEN entry ELSE cache[<<s>>]
  <2>1. <<s>> \in Keys /\ (<<s>> = Key <=> pc = "count" /\ s = This.service)
    BY KeysAre, KeysDiffer DEF Key
  <2>. QED
    BY <1>3, <2>1
<1>6. ASSUME NEW s \in Services, NEW n \in 0 .. MaxRows - 1
      PROVE  cache'[<<s, n>>] = IF pc = "rows" /\ s = This.service /\ n = i
                                THEN entry ELSE cache[<<s, n>>]
  <2>1. <<s, n>> \in Keys /\ (<<s, n>> = Key <=> pc = "rows" /\ s = This.service /\ n = i)
    BY KeysAre, KeysDiffer DEF Key
  <2>. QED
    BY <1>3, <2>1
<1>. QED
  BY <1>2, <1>3, <1>4, <1>5, <1>6

(* The entries of a service are thrown away.                                *)
LEMMA CacheInvalidated ==
    ASSUME Invalidate
    PROVE  /\ cache' = [k \in Keys |-> cache'[k]]
           /\ \A k \in Keys : cache'[k] = NoEntry \/ cache'[k] = cache[k]
           /\ \A s \in Services :
                 cache'[<<s>>] = IF s = This.service THEN NoEntry ELSE cache[<<s>>]
           /\ \A s \in Services, n \in 0 .. MaxRows - 1 :
                 cache'[<<s, n>>] = IF s = This.service THEN NoEntry ELSE cache[<<s, n>>]
<1>1. \A k \in Keys : cache'[k] = IF k[1] = This.service THEN NoEntry ELSE cache[k]
  BY DEF Invalidate
<1>2. cache' = [k \in Keys |-> cache'[k]]
  BY DEF Invalidate
<1>. QED
  BY <1>1, <1>2, KeysAre

(* What is in no cache.                                                     *)
LEMMA NothingIs ==
    /\ NoEntry \in CountEntries /\ NoEntry \in RowEntries
    /\ NoEntry.value = Missing /\ NoEntry.stamp = -1 /\ NoEntry.fetched = -1 /\ NoEntry.version = -1
    /\ NoList \in XmlLists
    /\ NoList.at = -1 /\ NoList.fetched = -1 /\ NoList.version = -1
<1>1. -1 \in Times /\ -1 \in Versions
  BY BoundsAssumption DEF Times, Versions
<1>2. <<>> \in Lists
  BY BoundsAssumption DEF Lists
<1>. QED
  BY <1>1, <1>2 DEF NoEntry, NoList, CountEntries, RowEntries, XmlLists

-----------------------------------------------------------------------------
(* Sequences of rows                                                        *)

(* Every nonempty set of naturals has a least element.                      *)
LEMMA LeastNatural ==
    ASSUME NEW T, T \subseteq Nat, T # {}
    PROVE  \E t \in T : \A u \in T : t <= u
<1> DEFINE Less == {p \in Nat \X Nat : p[1] < p[2]}
<1>1. IsWellFoundedOn(Less, Nat)
  BY NatLessThanWellFounded DEF OpToRel
<1>2. PICK t \in T : \A u \in T : ~(<<u, t>> \in Less)
  <2>. HIDE DEF Less
  <2>. QED
    BY <1>1, WFMin
<1>3. ASSUME NEW u \in T PROVE t <= u
  <2>1. <<u, t>> \in Nat \X Nat /\ <<u, t>>[1] = u /\ <<u, t>>[2] = t
    OBVIOUS
  <2>2. ~(<<u, t>>[1] < <<u, t>>[2])
    BY <1>2, <2>1
  <2>. QED
    BY <2>1, <2>2
<1>. QED
  BY <1>3

(* A finite set as a sequence holds each of its elements once.              *)
LEMMA SetAsSequence ==
    ASSUME NEW S, IsFiniteSet(S)
    PROVE  /\ SetToSeq(S) \in Seq(S)
           /\ Range(SetToSeq(S)) = S
           /\ \A m, n \in DOMAIN SetToSeq(S) : SetToSeq(S)[m] = SetToSeq(S)[n] => m = n
<1> DEFINE N == Cardinality(S)
           f == SetToSeq(S)
<1>1. N \in Nat /\ ExistsBijection(1 .. N, S)
  BY FS_CardinalityType
<1>2. \E g \in [1 .. N -> S] : IsInjective(g)
  BY <1>1 DEF ExistsBijection, Bijection, Injection
<1>3. f \in [1 .. N -> S] /\ IsInjective(f)
  BY <1>2 DEF SetToSeq
<1>4. f \in Injection(1 .. N, S)
  BY <1>3 DEF Injection
<1>5. f \in Surjection(1 .. N, S)
  BY <1>4, FS_Injection, FS_Interval, <1>1
<1>. QED
  BY <1>1, <1>3, <1>5 DEF IsInjective, Surjection, Range

(* The first rows of their names are a row of each name, each once.         *)
LEMMA FirstsAre ==
    ASSUME NEW rows \in Lists, Complete(rows)
    PROVE  LET given == FirstOfEachName(rows) IN
           /\ given \in Seq(Range(rows)) /\ given \in Seq(Rows)
           /\ \A m \in DOMAIN given : Emits(given[m])
           /\ \A m, n \in DOMAIN given : given[m].name = given[n].name => m = n
           /\ \A n \in DOMAIN rows : Emits(rows[n]) =>
                 \E m \in DOMAIN given : given[m].name = rows[n].name
<1> DEFINE IsFirst(n) == Emits(rows[n]) /\ ~NameGiven(SubSeq(rows, 1, n - 1), rows[n])
           firsts == {n \in DOMAIN rows : IsFirst(n)}
           S == {rows[n] : n \in firsts}
           given == FirstOfEachName(rows)
<1>1. rows \in Seq(Rows) /\ Len(rows) \in Nat /\ DOMAIN rows = 1 .. Len(rows)
  BY DEF Lists
<1>2. IsFiniteSet(S)
  <2>1. IsFiniteSet(firsts)
    <3>1. IsFiniteSet(1 .. Len(rows)) /\ firsts \in SUBSET (1 .. Len(rows))
      BY <1>1, FS_Interval
    <3>. HIDE DEF firsts
    <3>. QED
      BY <3>1, FS_Subset
  <2>2. [n \in firsts |-> rows[n]] \in Surjection(firsts, S)
    BY DEF Surjection
  <2>. QED
    BY <2>1, <2>2, FS_Surjection
<1>3. /\ given \in Seq(S) /\ Range(given) = S
      /\ \A m, n \in DOMAIN given : given[m] = given[n] => m = n
  <2>1. given = SetToSeq(S)
    BY DEF FirstOfEachName
  <2>. HIDE DEF S, given
  <2>. QED
    BY <1>2, <2>1, SetAsSequence
<1>4. S \subseteq Range(rows) /\ S \subseteq Rows
  BY <1>1 DEF Range
<1>5. \A m \in DOMAIN given : \E n \in firsts : given[m] = rows[n]
  <2>1. \A m \in DOMAIN given : given[m] \in S
    BY <1>3 DEF Range
  <2>. QED
    BY <2>1
<1>6. \A n, k \in firsts : k < n => rows[k].name # rows[n].name
  <2> SUFFICES ASSUME NEW n \in firsts, NEW k \in firsts, k < n, rows[k].name = rows[n].name
               PROVE  FALSE
    OBVIOUS
  <2>1. n \in 1 .. Len(rows) /\ k \in 1 .. Len(rows)
    BY <1>1
  <2>2. k \in DOMAIN SubSeq(rows, 1, n - 1) /\ SubSeq(rows, 1, n - 1)[k] = rows[k]
    BY <1>1, <2>1
  <2>3. NameGiven(SubSeq(rows, 1, n - 1), rows[n])
    BY <2>2 DEF NameGiven, Range
  <2>. QED
    BY <2>3
<1>7. \A n, k \in firsts : rows[k].name = rows[n].name => n = k
  <2>1. \A n \in firsts : n \in Int
    BY <1>1
  <2>. QED
    BY <1>6, <2>1
<1>8. ASSUME NEW m \in DOMAIN given, NEW n \in DOMAIN given, given[m].name = given[n].name
      PROVE  m = n
  <2>. HIDE DEF given, firsts
  <2>. QED
    BY <1>3, <1>5, <1>7, <1>8
<1>9. ASSUME NEW n \in DOMAIN rows, Emits(rows[n])
      PROVE  \E m \in DOMAIN given : given[m].name = rows[n].name
  <2> DEFINE same == {k \in DOMAIN rows : Emits(rows[k]) /\ rows[k].name = rows[n].name}
  <2>1. same \subseteq Nat /\ n \in same
    BY <1>1, <1>9
  <2>2. PICK k \in same : \A l \in same : k <= l
    <3>. HIDE DEF same
    <3>. QED
      BY <2>1, LeastNatural
  <2>3. k \in firsts
    <3>1. k \in 1 .. Len(rows)
      BY <1>1
    <3>2. ASSUME NameGiven(SubSeq(rows, 1, k - 1), rows[k]) PROVE FALSE
      <4>1. PICK l \in DOMAIN SubSeq(rows, 1, k - 1) :
               SubSeq(rows, 1, k - 1)[l].name = rows[k].name
        BY <3>2 DEF NameGiven, Range
      <4>2. l \in 1 .. k - 1 /\ rows[l].name = rows[n].name /\ l \in DOMAIN rows
        BY <1>1, <3>1, <4>1
      <4>3. Emits(rows[l])
        <5>1. Reported(rows[l]) <=> Reported(rows[n])
          BY <4>2 DEF Reported
        <5>. QED
          BY <1>9, <4>2, <5>1 DEF Emits, Complete
      <4>. QED
        BY <2>2, <3>1, <4>2, <4>3
    <3>. QED
      BY <3>2
  <2>4. rows[k] \in Range(given)
    BY <1>3, <2>3
  <2>. QED
    BY <2>4 DEF Range
<1>10. \A m \in DOMAIN given : Emits(given[m])
  BY <1>5
<1>11. given \in Seq(Range(rows)) /\ given \in Seq(Rows)
  BY <1>3, <1>4
<1>. QED
  BY <1>8, <1>9, <1>10, <1>11

-----------------------------------------------------------------------------
(* What the steps have in common                                            *)

(* A cause is noted, unless there is one.                                   *)
LEMMA FailEffect ==
    ASSUME TypeTold, d \in Definitions, NEW cause \in Reasons \ {"ok"}, Fail(cause)
    PROVE  /\ reason' \in [Definitions -> Reasons] /\ reason'[d] # "ok"
           /\ reason[d] = "ok" => reason'[d] = cause
           /\ \A e \in Definitions : e # d => reason'[e] = reason[e]
  BY DEF TypeTold, Fail

(* A sample of this definition that tells itself apart is shown.            *)
LEMMA AppendEffect ==
    ASSUME UNCHANGED text, TypeTold, KeysAreUnique, d \in Definitions, NEW row \in Samples,
           Emits(row),
           shown' = [shown EXCEPT ![d] = Append(@, row)]
    PROVE  /\ shown' \in [Definitions -> Seq(Samples)]
           /\ \A e \in Definitions : e # d => shown'[e] = shown[e]
           /\ Range(shown'[d]) = Range(shown[d]) \cup {row}
           /\ KeysAreUnique'
<1>1. /\ shown \in [Definitions -> Seq(Samples)] /\ shown[d] \in Seq(Samples)
      /\ shown'[d] = Append(shown[d], row)
      /\ \A e \in Definitions : e # d => shown'[e] = shown[e]
  BY DEF TypeTold
<1>2. /\ Append(shown[d], row) \in Seq(Samples)
      /\ Len(shown[d]) \in Nat /\ DOMAIN shown[d] = 1 .. Len(shown[d])
      /\ DOMAIN shown'[d] = 1 .. Len(shown[d]) + 1 /\ shown'[d][Len(shown[d]) + 1] = row
      /\ \A n \in 1 .. Len(shown[d]) : shown'[d][n] = shown[d][n]
  BY <1>1
<1>3. shown' \in [Definitions -> Seq(Samples)]
  BY <1>1, <1>2
<1>4. Range(shown'[d]) = Range(shown[d]) \cup {row}
  BY <1>2 DEF Range
<1>5. KeysAreUnique'
  <2>1. \A e \in Definitions : SameKey(e, d) =>
           \A n \in DOMAIN shown[e] : shown[e][n].name # row.name
    BY DEF Emits, Reported, Range, This
  <2> SUFFICES ASSUME NEW e \in Definitions, NEW f \in Definitions, SameKey(e, f),
                      NEW m \in DOMAIN shown'[e], NEW n \in DOMAIN shown'[f],
                      shown'[e][m].name = shown'[f][n].name
               PROVE  e = f /\ m = n
    BY DEF KeysAreUnique, SameKey, Apart
  <2>2. CASE e # d /\ f # d
    BY <1>1, <2>2 DEF KeysAreUnique, SameKey, Apart
  <2>3. CASE e = d /\ f # d
    <3>1. m = Len(shown[d]) + 1 \/ (m \in DOMAIN shown[d] /\ shown'[d][m] = shown[d][m])
      BY <1>2, <2>3
    <3>2. n \in DOMAIN shown[f] /\ shown'[f][n] = shown[f][n]
      BY <1>1, <2>3
    <3>3. CASE m = Len(shown[d]) + 1
      BY <1>2, <2>1, <2>3, <3>2, <3>3 DEF SameKey
    <3>4. CASE m \in DOMAIN shown[d] /\ shown'[d][m] = shown[d][m]
      BY <2>3, <3>2, <3>4 DEF KeysAreUnique, SameKey, Apart
    <3>. QED
      BY <3>1, <3>3, <3>4
  <2>4. CASE e # d /\ f = d
    <3>1. n = Len(shown[d]) + 1 \/ (n \in DOMAIN shown[d] /\ shown'[d][n] = shown[d][n])
      BY <1>2, <2>4
    <3>2. m \in DOMAIN shown[e] /\ shown'[e][m] = shown[e][m]
      BY <1>1, <2>4
    <3>3. CASE n = Len(shown[d]) + 1
      BY <1>2, <2>1, <2>4, <3>2, <3>3
    <3>4. CASE n \in DOMAIN shown[d] /\ shown'[d][n] = shown[d][n]
      BY <2>4, <3>2, <3>4 DEF KeysAreUnique, SameKey, Apart
    <3>. QED
      BY <3>1, <3>3, <3>4
  <2>5. CASE e = d /\ f = d
    <3>1. /\ m = Len(shown[d]) + 1 \/ (m \in DOMAIN shown[d] /\ shown'[d][m] = shown[d][m])
          /\ n = Len(shown[d]) + 1 \/ (n \in DOMAIN shown[d] /\ shown'[d][n] = shown[d][n])
      BY <1>2, <2>5
    <3>2. \A k \in DOMAIN shown[d] : shown[d][k].name # row.name
      BY <2>1 DEF SameKey
    <3>3. \A k, l \in DOMAIN shown[d] : shown[d][k].name = shown[d][l].name => k = l
      BY DEF KeysAreUnique, SameKey, Apart
    <3>4. shown'[d][m].name = shown'[d][n].name
      BY <2>5
    <3>. QED
      BY <1>2, <2>5, <3>1, <3>2, <3>3, <3>4
  <2>. QED
    BY <2>2, <2>3, <2>4, <2>5
<1>. QED
  BY <1>1, <1>3, <1>4, <1>5

(* Rows and counts are samples.                                             *)
LEMMA SamplesAre ==
    /\ Rows \subseteq Samples
    /\ \A e \in Definitions, v \in 0 .. MaxRows \cup {Missing} :
          [name |-> Def[e].name, value |-> v] \in Samples
  BY DEF Rows, Samples

\* What a definition does to what is told: of itself only, each sample once.
Tells ==
    /\ reason' \in [Definitions -> Reasons]
    /\ shown' \in [Definitions -> Seq(Samples)]
    /\ \A e \in Definitions : e # d => reason'[e] = reason[e] /\ shown'[e] = shown[e]
    /\ KeysAreUnique'

(* A row of an enumeration.                                                 *)
LEMMA RowEffect ==
    ASSUME UNCHANGED text, TypeTold, KeysAreUnique, d \in Definitions, NEW row \in Rows, Row(row)
    PROVE  /\ Tells /\ seen' \subseteq Rows
           /\ i' = i + 1 /\ UNCHANGED <<pc, d, count>>
           /\ reason'[d] = "ok" => reason[d] = "ok"
           /\ reason'[d] = "ok" /\ seen \subseteq Range(shown[d]) =>
                 /\ Range(shown'[d]) = Range(shown[d]) \cup {row}
                 /\ seen' \subseteq Range(shown'[d])
<1>1. row \in Samples
  BY SamplesAre
<1>2. i' = i + 1 /\ UNCHANGED <<pc, d, count>> /\ seen' \subseteq Rows
  BY DEF Row, NextIndex, TypeTold
<1>3. seen' \subseteq seen \cup {row}
  BY DEF Row
<1>4. /\ "extract" \in Reasons \ {"ok"} /\ "duplicate" \in Reasons \ {"ok"}
  BY DEF Reasons
<1>5. UNCHANGED reason \/ Fail("extract") \/ Fail("duplicate")
  BY DEF Row
<1>6. /\ reason' \in [Definitions -> Reasons]
      /\ \A e \in Definitions : e # d => reason'[e] = reason[e]
      /\ reason'[d] = "ok" => UNCHANGED reason /\ ~Fail("extract") /\ ~Fail("duplicate")
  <2>1. CASE UNCHANGED reason /\ ~Fail("extract") /\ ~Fail("duplicate")
    BY <2>1 DEF TypeTold
  <2>2. CASE Fail("extract")
    BY <1>4, <2>2, FailEffect
  <2>3. CASE Fail("duplicate")
    BY <1>4, <2>3, FailEffect
  <2>. QED
    BY <1>5, <2>1, <2>2, <2>3
<1>7. CASE ~Again(row) /\ Emits(row)
  <2>1. shown' = [shown EXCEPT ![d] = Append(@, row)]
    BY <1>7 DEF Row
  <2>. QED
    BY <1>1, <1>2, <1>3, <1>6, <1>7, <2>1, AppendEffect DEF Tells
<1>8. CASE ~(~Again(row) /\ Emits(row))
  <2>1. UNCHANGED shown
    BY <1>8 DEF Row
  <2>2. KeysAreUnique'
    BY <2>1 DEF KeysAreUnique, SameKey, Apart
  <2>3. reason'[d] = "ok" => Again(row)
    <3>1. CASE Conflict(row)
      BY <1>6, <3>1 DEF Row, Conflict
    <3>2. CASE ~Conflict(row) /\ ~Again(row) /\ row.value = Missing
      BY <1>6, <3>2 DEF Row
    <3>3. CASE ~Conflict(row) /\ ~Again(row) /\ row.value # Missing
      BY <1>6, <1>8, <3>3 DEF Row, Emits
    <3>. QED
      BY <3>1, <3>2, <3>3
  <2>. QED
    BY <1>2, <1>3, <1>6, <2>1, <2>2, <2>3 DEF Tells, TypeTold, Again
<1>. QED
  BY <1>7, <1>8

(* A number of entries, as a value or for an enumeration.                   *)
LEMMA CountEffect ==
    ASSUME UNCHANGED text, TypeTold, KeysAreUnique, d \in Definitions, pc = "count",
           NEW value \in 0 .. MaxRows \cup {Missing},
           IF This.kind = "count" THEN CountReported(value) ELSE CountProvided(value)
    PROVE  /\ Tells
           /\ \/ /\ pc' = "next" /\ d' = d + 1 /\ UNCHANGED count
                 /\ This.kind # "count" => reason'[d] # "ok"
              \/ /\ pc' = "rows" /\ UNCHANGED <<d, reason, shown>> /\ This.kind # "count"
                 /\ value # Missing /\ count' = value
<1>1. /\ "extract" \in Reasons \ {"ok"} /\ "duplicate" \in Reasons \ {"ok"}
      /\ "request" \in Reasons \ {"ok"}
  BY DEF Reasons
<1>2. UNCHANGED shown => KeysAreUnique' /\ shown' \in [Definitions -> Seq(Samples)]
  BY DEF KeysAreUnique, SameKey, Apart, TypeTold
<1>3. CASE This.kind # "count"
  <2>1. CASE value = Missing
    <3>1. Fail("request") /\ NextDefinition /\ UNCHANGED <<count, shown>>
      BY <1>3, <2>1 DEF CountProvided
    <3>. QED
      BY <1>1, <1>2, <3>1, FailEffect DEF Tells, NextDefinition
  <2>2. CASE value # Missing
    <3>1. pc' = "rows" /\ count' = value /\ UNCHANGED <<d, reason, shown>>
      BY <1>3, <2>2 DEF CountProvided
    <3>. QED
      BY <1>2, <1>3, <2>2, <3>1 DEF Tells, TypeTold
  <2>. QED
    BY <2>1, <2>2
<1>4. CASE This.kind = "count"
  <2> DEFINE row == [name |-> This.name, value |-> value]
  <2>1. row \in Samples
    BY SamplesAre DEF This
  <2>2. NextDefinition /\ UNCHANGED count
    BY <1>4 DEF CountReported
  <2>3. \/ Fail("extract") /\ UNCHANGED shown
        \/ Fail("duplicate") /\ UNCHANGED shown
        \/ Emits(row) /\ shown' = [shown EXCEPT ![d] = Append(@, row)] /\ UNCHANGED reason
    BY <1>4 DEF CountReported
  <2>4. Tells
    <3>1. CASE Fail("extract") /\ UNCHANGED shown
      BY <1>1, <1>2, <3>1, FailEffect DEF Tells
    <3>2. CASE Fail("duplicate") /\ UNCHANGED shown
      BY <1>1, <1>2, <3>2, FailEffect DEF Tells
    <3>3. CASE Emits(row) /\ shown' = [shown EXCEPT ![d] = Append(@, row)] /\ UNCHANGED reason
      <4>. HIDE DEF row
      <4>. QED
        BY <2>1, <3>3, AppendEffect DEF Tells, TypeTold
    <3>. QED
      BY <2>3, <3>1, <3>2, <3>3
  <2>. QED
    BY <1>4, <2>2, <2>4 DEF NextDefinition
<1>. QED
  BY <1>3, <1>4

(* The XML list as a whole, or not at all.                                  *)
LEMMA ListEffect ==
    ASSUME UNCHANGED text, TypeTold, ShownInv, NEW l \in XmlLists, d \in Definitions,
           pc # "idle", pc # "rows",
           ShowList(l)
    PROVE  /\ Tells /\ pc' = "next" /\ d' = d + 1
           /\ IF reason'[d] \in {"request", "timeout"} THEN shown'[d] = <<>>
              ELSE /\ Range(shown'[d]) \subseteq Range(l.rows)
                   /\ \A n \in DOMAIN l.rows : \E e \in 1 .. d :
                         /\ e \in Definitions /\ SameKey(e, d)
                         /\ l.rows[n].name \in NamesOf(shown'[e])
           /\ \/ UNCHANGED used /\ reason'[d] # "ok"
              \/ used' = {l.version} /\ (reason'[d] = "ok" => Range(shown'[d]) = Range(l.rows))
<1> DEFINE given == FirstOfEachName(l.rows)
<1>1. /\ shown[d] = <<>> /\ reason[d] = "ok" /\ KeysAreUnique
      /\ \A e \in Definitions : e > d => shown[e] = <<>>
  <2>1. d <= d
    BY DefinitionsAre
  <2>. QED
    BY <2>1 DEF ShownInv, Untouched
<1>2. /\ pc' = "next" /\ d' = d + 1
  BY DEF ShowList, NextDefinition
<1>3. /\ shown \in [Definitions -> Seq(Samples)] /\ reason \in [Definitions -> Reasons]
  BY DEF TypeTold
<1>4. /\ "request" \in Reasons \ {"ok"} /\ "duplicate" \in Reasons \ {"ok"}
  BY DEF Reasons
<1>5. CASE ~Complete(l.rows)
  <2>1. Fail("request") /\ UNCHANGED <<shown, used>>
    BY <1>5 DEF ShowList
  <2>2. Tells /\ reason'[d] = "request"
    BY <1>1, <1>3, <1>4, <2>1, FailEffect DEF Tells, KeysAreUnique, SameKey, Apart
  <2>. QED
    BY <1>1, <1>2, <2>1, <2>2
<1>6. CASE Complete(l.rows)
  <2>1. /\ shown' = [shown EXCEPT ![d] = given] /\ used' = {l.version}
        /\ IF Clash(l.rows) THEN Fail("duplicate") ELSE UNCHANGED reason
    BY <1>6 DEF ShowList
  <2>2. /\ l.rows \in Lists
        /\ given \in Seq(Range(l.rows)) /\ given \in Seq(Rows)
        /\ \A m \in DOMAIN given : Emits(given[m])
        /\ \A m, n \in DOMAIN given : given[m].name = given[n].name => m = n
        /\ \A n \in DOMAIN l.rows : Emits(l.rows[n]) =>
              \E m \in DOMAIN given : given[m].name = l.rows[n].name
    <3>1. l.rows \in Lists
      BY DEF XmlLists
    <3>. QED
      BY <1>6, <3>1, FirstsAre
  <2>. HIDE DEF given
  <2>3. given \in Seq(Samples)
    BY <2>2, SamplesAre
  <2>4. /\ shown' \in [Definitions -> Seq(Samples)] /\ shown'[d] = given
        /\ \A e \in Definitions : e # d => shown'[e] = shown[e]
    BY <1>3, <2>1, <2>3
  <2>5. /\ reason' \in [Definitions -> Reasons]
        /\ \A e \in Definitions : e # d => reason'[e] = reason[e]
        /\ reason'[d] = IF Clash(l.rows) THEN "duplicate" ELSE "ok"
    <3>1. CASE Clash(l.rows)
      BY <1>1, <1>3, <1>4, <2>1, <3>1, FailEffect
    <3>2. CASE ~Clash(l.rows)
      BY <1>1, <1>3, <2>1, <3>2
    <3>. QED
      BY <3>1, <3>2
  <2>6. \A m \in DOMAIN given : ~Reported(given[m])
    BY <2>2 DEF Emits
  <2>7. KeysAreUnique'
    <3>1. \A m \in DOMAIN given, e \in Definitions : \A n \in DOMAIN shown[e] :
             SameKey(e, d) => shown[e][n].name # given[m].name
      BY <2>6 DEF Reported, Range, This
    <3> SUFFICES ASSUME NEW e \in Definitions, NEW f \in Definitions, SameKey(e, f),
                        NEW m \in DOMAIN shown'[e], NEW n \in DOMAIN shown'[f],
                        shown'[e][m].name = shown'[f][n].name
                 PROVE  e = f /\ m = n
      BY DEF KeysAreUnique, SameKey, Apart
    <3>2. CASE e # d /\ f # d
      BY <1>1, <2>4, <3>2 DEF KeysAreUnique, SameKey, Apart
    <3>3. CASE e = d /\ f # d
      <4>1. m \in DOMAIN given /\ n \in DOMAIN shown[f] /\ shown[f][n].name = given[m].name
        BY <2>4, <3>3
      <4>. QED
        BY <3>1, <3>3, <4>1 DEF SameKey
    <3>4. CASE e # d /\ f = d
      <4>1. n \in DOMAIN given /\ m \in DOMAIN shown[e] /\ shown[e][m].name = given[n].name
        BY <2>4, <3>4
      <4>. QED
        BY <3>1, <3>4, <4>1
    <3>5. CASE e = d /\ f = d
      BY <2>2, <2>4, <3>5
    <3>. QED
      BY <3>2, <3>3, <3>4, <3>5
  <2>8. Range(given) \subseteq Range(l.rows)
    BY <2>2 DEF Range
  <2>9. ASSUME NEW n \in DOMAIN l.rows
        PROVE  \E e \in 1 .. d : /\ e \in Definitions /\ SameKey(e, d)
                                 /\ l.rows[n].name \in NamesOf(shown'[e])
    <3>0. d \in 1 .. d /\ d \in Nat
      BY DefinitionsAre
    <3>1. CASE Emits(l.rows[n])
      <4>1. PICK m \in DOMAIN given : given[m].name = l.rows[n].name
        BY <2>2, <3>1
      <4>2. l.rows[n].name \in NamesOf(shown'[d])
        BY <2>4, <4>1 DEF NamesOf, Range
      <4>. QED
        BY <3>0, <4>2 DEF SameKey
    <3>2. CASE ~Emits(l.rows[n])
      <4>1. Reported(l.rows[n])
        BY <1>6, <3>2 DEF Emits, Complete
      <4>2. PICK e \in Definitions : /\ SameKey(e, d)
                                     /\ \E r \in Range(shown[e]) : r.name = l.rows[n].name
        BY <4>1 DEF Reported
      <4>3. shown[e] # <<>>
        BY <4>2 DEF Range
      <4>4. e < d
        BY <1>1, <4>3, DefinitionsAre
      <4>5. e \in 1 .. d /\ shown'[e] = shown[e]
        BY <2>4, <4>4, DefinitionsAre
      <4>. QED
        BY <4>2, <4>5 DEF NamesOf
    <3>. QED
      BY <3>1, <3>2
  <2>10. ASSUME reason'[d] = "ok" PROVE Range(given) = Range(l.rows)
    <3>1. ~Clash(l.rows)
      BY <2>5, <2>10
    <3>2. \A m, n \in DOMAIN l.rows : l.rows[m].name = l.rows[n].name => l.rows[m] = l.rows[n]
      BY <3>1 DEF Clash
    <3>3. ASSUME NEW n \in DOMAIN l.rows PROVE l.rows[n] \in Range(given)
      <4>1. Emits(l.rows[n])
        BY <1>6, <3>1 DEF Clash, Emits, Complete
      <4>2. PICK m \in DOMAIN given : given[m].name = l.rows[n].name
        BY <2>2, <4>1
      <4>3. PICK k \in DOMAIN l.rows : given[m] = l.rows[k]
        BY <2>8 DEF Range
      <4>4. given[m] = l.rows[n]
        BY <3>2, <4>2, <4>3
      <4>. QED
        BY <4>4 DEF Range
    <3>. QED
      BY <2>8, <3>3 DEF Range
  <2>11. Tells
    BY <2>4, <2>5, <2>7 DEF Tells
  <2>12. reason'[d] \notin {"request", "timeout"}
    BY <2>5
  <2>. QED
    BY <1>2, <2>1, <2>4, <2>8, <2>9, <2>10, <2>11, <2>12
<1>. QED
  BY <1>5, <1>6

(* What fails has a cause and shows nothing.                                *)
LEMMA FailTells ==
    ASSUME UNCHANGED text, TypeTold, KeysAreUnique, d \in Definitions,
           NEW cause \in Reasons \ {"ok"},
           Fail(cause), UNCHANGED shown
    PROVE  /\ Tells /\ reason'[d] # "ok" /\ (reason[d] = "ok" => reason'[d] = cause)
  BY FailEffect DEF Tells, TypeTold, KeysAreUnique, SameKey, Apart

(* So does what ends as it is.                                              *)
LEMMA NothingTold ==
    ASSUME UNCHANGED text, TypeTold, KeysAreUnique, UNCHANGED <<reason, shown>>
    PROVE  Tells
  BY DEF Tells, TypeTold, KeysAreUnique, SameKey, Apart

(* A definition has come to its end.                                        *)
LEMMA MovesOn ==
    ASSUME ShownInv, d \in Definitions, pc # "idle", Tells, pc' = "next", d' = d + 1, ~waiting'
    PROVE  d' \in 0 .. Len(Def) + 1 /\ ShownInv'
<1>1. d \in Nat /\ d >= 1 /\ d <= Len(Def) /\ Len(Def) \in Nat
  BY DefinitionsAre
<1>2. InPlace'
  BY <1>1 DEF InPlace
<1>3. Untouched'
  <2> SUFFICES ASSUME NEW e \in Definitions, e >= d + 1
               PROVE  shown'[e] = <<>> /\ reason'[e] = "ok"
    BY <1>1, DefinitionsAre DEF Untouched
  <2>1. e > d /\ e # d
    BY <1>1, DefinitionsAre
  <2>. QED
    BY <2>1 DEF ShownInv, Untouched, Tells
<1>. QED
  BY <1>1, <1>2, <1>3 DEF ShownInv, Tells

(* A definition goes on with its rows.                                      *)
LEMMA GoesOn ==
    ASSUME ShownInv, d \in Definitions, pc \in {"count", "rows"}, Tells,
           pc' = "rows", UNCHANGED <<d, xml>>, ~waiting', This.kind # "count"
    PROVE  ShownInv'
<1>1. This' = This
  BY DEF This
<1>2. InPlace'
  BY <1>1 DEF InPlace, ShownInv, UsesXml
<1>3. Untouched'
  <2> SUFFICES ASSUME NEW e \in Definitions, e > d
               PROVE  shown'[e] = <<>> /\ reason'[e] = "ok"
    BY DEF Untouched
  <2>1. e # d
    BY DefinitionsAre
  <2>. QED
    BY <2>1 DEF ShownInv, Untouched, Tells
<1>. QED
  BY <1>2, <1>3 DEF ShownInv, Tells

(* A result of getActionResult.                                             *)
LEMMA DeliverEffect ==
    ASSUME UNCHANGED text, TypeOK, ShownInv, Calling, NEW entry, entry.version \in Versions,
           pc = "count" => entry.value \in 0 .. MaxRows \cup {Missing},
           pc = "rows" => entry.value \in Rows,
           Deliver(entry)
    PROVE  /\ d \in Definitions /\ Tells /\ seen' \subseteq Rows
           /\ used' = used \cup {entry.version} /\ used' \subseteq Versions
           /\ \/ /\ pc = "rows" /\ i < count /\ pc' = "rows" /\ UNCHANGED <<d, count>> /\ i' = i + 1
                 /\ This.kind # "count"
                 /\ reason'[d] = "ok" => reason[d] = "ok"
                 /\ reason'[d] = "ok" /\ seen \subseteq Range(shown[d]) =>
                       /\ Range(shown'[d]) = Range(shown[d]) \cup {entry.value}
                       /\ seen' \subseteq Range(shown'[d])
              \/ /\ pc = "count" /\ pc' = "next" /\ d' = d + 1 /\ UNCHANGED <<i, count, seen>>
                 /\ This.kind # "count" => reason'[d] # "ok"
              \/ /\ pc = "count" /\ pc' = "rows" /\ UNCHANGED <<d, i, reason, shown, seen>>
                 /\ This.kind # "count" /\ entry.value # Missing /\ count' = entry.value
<1>1. TypeTold /\ KeysAreUnique
  BY TypeParts DEF ShownInv
<1>2. d \in Definitions /\ (pc = "rows" => This.kind # "count")
  BY DEF ShownInv, InPlace, Calling
<1>3. used' = used \cup {entry.version} /\ used' \subseteq Versions
  BY <1>1 DEF Deliver, TypeTold
<1>4. CASE pc = "rows"
  <2>1. Row(entry.value) /\ i < count
    BY <1>4 DEF Deliver, Calling
  <2>. QED
    BY <1>1, <1>2, <1>3, <1>4, <2>1, RowEffect
<1>5. CASE pc = "count"
  <2>1. /\ IF This.kind = "count" THEN CountReported(entry.value) ELSE CountProvided(entry.value)
        /\ UNCHANGED <<i, seen>>
    BY <1>5 DEF Deliver
  <2>2. seen' \subseteq Rows
    BY <1>1, <2>1 DEF TypeTold
  <2>. QED
    BY <1>1, <1>2, <1>3, <1>5, <2>1, <2>2, CountEffect
<1>. QED
  BY <1>4, <1>5 DEF Calling

(* After a result an enumeration has shown the list as far as it has read.  *)
LEMMA DeliverKeeps ==
    ASSUME TypeOK, ShownInv, CountIsCovered, ReadSoFar, Calling,
           NEW entry, entry.version \in Versions,
           pc = "count" => entry.value \in 0 .. MaxRows \cup {Missing},
           pc = "rows" => entry.value \in Rows,
           entry.version <= version[This.service],
           pc = "count" => \/ shrunk[This.service] \/ entry.value = Missing
                           \/ entry.value <= Len(list[This.service]),
           pc = "count" /\ entry.version = version[This.service] =>
               entry.value \in {Len(list[This.service]), Missing},
           pc = "rows" /\ entry.version = version[This.service] =>
               i < Len(list[This.service]) /\ entry.value = list[This.service][i + 1],
           Deliver(entry), ~waiting', UNCHANGED <<xml, text, list, version, shrunk>>
    PROVE  /\ pc' \in {"next", "rows"} /\ d' \in 0 .. Len(Def) + 1
           /\ count' \in 0 .. MaxRows /\ i' \in 0 .. count'
           /\ TypeTold' /\ ShownInv' /\ ReadSoFar'
           /\ pc' = "rows" => shrunk'[This'.service] \/ count' <= Len(list'[This'.service])
<1> DEFINE s == This.service
<1>0. /\ TypePlace /\ TypeTold /\ TypeLists /\ i \in Nat /\ count \in Nat /\ i <= count
      /\ count <= MaxRows /\ MaxRows \in Nat
  BY TypeParts, BoundsAssumption DEF TypePlace
<1>1. /\ d \in Definitions /\ Tells /\ seen' \subseteq Rows
      /\ used' = used \cup {entry.version} /\ used' \subseteq Versions
  BY DeliverEffect
<1>2. /\ s \in Services /\ list[s] \in Lists /\ Len(list[s]) \in Nat /\ version[s] \in Nat
      /\ d \in Nat /\ d >= 1 /\ d <= Len(Def) /\ Len(Def) \in Nat
  <2>1. s \in Services
    BY <1>1, DefinitionsAre DEF This
  <2>2. list[s] \in Lists /\ version[s] \in 0 .. MaxChanges
    BY <1>0, <2>1 DEF TypeLists
  <2>. QED
    BY <1>1, <2>1, <2>2, DefinitionsAre, BoundsAssumption DEF Lists
<1>3. TypeTold'
  BY <1>0, <1>1 DEF Tells, TypeTold
<1>4. CASE /\ pc = "rows" /\ i < count /\ pc' = "rows" /\ UNCHANGED <<d, count>> /\ i' = i + 1
           /\ This.kind # "count"
           /\ reason'[d] = "ok" => reason[d] = "ok"
           /\ reason'[d] = "ok" /\ seen \subseteq Range(shown[d]) =>
                 /\ Range(shown'[d]) = Range(shown[d]) \cup {entry.value}
                 /\ seen' \subseteq Range(shown'[d])
  <2>1. ShownInv'
    BY <1>1, <1>4, GoesOn
  <2>2. This' = This
    BY <1>4 DEF This
  <2>3. /\ used # {} /\ \A v \in used : v <= version[s]
        /\ reason[d] = "ok" /\ used = {version[s]} =>
              /\ count = Len(list[s])
              /\ Range(shown[d]) = {list[s][n] : n \in 1 .. i}
              /\ seen \subseteq Range(shown[d])
    BY <1>4 DEF ReadSoFar
  <2>4. used' # {} /\ \A v \in used' : v <= version[s]
    BY <1>1, <2>3
  <2>5. ASSUME reason'[d] = "ok", used' = {version[s]}
        PROVE  /\ count = Len(list[s])
               /\ Range(shown'[d]) = {list[s][n] : n \in 1 .. i + 1}
               /\ seen' \subseteq Range(shown'[d])
    <3>1. used = {version[s]} /\ entry.version = version[s]
      BY <1>1, <2>3, <2>5
    <3>2. /\ count = Len(list[s]) /\ Range(shown[d]) = {list[s][n] : n \in 1 .. i}
          /\ seen \subseteq Range(shown[d])
      BY <1>4, <2>3, <2>5, <3>1
    <3>3. Range(shown'[d]) = Range(shown[d]) \cup {list[s][i + 1]} /\ seen' \subseteq Range(shown'[d])
      BY <1>4, <2>5, <3>1, <3>2
    <3>4. 1 .. i + 1 = (1 .. i) \cup {i + 1}
      BY <1>0
    <3>. QED
      BY <3>2, <3>3, <3>4
  <2>6. ReadSoFar'
    <3>. HIDE DEF s
    <3>. QED
      BY <1>4, <2>2, <2>4, <2>5 DEF ReadSoFar, s
  <2>7. shrunk'[This'.service] \/ count' <= Len(list'[This'.service])
    BY <1>4, <2>2 DEF CountIsCovered
  <2>8. /\ pc' \in {"next", "rows"} /\ d' \in 0 .. Len(Def) + 1
        /\ count' \in 0 .. MaxRows /\ i' \in 0 .. count'
    BY <1>0, <1>2, <1>4
  <2>. QED
    BY <1>3, <2>1, <2>6, <2>7, <2>8
<1>5. CASE /\ pc = "count" /\ pc' = "next" /\ d' = d + 1 /\ UNCHANGED <<i, count, seen>>
           /\ This.kind # "count" => reason'[d] # "ok"
  <2>1. d' \in 0 .. Len(Def) + 1 /\ ShownInv'
    BY <1>1, <1>5, MovesOn
  <2>2. ReadSoFar'
    BY <1>5 DEF ReadSoFar
  <2>. QED
    BY <1>0, <1>3, <1>5, <2>1, <2>2
<1>6. CASE /\ pc = "count" /\ pc' = "rows" /\ UNCHANGED <<d, i, reason, shown, seen>>
           /\ This.kind # "count" /\ entry.value # Missing /\ count' = entry.value
  <2>1. ShownInv'
    BY <1>1, <1>6, GoesOn
  <2>2. This' = This
    BY <1>6 DEF This
  <2>3. i = 0 /\ seen = {} /\ used = {}
    BY <1>6 DEF ShownInv, InPlace
  <2>4. shown[d] = <<>>
    BY <1>1, <1>2, <1>6 DEF ShownInv, Untouched
  <2>5. used' = {entry.version} /\ count' \in 0 .. MaxRows
    BY <1>1, <1>6, <2>3
  <2>6. ReadSoFar'
    <3>1. entry.version = version[s] => count' = Len(list[s])
      BY <1>6
    <3>2. Range(shown'[d]) = {} /\ {list[s][n] : n \in 1 .. i} = {}
      BY <1>6, <2>3, <2>4 DEF Range
    <3>. QED
      BY <1>6, <2>2, <2>3, <2>5, <3>1, <3>2 DEF ReadSoFar
  <2>7. shrunk'[This'.service] \/ count' <= Len(list'[This'.service])
    BY <1>6, <2>2
  <2>8. /\ d' \in 0 .. Len(Def) + 1 /\ i' \in 0 .. count'
    BY <1>0, <1>2, <1>6, <2>3, <2>5
  <2>. QED
    BY <1>3, <1>6, <2>1, <2>5, <2>6, <2>7, <2>8
<1>. QED
  BY <1>4, <1>5, <1>6, DeliverEffect

-----------------------------------------------------------------------------
(* The invariant holds in the beginning.                                    *)
LEMMA InitHolds == Init => IInv
<1> SUFFICES ASSUME Init PROVE IInv
  OBVIOUS
<1>0. /\ Len(Def) \in Nat /\ \A e \in Definitions : e >= 1 /\ Def[e].service \in Services
      /\ MaxRows \in Nat /\ MaxTime \in Nat /\ MaxChanges \in Nat /\ MaxScrapes \in Nat
      /\ Budget \in Nat /\ Budget > 0
  BY DefinitionsAre, BoundsAssumption
<1>1. TypePlace
  <2>1. /\ root \in BOOLEAN /\ xml \in BOOLEAN /\ waiting \in BOOLEAN
        /\ \A e \in Definitions : text[e] \in Arrangements(Def[e].fixed)
    BY DEF Init
  <2>2. /\ d = 0 /\ count = 0 /\ i = 0 /\ now = 0 /\ asked = 0 /\ began = 0 /\ scrapes = 0
        /\ pc = "idle"
    BY DEF Init
  <2>. QED
    BY <1>0, <2>1, <2>2 DEF TypePlace
<1>2. TypeTold
  <2>1. "ok" \in Reasons /\ <<>> \in Seq(Samples)
    BY DEF Reasons
  <2>. QED
    BY <2>1 DEF Init, TypeTold
<1>3. ShownInv
  BY DEF Init, ShownInv, InPlace, Untouched, KeysAreUnique, SameKey, Apart
<1>4. PlaceInv
  BY <1>1, <1>2, <1>3 DEF Init, PlaceInv, CountIsCovered, ReadSoFar
<1>5. /\ \A s \in Services : cache[<<s>>] = NoEntry
      /\ \A s \in Services, n \in 0 .. MaxRows - 1 : cache[<<s, n>>] = NoEntry
      /\ \A k \in Keys : cache[k] = NoEntry
      /\ cache = [k \in Keys |-> cache[k]]
  BY KeysAre DEF Init
<1>6. \A s \in Services : version[s] = 0
  BY DEF Init
<1>7. CacheInv
  BY <1>5, <1>6, NothingIs DEF CacheInv, TypeCache, CachedCountsAreCovered, CacheIsDated,
                               EntriesAreTrue
<1>8. TypeLists
  <2>1. <<>> \in Lists
    BY <1>0 DEF Lists
  <2>. QED
    BY <1>0, <2>1, NothingIs DEF Init, TypeLists
<1>9. /\ hostList.version = -1 /\ body.version = -1 /\ hostList.at = -1 /\ hostList.fetched = -1
      /\ pc = "idle"
  BY NothingIs DEF Init
<1>10. XmlInv
  BY <1>0, <1>6, <1>8, <1>9 DEF XmlInv, XmlListIsDated, XmlListIsTrue
<1>. QED
  BY <1>4, <1>7, <1>10 DEF IInv

(* The cache and the lists as they are.                                     *)
LEMMA CacheFrame ==
    ASSUME CacheInv, UNCHANGED <<cache, list, version, shrunk>> PROVE CacheInv'
  BY DEF CacheInv, TypeCache, CachedCountsAreCovered, CacheIsDated, EntriesAreTrue

(* The XML lists as they are.                                               *)
LEMMA XmlFrame ==
    ASSUME XmlInv, UNCHANGED <<hostList, body, list, version>>,
           pc' = "body" => pc = "body" /\ began' = began
    PROVE  XmlInv'
  BY DEF XmlInv, TypeLists, XmlListIsDated, XmlListIsTrue

(* A definition has come to its end.                                        *)
LEMMA EndHolds ==
    ASSUME PlaceInv, d \in Definitions, pc # "idle", Tells, pc' = "next", d' = d + 1,
           waiting' = FALSE, UNCHANGED <<root, xml, text, count, began, now, scrapes>>,
           i' \in 0 .. count, asked' \in 0 .. now, seen' \subseteq Rows,
           used' \subseteq Versions, shrunk' \in [Services -> BOOLEAN]
    PROVE  PlaceInv'
<1>1. d' \in 0 .. Len(Def) + 1 /\ ShownInv'
  BY MovesOn DEF PlaceInv
<1>2. TypePlace'
  BY <1>1 DEF PlaceInv, TypePlace
<1>3. TypeTold'
  BY DEF Tells, TypeTold
<1>. QED
  BY <1>1, <1>2, <1>3 DEF PlaceInv, CountIsCovered, ReadSoFar

(* The XML list is on its way.                                              *)
LEMMA ProceedHolds ==
    ASSUME PlaceInv, d \in Definitions, UsesXml, pc \in {"next", "path", "download"},
           pc' \in {"path", "download", "body"},
           UNCHANGED <<d, reason, shown, used>>, Unaffected
    PROVE  PlaceInv'
<1>1. UNCHANGED <<root, xml, text, i, count, waiting, asked, began, seen, list, version, now,
                  scrapes, shrunk>>
  BY DEF Unaffected, settings, router
<1>2. TypePlace'
  BY <1>1 DEF PlaceInv, TypePlace
<1>3. TypeTold'
  BY <1>1 DEF PlaceInv, TypeTold
<1>4. This' = This
  BY DEF This
<1>5. InPlace'
  BY <1>1, <1>4, DefinitionsAre DEF PlaceInv, ShownInv, InPlace, UsesXml, Calling
<1>6. Untouched'
  BY <1>1 DEF PlaceInv, ShownInv, Untouched
<1>7. KeysAreUnique'
  BY <1>1 DEF PlaceInv, ShownInv, KeysAreUnique, SameKey, Apart
<1>. QED
  BY <1>2, <1>3, <1>5, <1>6, <1>7 DEF PlaceInv, ShownInv, CountIsCovered, ReadSoFar

(* A list of the router becomes another one.                                *)
LEMMA ListChanges ==
    ASSUME IInv, NEW s \in Services, NEW rows \in Lists, ListBecomes(s, rows),
           shrunk' \in [Services -> BOOLEAN], \A t \in Services : shrunk[t] => shrunk'[t],
           shrunk'[s] \/ Len(list[s]) <= Len(rows)
    PROVE  IInv'
<1>0. /\ PlaceInv /\ CacheInv /\ XmlInv /\ TypePlace /\ TypeTold /\ TypeLists /\ TypeCache
      /\ MaxChanges \in Nat /\ MaxRows \in Nat
  BY BoundsAssumption DEF IInv, PlaceInv, CacheInv, XmlInv
<1>1. /\ version[s] < MaxChanges
      /\ UNCHANGED <<root, xml, text, hostList, body, cache, pc, d, i, count, waiting, asked,
                     began, reason,
                     shown, seen, now, scrapes, used>>
  BY DEF ListBecomes, config, settings, collection
<1>2. /\ list' \in [Services -> Lists] /\ version' \in [Services -> 0 .. MaxChanges]
      /\ version'[s] = version[s] + 1 /\ list'[s] = rows
      /\ \A t \in Services : t # s => version'[t] = version[t] /\ list'[t] = list[t]
      /\ \A t \in Services : version[t] \in 0 .. MaxChanges /\ version'[t] >= version[t]
  <2>1. version[s] + 1 \in 0 .. MaxChanges
    BY <1>0, <1>1 DEF TypeLists
  <2>. QED
    BY <1>0, <2>1 DEF ListBecomes, TypeLists
<1>3. This' = This
  BY <1>1 DEF This
<1>4. PlaceInv'
  <2>1. TypePlace' /\ TypeTold'
    BY <1>0, <1>1 DEF TypePlace, TypeTold
  <2>2. ShownInv'
    BY <1>0, <1>1, <1>3 DEF PlaceInv, ShownInv, InPlace, Untouched, KeysAreUnique, SameKey,
                            Apart, UsesXml, Calling
  <2>3. ASSUME pc = "rows"
        PROVE  /\ This.service \in Services
               /\ shrunk[This.service] \/ count <= Len(list[This.service])
               /\ used # {} /\ \A v \in used : v <= version[This.service]
               /\ reason[d] = "ok" /\ used = {version[This.service]} =>
                     /\ count = Len(list[This.service])
                     /\ Range(shown[d]) = {list[This.service][n] : n \in 1 .. i}
                     /\ seen \subseteq Range(shown[d])
    BY <1>0, <2>3, DefinitionsAre DEF PlaceInv, CountIsCovered, ReadSoFar, ShownInv, InPlace, This
  <2>4. CountIsCovered'
    <3> SUFFICES ASSUME pc = "rows"
                 PROVE  shrunk'[This.service] \/ count <= Len(list'[This.service])
      BY <1>1, <1>3 DEF CountIsCovered
    <3>1. Len(list[s]) \in Nat /\ Len(rows) \in Nat /\ count \in Nat
      BY <1>0 DEF TypeLists, Lists, TypePlace
    <3>. QED
      BY <1>2, <2>3, <3>1
  <2>5. ReadSoFar'
    <3> SUFFICES ASSUME pc = "rows"
                 PROVE  LET t == This.service IN
                        /\ used # {} /\ \A v \in used : v <= version'[t]
                        /\ reason[d] = "ok" /\ used = {version'[t]} =>
                              /\ count = Len(list'[t])
                              /\ Range(shown[d]) = {list'[t][n] : n \in 1 .. i}
                              /\ seen \subseteq Range(shown[d])
      BY <1>1, <1>3 DEF ReadSoFar
    <3>0. used \subseteq Int
      BY <1>0 DEF TypeTold, Versions
    <3>1. CASE This.service = s
      <4>1. \A v \in used : v < version'[s]
        BY <1>2, <2>3, <3>0, <3>1
      <4>2. used # {version'[s]}
        <5>1. version'[s] \in Int
          BY <1>2
        <5>. QED
          BY <4>1, <5>1
      <4>. QED
        BY <1>2, <2>3, <3>0, <3>1, <4>1, <4>2
    <3>2. CASE This.service # s
      <4>1. version'[This.service] = version[This.service] /\ list'[This.service] = list[This.service]
        BY <1>2, <2>3, <3>2
      <4>. QED
        BY <2>3, <4>1
    <3>. QED
      BY <3>1, <3>2
  <2>. QED
    BY <2>1, <2>2, <2>4, <2>5 DEF PlaceInv
<1>5. CacheInv'
  <2>1. TypeCache' /\ CacheIsDated'
    BY <1>0, <1>1 DEF CacheInv, TypeCache, CacheIsDated
  <2>2. CachedCountsAreCovered'
    <3> SUFFICES ASSUME NEW t \in Services
                 PROVE  shrunk'[t] \/ cache[<<t>>].value = Missing
                        \/ cache[<<t>>].value <= Len(list'[t])
      BY <1>1 DEF CachedCountsAreCovered
    <3>1. shrunk[t] \/ cache[<<t>>].value = Missing \/ cache[<<t>>].value <= Len(list[t])
      BY <1>0 DEF CacheInv, CachedCountsAreCovered
    <3>2. Len(list[s]) \in Nat /\ Len(rows) \in Nat
      BY <1>0 DEF TypeLists, Lists
    <3>3. cache[<<t>>].value \in Nat \/ cache[<<t>>].value = Missing
      BY <1>0 DEF TypeCache, CountEntries
    <3>. QED
      BY <1>2, <3>1, <3>2, <3>3
  <2>3. EntriesAreTrue'
    <3> SUFFICES ASSUME NEW t \in Services
                 PROVE  /\ cache[<<t>>].version <= version'[t]
                        /\ cache[<<t>>].version = version'[t] =>
                              cache[<<t>>].value \in {Len(list'[t]), Missing}
                        /\ \A n \in 0 .. MaxRows - 1 :
                              /\ cache[<<t, n>>].version <= version'[t]
                              /\ cache[<<t, n>>].version = version'[t] =>
                                    n < Len(list'[t]) /\ cache[<<t, n>>].value = list'[t][n + 1]
      BY <1>1 DEF EntriesAreTrue
    <3>1. /\ cache[<<t>>].version <= version[t] /\ cache[<<t>>].version \in Int
          /\ cache[<<t>>].version = version[t] => cache[<<t>>].value \in {Len(list[t]), Missing}
      BY <1>0 DEF CacheInv, EntriesAreTrue, TypeCache, CountEntries, Versions
    <3>2. ASSUME NEW n \in 0 .. MaxRows - 1
          PROVE  /\ cache[<<t, n>>].version <= version[t] /\ cache[<<t, n>>].version \in Int
                 /\ cache[<<t, n>>].version = version[t] =>
                       n < Len(list[t]) /\ cache[<<t, n>>].value = list[t][n + 1]
      <4>1. cache[<<t, n>>] \in RowEntries
        BY <1>0 DEF TypeCache
      <4>2. cache[<<t, n>>].version \in Int
        BY <4>1, NothingIs DEF RowEntries, Versions
      <4>. QED
        BY <1>0, <4>2 DEF CacheInv, EntriesAreTrue
    <3>3. CASE t = s
      BY <1>2, <3>1, <3>2, <3>3
    <3>4. CASE t # s
      BY <1>2, <3>1, <3>2, <3>4
    <3>. QED
      BY <3>3, <3>4
  <2>. QED
    BY <2>1, <2>2, <2>3 DEF CacheInv
<1>6. XmlInv'
  <2>1. TypeLists'
    BY <1>0, <1>1, <1>2 DEF TypeLists
  <2>2. XmlListIsDated'
    BY <1>0, <1>1 DEF XmlInv, XmlListIsDated
  <2>3. ASSUME NEW l \in XmlLists, XmlListIsTrue(l), NEW e \in Definitions, Def[e].kind = "hosts"
        PROVE  /\ l.version <= version'[Def[e].service]
               /\ l.version = version'[Def[e].service] => l.rows = list'[Def[e].service]
    <3>1. Def[e].service \in Services /\ l.version \in Int
      BY DefinitionsAre DEF XmlLists, Versions
    <3>2. /\ l.version <= version[Def[e].service]
          /\ l.version = version[Def[e].service] => l.rows = list[Def[e].service]
      BY <2>3 DEF XmlListIsTrue
    <3>. QED
      BY <1>2, <3>1, <3>2
  <2>4. hostList \in XmlLists /\ body \in XmlLists /\ XmlListIsTrue(hostList) /\ XmlListIsTrue(body)
    BY <1>0 DEF TypeLists, XmlInv
  <2>5. XmlListIsTrue(hostList)' /\ XmlListIsTrue(body)'
    BY <1>1, <2>3, <2>4 DEF XmlListIsTrue
  <2>. QED
    BY <2>1, <2>2, <2>5 DEF XmlInv
<1>. QED
  BY <1>4, <1>5, <1>6 DEF IInv

-----------------------------------------------------------------------------
(* The loop over the definitions                                            *)

(* Discovery, a tick of the clock and rest leave a collection alone.        *)
LEMMA OutsideHolds ==
    ASSUME IInv, Discovered \/ Tick \/ UNCHANGED vars PROVE IInv'
<1>1. /\ UNCHANGED <<xml, text, hostList, body, cache, pc, d, i, count, waiting, asked, began,
                     reason,
                     shown, seen, list, version, scrapes, used, shrunk>>
      /\ root' = root \/ root' = TRUE
      /\ now' = now \/ (now < MaxTime /\ now' = now + 1)
  BY DEF Discovered, Tick, vars, config, settings, collection, router
<1>2. TypePlace'
  <2>1. root' \in BOOLEAN
    BY <1>1 DEF IInv, PlaceInv, TypePlace
  <2>2. now' \in 0 .. MaxTime /\ now <= now' /\ now \in Nat
    BY <1>1, BoundsAssumption DEF IInv, PlaceInv, TypePlace
  <2>3. asked' \in 0 .. now' /\ began' \in 0 .. now'
    BY <1>1, <2>2 DEF IInv, PlaceInv, TypePlace
  <2>. QED
    BY <1>1, <2>1, <2>2, <2>3 DEF IInv, PlaceInv, TypePlace
<1>3. This' = This
  BY <1>1 DEF This
<1>4. PlaceInv'
  <2>1. TypeTold' /\ CountIsCovered' /\ ReadSoFar'
    BY <1>1, <1>3 DEF IInv, PlaceInv, TypeTold, CountIsCovered, ReadSoFar
  <2>2. ShownInv'
    BY <1>1, <1>3 DEF IInv, PlaceInv, ShownInv, InPlace, Untouched, KeysAreUnique, SameKey,
                      Apart, UsesXml, Calling
  <2>. QED
    BY <1>2, <2>1, <2>2 DEF PlaceInv
<1>5. CacheInv' /\ XmlInv'
  BY <1>1, CacheFrame, XmlFrame DEF IInv
<1>. QED
  BY <1>4, <1>5 DEF IInv

(* A collection starts with the first definition.                           *)
LEMMA StartScrapeHolds ==
    ASSUME IInv, StartScrape PROVE IInv'
<1>1. /\ UNCHANGED <<root, xml, text, hostList, body, cache, i, count, waiting, asked, shown,
                     seen, list,
                     version, now, used, shrunk>>
      /\ pc = "idle" /\ d = 0 /\ ~waiting
      /\ scrapes' = scrapes + 1 /\ scrapes < MaxScrapes
      /\ \/ /\ pc' = "next" /\ d' = 1 /\ began' = now
            /\ reason' = [e \in Definitions |-> "ok"]
         \/ /\ UNCHANGED <<pc, d, began>> /\ reason' = [e \in Definitions |-> "discovery"]
  BY DEF StartScrape, config, settings, router, IInv, PlaceInv, ShownInv, InPlace, Calling
<1>2. TypePlace'
  <2>1. scrapes' \in 0 .. MaxScrapes
    BY <1>1, BoundsAssumption DEF IInv, PlaceInv, TypePlace
  <2>2. d' \in 0 .. Len(Def) + 1 /\ began' \in 0 .. now
    BY <1>1, DefinitionsAre DEF IInv, PlaceInv, TypePlace
  <2>. QED
    BY <1>1, <2>1, <2>2 DEF IInv, PlaceInv, TypePlace
<1>3. TypeTold'
  <2>1. reason' \in [Definitions -> Reasons]
    BY <1>1 DEF Reasons
  <2>. QED
    BY <1>1, <2>1 DEF IInv, PlaceInv, TypeTold
<1>4. ShownInv'
  <2>1. InPlace' /\ KeysAreUnique'
    BY <1>1 DEF IInv, PlaceInv, ShownInv, InPlace, KeysAreUnique, SameKey, Apart
  <2>2. \A e \in Definitions : e > d /\ shown'[e] = <<>>
    BY <1>1, DefinitionsAre DEF IInv, PlaceInv, ShownInv, Untouched
  <2>3. Untouched'
    BY <1>1, <2>2 DEF Untouched
  <2>. QED
    BY <2>1, <2>3 DEF ShownInv
<1>5. PlaceInv'
  BY <1>1, <1>2, <1>3, <1>4 DEF PlaceInv, CountIsCovered, ReadSoFar
<1>6. CacheInv' /\ XmlInv'
  BY <1>1, CacheFrame, XmlFrame DEF IInv
<1>. QED
  BY <1>5, <1>6 DEF IInv

(* A definition is begun with the number of entries.                        *)
LEMMA StartDefinitionHolds ==
    ASSUME IInv, StartDefinition PROVE IInv'
<1>1. /\ UNCHANGED <<root, xml, text, hostList, body, cache, d, waiting, asked, began, reason,
                     shown, list,
                     version, now, scrapes, shrunk>>
      /\ pc = "next" /\ pc' = "count" /\ d \in Definitions /\ ~UsesXml /\ ~waiting
      /\ i' = 0 /\ count' = 0 /\ seen' = {} /\ used' = {}
  BY DEF StartDefinition, Afresh, config, settings, router, IInv, PlaceInv, ShownInv, InPlace,
         Calling
<1>2. This' = This
  BY <1>1 DEF This
<1>3. TypePlace' /\ TypeTold'
  BY <1>1, BoundsAssumption DEF IInv, PlaceInv, TypePlace, TypeTold
<1>4. ShownInv'
  <2>1. InPlace'
    BY <1>1, <1>2 DEF InPlace, UsesXml
  <2>2. Untouched' /\ KeysAreUnique'
    BY <1>1 DEF IInv, PlaceInv, ShownInv, Untouched, KeysAreUnique, SameKey, Apart
  <2>. QED
    BY <2>1, <2>2 DEF ShownInv
<1>5. PlaceInv'
  BY <1>1, <1>3, <1>4 DEF PlaceInv, CountIsCovered, ReadSoFar
<1>6. CacheInv' /\ XmlInv'
  BY <1>1, CacheFrame, XmlFrame DEF IInv
<1>. QED
  BY <1>5, <1>6 DEF IInv

(* A collection ends and forgets what it has shown.                         *)
LEMMA FinishScrapeHolds ==
    ASSUME IInv, FinishScrape PROVE IInv'
<1>1. /\ UNCHANGED <<root, xml, text, hostList, body, cache, waiting, reason, list, version,
                     now, scrapes,
                     shrunk>>
      /\ pc = "next" /\ pc' = "idle" /\ d' = 0 /\ asked' = 0 /\ began' = 0 /\ ~waiting
      /\ i' = 0 /\ count' = 0 /\ seen' = {} /\ used' = {}
      /\ shown' = [e \in Definitions |-> <<>>]
  BY DEF FinishScrape, Afresh, config, settings, router, IInv, PlaceInv, ShownInv, InPlace, Calling
<1>2. TypePlace'
  BY <1>1, BoundsAssumption, DefinitionsAre DEF IInv, PlaceInv, TypePlace
<1>3. TypeTold'
  <2>1. <<>> \in Seq(Samples)
    OBVIOUS
  <2>. QED
    BY <1>1, <2>1 DEF IInv, PlaceInv, TypeTold
<1>4. ShownInv'
  BY <1>1 DEF ShownInv, InPlace, Untouched, KeysAreUnique, SameKey, Apart
<1>5. PlaceInv'
  BY <1>1, <1>2, <1>3, <1>4 DEF PlaceInv, CountIsCovered, ReadSoFar
<1>6. CacheInv' /\ XmlInv'
  BY <1>1, CacheFrame, XmlFrame DEF IInv
<1>. QED
  BY <1>5, <1>6 DEF IInv

(* A definition ends by itself, or because there is no time left.           *)
LEMMA LoopEndHolds ==
    ASSUME IInv, OutOfTime \/ RowsDone \/ RowsTimeout PROVE IInv'
<1>1. /\ UNCHANGED <<root, xml, text, hostList, body, cache, i, count, waiting, asked, began,
                     shown, seen,
                     list, version, now, scrapes, used, shrunk>>
      /\ pc \in {"next", "rows"} /\ pc' = "next" /\ d' = d + 1
      /\ UNCHANGED reason \/ Fail("timeout")
  BY DEF OutOfTime, RowsDone, RowsTimeout, NextDefinition, config, settings, router
<1>2. waiting = FALSE /\ d \in Definitions
  <2>1. ~waiting /\ d \in Definitions
    BY DEF OutOfTime, RowsDone, RowsTimeout, IInv, PlaceInv, ShownInv, InPlace, Calling
  <2>. QED
    BY <2>1 DEF IInv, PlaceInv, TypePlace
<1>3. Tells
  <2>1. "timeout" \in Reasons \ {"ok"} /\ TypeTold /\ KeysAreUnique
    BY DEF Reasons, IInv, PlaceInv, ShownInv
  <2>. QED
    BY <1>1, <1>2, <2>1, FailTells, NothingTold
<1>4. PlaceInv'
  <2>1. /\ i' \in 0 .. count /\ asked' \in 0 .. now /\ seen' \subseteq Rows
        /\ used' \subseteq Versions /\ shrunk' \in [Services -> BOOLEAN]
    BY <1>1 DEF IInv, PlaceInv, TypePlace, TypeTold
  <2>. QED
    BY <1>1, <1>2, <1>3, <2>1, EndHolds DEF IInv
<1>5. CacheInv' /\ XmlInv'
  BY <1>1, CacheFrame, XmlFrame DEF IInv
<1>. QED
  BY <1>4, <1>5 DEF IInv

-----------------------------------------------------------------------------
(* getActionResult                                                          *)

(* A call is made for a definition and an index that has its key.           *)
LEMMA CallIs ==
    ASSUME PlaceInv, Calling
    PROVE  /\ d \in Definitions /\ This.service \in Services /\ pc \in {"count", "rows"}
           /\ pc = "rows" => i \in 0 .. MaxRows - 1 /\ i + 1 \in 0 .. count /\ This.kind # "count"
           /\ i \in Nat /\ count \in 0 .. MaxRows /\ MaxRows \in Nat
  BY DefinitionsAre, BoundsAssumption
     DEF PlaceInv, TypePlace, ShownInv, InPlace, Calling, This

(* The lists and their versions.                                            *)
LEMMA ListsAre ==
    ASSUME TypeLists, NEW s \in Services
    PROVE  /\ list[s] \in Lists /\ Len(list[s]) \in 0 .. MaxRows /\ Len(list[s]) \in Nat
           /\ \A n \in 1 .. Len(list[s]) : list[s][n] \in Rows
           /\ version[s] \in 0 .. MaxChanges /\ version[s] \in Versions
<1>1. list[s] \in Lists /\ version[s] \in 0 .. MaxChanges
  BY DEF TypeLists
<1>. QED
  BY <1>1, BoundsAssumption DEF Lists, Versions

\* What may be said of an entry for the key that is asked for.
GoodEntry(entry) ==
    LET s == This.service IN
    /\ entry.stamp <= entry.fetched /\ entry.version \in Versions /\ entry.version <= version[s]
    /\ pc = "count" =>
          /\ entry \in CountEntries
          /\ shrunk[s] \/ entry.value = Missing \/ entry.value <= Len(list[s])
          /\ entry.version = version[s] => entry.value \in {Len(list[s]), Missing}
    /\ pc = "rows" =>
          /\ entry \in RowEntries
          /\ entry.version = version[s] => i < Len(list[s]) /\ entry.value = list[s][i + 1]

(* What is cached may be said of.                                           *)
LEMMA CachedIsGood ==
    ASSUME IInv, Calling PROVE GoodEntry(cache[Key]) /\ Key \in Keys
<1>1. /\ d \in Definitions /\ This.service \in Services /\ pc \in {"count", "rows"}
      /\ pc = "rows" => i \in 0 .. MaxRows - 1
  BY CallIs DEF IInv
<1>2. Key \in Keys
  BY <1>1, KeysAre DEF Key
<1>3. cache[Key].stamp <= cache[Key].fetched
  BY <1>2 DEF IInv, CacheInv, CacheIsDated
<1>4. CASE pc = "count"
  <2>1. Key = <<This.service>>
    BY <1>4 DEF Key
  <2>2. cache[Key] \in CountEntries
    BY <1>1, <2>1 DEF IInv, CacheInv, TypeCache
  <2>3. cache[Key].version \in Versions
    BY <2>2 DEF CountEntries
  <2>. QED
    BY <1>1, <1>2, <1>3, <1>4, <2>1, <2>2, <2>3
       DEF IInv, CacheInv, CachedCountsAreCovered, EntriesAreTrue, GoodEntry
<1>5. CASE pc = "rows"
  <2>1. Key = <<This.service, i>>
    BY <1>5 DEF Key
  <2>2. cache[Key] \in RowEntries
    BY <1>1, <1>5, <2>1 DEF IInv, CacheInv, TypeCache
  <2>3. cache[Key].version \in Versions
    BY <2>2, NothingIs, BoundsAssumption DEF RowEntries, Versions
  <2>. QED
    BY <1>1, <1>2, <1>3, <1>5, <2>1, <2>2, <2>3 DEF IInv, CacheInv, EntriesAreTrue, GoodEntry
<1>. QED
  BY <1>1, <1>4, <1>5

(* Nothing may be said of nothing.                                          *)
LEMMA NoEntryIsGood ==
    ASSUME IInv, Calling PROVE GoodEntry(NoEntry)
<1>1. This.service \in Services /\ TypeLists
  BY CallIs DEF IInv, XmlInv
<1>2. version[This.service] \in Nat
  BY <1>1, ListsAre, BoundsAssumption
<1>3. NoEntry.version \in Versions
  BY NothingIs, BoundsAssumption DEF Versions
<1>. QED
  BY <1>2, <1>3, NothingIs DEF GoodEntry

(* The cache with such an entry.                                            *)
LEMMA CachePutHolds ==
    ASSUME IInv, Calling, NEW entry, GoodEntry(entry), cache' = [cache EXCEPT ![Key] = entry],
           UNCHANGED <<list, version, shrunk>>
    PROVE  CacheInv'
<1> DEFINE t == This.service
<1>1. /\ d \in Definitions /\ t \in Services /\ pc \in {"count", "rows"}
      /\ pc = "rows" => i \in 0 .. MaxRows - 1
  BY CallIs DEF IInv
<1>2. TypeCache /\ CachedCountsAreCovered /\ CacheIsDated /\ EntriesAreTrue
  BY DEF IInv, CacheInv
<1>3. /\ cache' = [k \in Keys |-> cache'[k]]
      /\ \A k \in Keys : cache'[k] = entry \/ cache'[k] = cache[k]
      /\ \A s \in Services :
            cache'[<<s>>] = IF pc = "count" /\ s = t THEN entry ELSE cache[<<s>>]
      /\ \A s \in Services, n \in 0 .. MaxRows - 1 :
            cache'[<<s, n>>] = IF pc = "rows" /\ s = t /\ n = i THEN entry ELSE cache[<<s, n>>]
  <2>1. cache = [k \in Keys |-> cache[k]]
    BY <1>2 DEF TypeCache
  <2>2. pc = "count" \/ (pc = "rows" /\ i \in 0 .. MaxRows - 1)
    BY <1>1
  <2>. QED
    BY <1>1, <2>1, <2>2, CachePut
<1>. HIDE DEF t
<1>4. /\ entry.stamp <= entry.fetched /\ entry.version <= version[t]
      /\ pc = "count" =>
            /\ entry \in CountEntries
            /\ shrunk[t] \/ entry.value = Missing \/ entry.value <= Len(list[t])
            /\ entry.version = version[t] => entry.value \in {Len(list[t]), Missing}
      /\ pc = "rows" =>
            /\ entry \in RowEntries
            /\ entry.version = version[t] => i < Len(list[t]) /\ entry.value = list[t][i + 1]
  BY DEF GoodEntry, t
<1>5. TypeCache'
  BY <1>2, <1>3, <1>4 DEF TypeCache
<1>6. CacheIsDated'
  BY <1>2, <1>3, <1>4 DEF CacheIsDated
<1>7. CachedCountsAreCovered'
  <2> SUFFICES ASSUME NEW s \in Services
               PROVE  shrunk[s] \/ cache'[<<s>>].value = Missing
                      \/ cache'[<<s>>].value <= Len(list[s])
    BY DEF CachedCountsAreCovered
  <2>1. shrunk[s] \/ cache[<<s>>].value = Missing \/ cache[<<s>>].value <= Len(list[s])
    BY <1>2 DEF CachedCountsAreCovered
  <2>2. CASE pc = "count" /\ s = t
    BY <1>3, <1>4, <2>2
  <2>3. CASE ~(pc = "count" /\ s = t)
    BY <1>3, <2>1, <2>3
  <2>. QED
    BY <2>2, <2>3
<1>8. EntriesAreTrue'
  <2> SUFFICES ASSUME NEW s \in Services
               PROVE  /\ cache'[<<s>>].version <= version[s]
                      /\ cache'[<<s>>].version = version[s] =>
                            cache'[<<s>>].value \in {Len(list[s]), Missing}
                      /\ \A n \in 0 .. MaxRows - 1 :
                            /\ cache'[<<s, n>>].version <= version[s]
                            /\ cache'[<<s, n>>].version = version[s] =>
                                  n < Len(list[s]) /\ cache'[<<s, n>>].value = list[s][n + 1]
    BY DEF EntriesAreTrue
  <2>. QED
    BY <1>2, <1>3, <1>4 DEF EntriesAreTrue
<1>. QED
  BY <1>5, <1>6, <1>7, <1>8 DEF CacheInv

(* A result is used.                                                        *)
LEMMA GoodIsDelivered ==
    ASSUME IInv, Calling, NEW entry, GoodEntry(entry), entry # NoEntry, Deliver(entry),
           waiting' = FALSE, asked' \in 0 .. now,
           UNCHANGED <<root, xml, text, list, version, shrunk, began, now, scrapes>>
    PROVE  PlaceInv' /\ pc' # "body"
<1>1. /\ d \in Definitions /\ pc \in {"count", "rows"}
      /\ PlaceInv /\ TypeOK /\ ShownInv /\ CountIsCovered /\ ReadSoFar
  BY CallIs, TypeParts DEF IInv, PlaceInv, CacheInv, XmlInv
<1>2. /\ pc = "count" => entry.value \in 0 .. MaxRows \cup {Missing}
      /\ pc = "rows" => entry.value \in Rows
  <2>1. CASE pc = "count"
    BY <2>1 DEF GoodEntry, CountEntries
  <2>2. CASE pc = "rows"
    BY <2>2 DEF GoodEntry, RowEntries
  <2>. QED
    BY <1>1, <2>1, <2>2
<1>3. /\ pc' \in {"next", "rows"} /\ d' \in 0 .. Len(Def) + 1
      /\ count' \in 0 .. MaxRows /\ i' \in 0 .. count'
      /\ TypeTold' /\ ShownInv' /\ ReadSoFar'
      /\ pc' = "rows" => shrunk'[This'.service] \/ count' <= Len(list'[This'.service])
  BY <1>1, <1>2, DeliverKeeps DEF GoodEntry
<1>4. TypePlace'
  BY <1>1, <1>3 DEF PlaceInv, TypePlace
<1>. QED
  BY <1>3, <1>4 DEF PlaceInv, CountIsCovered

(* A cached result is used.                                                 *)
LEMMA FromCacheHolds ==
    ASSUME IInv, FromCache PROVE IInv'
<1>1. /\ UNCHANGED <<root, xml, text, hostList, body, cache, waiting, asked, began, list,
                     version, now,
                     scrapes, shrunk>>
      /\ Calling /\ ~waiting /\ cache[Key] # NoEntry /\ Deliver(cache[Key])
  BY DEF FromCache, MayCall, Usable, config, settings, router
<1>2. waiting' = FALSE /\ asked' \in 0 .. now
  BY <1>1 DEF IInv, PlaceInv, TypePlace
<1>3. PlaceInv' /\ pc' # "body"
  BY <1>1, <1>2, CachedIsGood, GoodIsDelivered
<1>4. CacheInv' /\ XmlInv'
  BY <1>1, <1>3, CacheFrame, XmlFrame DEF IInv
<1>. QED
  BY <1>3, <1>4 DEF IInv

(* A request is made.                                                       *)
LEMMA AskHolds ==
    ASSUME IInv, Ask PROVE IInv'
<1>1. /\ UNCHANGED <<root, xml, text, hostList, body, pc, d, i, count, began, reason, shown,
                     seen, list,
                     version, now, scrapes, used, shrunk>>
      /\ Calling /\ waiting' = TRUE /\ asked' = now /\ cache' = [cache EXCEPT ![Key] = NoEntry]
  BY DEF Ask, MayCall, config, settings, router
<1>2. This' = This
  BY <1>1 DEF This
<1>3. TypePlace' /\ TypeTold'
  BY <1>1 DEF IInv, PlaceInv, TypePlace, TypeTold
<1>4. ShownInv'
  BY <1>1, <1>2 DEF IInv, PlaceInv, ShownInv, InPlace, Untouched, KeysAreUnique, SameKey,
                    Apart, UsesXml, Calling
<1>5. PlaceInv'
  BY <1>1, <1>2, <1>3, <1>4 DEF IInv, PlaceInv, CountIsCovered, ReadSoFar
<1>6. CacheInv'
  BY <1>1, NoEntryIsGood, CachePutHolds
<1>7. XmlInv'
  BY <1>1, XmlFrame DEF IInv
<1>. QED
  BY <1>5, <1>6, <1>7 DEF IInv

(* The router answers, from its list as it is.                              *)
LEMMA AnswerIsGood ==
    ASSUME IInv, Calling, Answerable, NEW value \in Answers
    PROVE  LET entry == [value |-> value, stamp |-> asked, fetched |-> now,
                         version |-> version[This.service]]
           IN  GoodEntry(entry) /\ entry # NoEntry
<1> DEFINE s == This.service
           entry == [value |-> value, stamp |-> asked, fetched |-> now, version |-> version[s]]
<1>1. /\ d \in Definitions /\ s \in Services /\ pc \in {"count", "rows"} /\ TypeLists
      /\ pc = "rows" => i \in 0 .. MaxRows - 1
      /\ MaxRows \in Nat
  BY CallIs DEF IInv, XmlInv
<1>2. /\ Len(list[s]) \in 0 .. MaxRows /\ \A n \in 1 .. Len(list[s]) : list[s][n] \in Rows
      /\ version[s] \in Versions /\ version[s] \in Nat
  BY <1>1, ListsAre, BoundsAssumption
<1>3. asked \in Times /\ now \in Times /\ asked <= now /\ now # -1
  BY BoundsAssumption DEF IInv, PlaceInv, TypePlace, Times
<1>4. /\ entry.value = value /\ entry.stamp = asked /\ entry.fetched = now
      /\ entry.version = version[s]
  OBVIOUS
<1>5. entry # NoEntry
  BY <1>3, NothingIs
<1>6. ASSUME pc = "count" PROVE GoodEntry(entry)
  <2>1. value \in {Len(list[s]), Missing}
    BY <1>6 DEF Answers, Entries
  <2>2. entry \in CountEntries
    BY <1>2, <1>3, <2>1 DEF CountEntries
  <2>. HIDE DEF entry
  <2>. QED
    BY <1>1, <1>2, <1>3, <1>4, <1>5, <1>6, <2>1, <2>2 DEF GoodEntry
<1>7. ASSUME pc = "rows" PROVE GoodEntry(entry)
  <2>1. i < Len(list[s]) /\ value = list[s][i + 1]
    BY <1>7 DEF Answers, Answerable, Entries
  <2>2. value \in Rows
    BY <1>1, <1>2, <1>7, <2>1
  <2>3. entry \in RowEntries
    BY <1>2, <1>3, <2>2 DEF RowEntries
  <2>. HIDE DEF entry
  <2>. QED
    BY <1>1, <1>2, <1>3, <1>4, <1>5, <1>7, <2>1, <2>3 DEF GoodEntry
<1>. QED
  BY <1>1, <1>5, <1>6, <1>7

(* The answer is cached and used.                                           *)
LEMMA AnswerHolds ==
    ASSUME IInv, Answer PROVE IInv'
<1>1. /\ UNCHANGED <<root, xml, text, hostList, body, began, list, version, now, scrapes, shrunk>>
      /\ waiting /\ Answerable /\ waiting' = FALSE /\ asked' = 0
  BY DEF Answer, config, settings, router
<1>2. Calling
  BY <1>1 DEF IInv, PlaceInv, ShownInv, InPlace
<1>3. asked' \in 0 .. now
  BY <1>1, BoundsAssumption DEF IInv, PlaceInv, TypePlace
<1>4. PICK value \in Answers :
         LET entry == [value |-> value, stamp |-> asked, fetched |-> now,
                       version |-> version[This.service]]
         IN  cache' = [cache EXCEPT ![Key] = entry] /\ Deliver(entry)
  BY DEF Answer
<1> DEFINE entry == [value |-> value, stamp |-> asked, fetched |-> now,
                     version |-> version[This.service]]
<1>5. GoodEntry(entry) /\ entry # NoEntry
  BY <1>1, <1>2, AnswerIsGood
<1>6. cache' = [cache EXCEPT ![Key] = entry] /\ Deliver(entry)
  BY <1>4
<1>. HIDE DEF entry
<1>7. PlaceInv' /\ pc' # "body"
  BY <1>1, <1>2, <1>3, <1>5, <1>6, GoodIsDelivered
<1>8. CacheInv'
  BY <1>1, <1>2, <1>5, <1>6, CachePutHolds
<1>9. XmlInv'
  BY <1>1, <1>7, XmlFrame DEF IInv
<1>. QED
  BY <1>7, <1>8, <1>9 DEF IInv

(* A call fails, and the loop goes on.                                      *)
LEMMA CallFailsHolds ==
    ASSUME IInv, CallFails PROVE IInv'
<1>1. /\ UNCHANGED <<root, xml, text, hostList, body, count, began, shown, seen, list, version, now,
                     scrapes, used, shrunk>>
      /\ Fail("request") /\ waiting' = FALSE /\ asked' = 0
      /\ cache' = [cache EXCEPT ![Key] = NoEntry]
      /\ IF pc = "count" THEN pc' = "next" /\ d' = d + 1 /\ UNCHANGED i
         ELSE i' = i + 1 /\ UNCHANGED <<pc, d>>
  BY DEF CallFails, NextDefinition, NextIndex, config, settings, router
<1>2. Calling
  BY DEF CallFails, Calling, IInv, PlaceInv, ShownInv, InPlace
<1>3. /\ d \in Definitions /\ This.service \in Services /\ pc \in {"count", "rows"}
      /\ pc = "rows" => i + 1 \in 0 .. count /\ This.kind # "count"
  BY <1>2, CallIs DEF IInv
<1>4. Tells /\ reason'[d] # "ok"
  <2>1. "request" \in Reasons \ {"ok"} /\ TypeTold /\ KeysAreUnique
    BY DEF Reasons, IInv, PlaceInv, ShownInv
  <2>. QED
    BY <1>1, <1>3, <2>1, FailTells
<1>5. /\ asked' \in 0 .. now /\ seen' \subseteq Rows
      /\ used' \subseteq Versions /\ shrunk' \in [Services -> BOOLEAN]
  BY <1>1, BoundsAssumption DEF IInv, PlaceInv, TypePlace, TypeTold
<1>6. PlaceInv' /\ pc' # "body"
  <2>1. CASE pc = "count"
    <3>1. i' \in 0 .. count
      BY <1>1, <2>1 DEF IInv, PlaceInv, TypePlace
    <3>. QED
      BY <1>1, <1>3, <1>4, <1>5, <2>1, <3>1, EndHolds DEF IInv
  <2>2. CASE pc = "rows"
    <3>1. ShownInv'
      BY <1>1, <1>3, <1>4, <2>2, GoesOn DEF IInv, PlaceInv
    <3>2. TypePlace' /\ TypeTold'
      BY <1>1, <1>3, <1>4, <1>5, <2>2 DEF IInv, PlaceInv, TypePlace, TypeTold, Tells
    <3>3. This' = This
      BY <1>1, <2>2 DEF This
    <3>4. CountIsCovered' /\ ReadSoFar'
      BY <1>1, <1>4, <2>2, <3>3 DEF IInv, PlaceInv, CountIsCovered, ReadSoFar
    <3>. QED
      BY <1>1, <2>2, <3>1, <3>2, <3>4 DEF PlaceInv
  <2>. QED
    BY <1>3, <2>1, <2>2
<1>7. CacheInv'
  BY <1>1, <1>2, NoEntryIsGood, CachePutHolds
<1>8. XmlInv'
  BY <1>1, <1>6, XmlFrame DEF IInv
<1>. QED
  BY <1>6, <1>7, <1>8 DEF IInv

(* An index is refused, and what was cached of the list is thrown away.     *)
LEMMA InvalidIndexHolds ==
    ASSUME IInv, InvalidIndex PROVE IInv'
<1>1. /\ UNCHANGED <<root, xml, text, hostList, body, i, count, began, shown, seen, list,
                     version, now,
                     scrapes, used>>
      /\ waiting /\ Fail("request") /\ waiting' = FALSE /\ asked' = 0
      /\ Invalidate /\ pc' = "next" /\ d' = d + 1
      /\ shrunk' = [shrunk EXCEPT ![This.service] = FALSE]
  BY DEF InvalidIndex, NextDefinition, config, settings, router
<1>2. Calling
  BY <1>1 DEF IInv, PlaceInv, ShownInv, InPlace
<1>3. d \in Definitions /\ This.service \in Services /\ pc \in {"count", "rows"}
  BY <1>2, CallIs DEF IInv
<1>4. Tells
  <2>1. "request" \in Reasons \ {"ok"} /\ TypeTold /\ KeysAreUnique
    BY DEF Reasons, IInv, PlaceInv, ShownInv
  <2>. QED
    BY <1>1, <1>3, <2>1, FailTells
<1>5. /\ asked' \in 0 .. now /\ seen' \subseteq Rows /\ i' \in 0 .. count
      /\ used' \subseteq Versions /\ shrunk' \in [Services -> BOOLEAN]
  <2>1. shrunk' \in [Services -> BOOLEAN]
    BY <1>1 DEF IInv, PlaceInv, TypeTold
  <2>2. asked' \in 0 .. now
    BY <1>1, BoundsAssumption DEF IInv, PlaceInv, TypePlace
  <2>. QED
    BY <1>1, <2>1, <2>2 DEF IInv, PlaceInv, TypePlace, TypeTold
<1>6. PlaceInv'
  BY <1>1, <1>3, <1>4, <1>5, EndHolds DEF IInv
<1>7. CacheInv'
  <2> DEFINE t == This.service
  <2>1. TypeCache /\ CachedCountsAreCovered /\ CacheIsDated /\ EntriesAreTrue /\ TypeLists
    BY DEF IInv, CacheInv, XmlInv
  <2>2. /\ cache' = [k \in Keys |-> cache'[k]]
        /\ \A k \in Keys : cache'[k] = NoEntry \/ cache'[k] = cache[k]
        /\ \A s \in Services : cache'[<<s>>] = IF s = t THEN NoEntry ELSE cache[<<s>>]
        /\ \A s \in Services, n \in 0 .. MaxRows - 1 :
              cache'[<<s, n>>] = IF s = t THEN NoEntry ELSE cache[<<s, n>>]
    BY <1>1, CacheInvalidated
  <2>3. \A s \in Services : s # t => shrunk'[s] = shrunk[s]
    BY <1>1 DEF IInv, PlaceInv, TypeTold
  <2>4. \A s \in Services : version[s] \in Nat
    BY <2>1, ListsAre, BoundsAssumption
  <2>. HIDE DEF t
  <2>5. TypeCache'
    BY <2>1, <2>2, NothingIs DEF TypeCache
  <2>6. CacheIsDated'
    BY <2>1, <2>2, NothingIs DEF CacheIsDated
  <2>7. CachedCountsAreCovered'
    BY <1>1, <2>1, <2>2, <2>3, NothingIs DEF CachedCountsAreCovered
  <2>8. EntriesAreTrue'
    <3> SUFFICES ASSUME NEW s \in Services
                 PROVE  /\ cache'[<<s>>].version <= version[s]
                        /\ cache'[<<s>>].version = version[s] =>
                              cache'[<<s>>].value \in {Len(list[s]), Missing}
                        /\ \A n \in 0 .. MaxRows - 1 :
                              /\ cache'[<<s, n>>].version <= version[s]
                              /\ cache'[<<s, n>>].version = version[s] =>
                                    n < Len(list[s]) /\ cache'[<<s, n>>].value = list[s][n + 1]
      BY <1>1 DEF EntriesAreTrue
    <3>. QED
      BY <2>1, <2>2, <2>4, NothingIs DEF EntriesAreTrue
  <2>. QED
    BY <2>5, <2>6, <2>7, <2>8 DEF CacheInv
<1>8. XmlInv'
  BY <1>1, XmlFrame DEF IInv
<1>. QED
  BY <1>6, <1>7, <1>8 DEF IInv

-----------------------------------------------------------------------------
(* The XML host list                                                        *)

(* No list is true of any.                                                  *)
LEMMA NoListIsTrue ==
    ASSUME TypeLists PROVE XmlListIsTrue(NoList) /\ NoList \in XmlLists
<1>1. \A e \in Definitions : version[Def[e].service] \in Nat
  BY ListsAre, DefinitionsAre, BoundsAssumption
<1>. QED
  BY <1>1, NothingIs DEF XmlListIsTrue

(* What the steps of the list leave alone.                                  *)
LEMMA UnaffectedIs ==
    ASSUME Unaffected
    PROVE  UNCHANGED <<root, xml, text, cache, i, count, waiting, asked, began, seen, list,
                       version, now,
                       scrapes, shrunk>>
  BY DEF Unaffected, settings, router

(* A list that is shown ends its definition.                                *)
LEMMA ListEnds ==
    ASSUME IInv, d \in Definitions, UsesXml, pc \in {"next", "path", "download", "body"},
           Tells, pc' = "next", d' = d + 1, used' \subseteq Versions, Unaffected
    PROVE  PlaceInv' /\ CacheInv'
<1>1. UNCHANGED <<root, xml, text, cache, i, count, waiting, asked, began, seen, list, version, now,
                  scrapes, shrunk>>
  BY UnaffectedIs
<1>2. waiting' = FALSE
  <2>1. ~waiting
    BY DEF IInv, PlaceInv, ShownInv, InPlace, Calling
  <2>. QED
    BY <1>1, <2>1 DEF IInv, PlaceInv, TypePlace
<1>3. /\ i' \in 0 .. count /\ asked' \in 0 .. now /\ seen' \subseteq Rows
      /\ shrunk' \in [Services -> BOOLEAN]
  BY <1>1 DEF IInv, PlaceInv, TypePlace, TypeTold
<1>4. PlaceInv'
  BY <1>1, <1>2, <1>3, EndHolds DEF IInv
<1>. QED
  BY <1>1, <1>4, CacheFrame DEF IInv

(* The cached list is shown.                                                *)
LEMMA ListFromCacheHolds ==
    ASSUME IInv, ListFromCache PROVE IInv'
<1>1. /\ pc = "next" /\ d \in Definitions /\ UsesXml /\ ShowList(hostList)
      /\ UNCHANGED <<hostList, body>> /\ Unaffected
  BY DEF ListFromCache
<1>2. TypeTold /\ ShownInv /\ hostList \in XmlLists
  BY DEF IInv, PlaceInv, XmlInv, TypeLists
<1>3. /\ Tells /\ pc' = "next" /\ d' = d + 1
      /\ used' = used \/ used' = {hostList.version}
  BY <1>1, <1>2, UnaffectedIs, ListEffect
<1>4. used' \subseteq Versions
  BY <1>2, <1>3 DEF TypeTold, XmlLists
<1>5. PlaceInv' /\ CacheInv'
  BY <1>1, <1>3, <1>4, ListEnds
<1>6. XmlInv'
  BY <1>1, <1>3, UnaffectedIs, XmlFrame DEF IInv
<1>. QED
  BY <1>5, <1>6 DEF IInv

(* The path is asked for, and told.                                         *)
LEMMA PathHolds ==
    ASSUME IInv, AskPath \/ PathAnswered PROVE IInv'
<1>1. /\ pc \in {"next", "path"} /\ pc' \in {"path", "download"}
      /\ UNCHANGED <<d, reason, shown, used>>
      /\ UNCHANGED <<hostList, body>> /\ Unaffected
  BY DEF AskPath, PathAnswered, Proceed
<1>2. d \in Definitions /\ UsesXml
  BY DEF AskPath, PathAnswered, Proceed, IInv, PlaceInv, ShownInv, InPlace
<1>3. PlaceInv'
  BY <1>1, <1>2, ProceedHolds DEF IInv
<1>. QED
  BY <1>1, <1>3, UnaffectedIs, CacheFrame, XmlFrame DEF IInv

(* The router sends its list as it is.                                      *)
LEMMA DownloadHolds ==
    ASSUME IInv, Download PROVE IInv'
<1> DEFINE s == This.service
<1>1. /\ pc = "download" /\ pc' = "body" /\ UNCHANGED <<d, reason, shown, used>>
      /\ body' = [rows |-> list[s], at |-> -1, fetched |-> now, version |-> version[s]]
      /\ UNCHANGED hostList /\ Unaffected
  BY DEF Download, Proceed
<1>2. d \in Definitions /\ UsesXml /\ s \in Services
  BY <1>1, DefinitionsAre DEF IInv, PlaceInv, ShownInv, InPlace, This
<1>3. PlaceInv'
  BY <1>1, <1>2, ProceedHolds DEF IInv
<1>4. CacheInv'
  BY <1>1, UnaffectedIs, CacheFrame DEF IInv
<1>5. /\ TypeLists /\ list[s] \in Lists /\ version[s] \in Versions /\ version[s] \in Nat
  BY <1>2, ListsAre, BoundsAssumption DEF IInv, XmlInv
<1>6. now \in Times /\ -1 \in Times /\ began <= now
  BY BoundsAssumption DEF IInv, PlaceInv, TypePlace, Times
<1>7. /\ body' \in XmlLists /\ body'.fetched = now /\ body'.version = version[s]
      /\ body'.rows = list[s]
  BY <1>1, <1>5, <1>6 DEF XmlLists
<1>8. UNCHANGED <<list, version, began>>
  BY <1>1, UnaffectedIs
<1>9. TypeLists' /\ XmlListIsDated'
  BY <1>1, <1>5, <1>6, <1>7, <1>8 DEF IInv, XmlInv, TypeLists, XmlListIsDated
<1>10. XmlListIsTrue(hostList)'
  BY <1>1, <1>8 DEF IInv, XmlInv, XmlListIsTrue
<1>11. XmlListIsTrue(body)'
  <2>1. \A e \in Definitions : Def[e].kind = "hosts" => Def[e].service = s
    BY <1>2, HostsAssumption DEF UsesXml, This
  <2>. HIDE DEF s
  <2>. QED
    BY <1>5, <1>7, <1>8, <2>1 DEF XmlListIsTrue
<1>. QED
  BY <1>3, <1>4, <1>9, <1>10, <1>11 DEF IInv, XmlInv

(* The list has arrived and is shown.                                       *)
LEMMA DownloadedHolds ==
    ASSUME IInv, Downloaded PROVE IInv'
<1> DEFINE l == [body EXCEPT !.at = now]
<1>1. /\ pc = "body" /\ ~BudgetOver /\ hostList' = l /\ body' = NoList /\ ShowList(l)
      /\ Unaffected
  BY DEF Downloaded
<1>2. d \in Definitions /\ UsesXml /\ TypeTold /\ ShownInv /\ TypeLists
  BY <1>1 DEF IInv, PlaceInv, ShownInv, InPlace, XmlInv
<1>3. now \in Times /\ now \in Nat /\ began \in Nat
  BY BoundsAssumption DEF IInv, PlaceInv, TypePlace, Times
<1>4. /\ l \in XmlLists /\ l.at = now /\ l.fetched = body.fetched /\ l.version = body.version
      /\ l.rows = body.rows /\ body.fetched \in Int
  BY <1>2, <1>3 DEF TypeLists, XmlLists, Times
<1>. HIDE DEF l
<1>5. /\ Tells /\ pc' = "next" /\ d' = d + 1
      /\ used' = used \/ used' = {l.version}
  BY <1>1, <1>2, <1>4, UnaffectedIs, ListEffect
<1>6. used' \subseteq Versions
  BY <1>2, <1>4, <1>5 DEF TypeTold, XmlLists
<1>7. PlaceInv' /\ CacheInv'
  BY <1>1, <1>2, <1>5, <1>6, ListEnds
<1>8. UNCHANGED <<list, version>>
  BY <1>1, UnaffectedIs
<1>9. NoList \in XmlLists /\ XmlListIsTrue(NoList)
  BY <1>2, NoListIsTrue
<1>10. TypeLists'
  BY <1>1, <1>2, <1>4, <1>8, <1>9 DEF TypeLists
<1>11. XmlListIsDated'
  <2>1. body.fetched >= began /\ now - began < Budget
    BY <1>1, <1>3, BoundsAssumption DEF IInv, XmlInv, XmlListIsDated, BudgetOver
  <2>2. now - body.fetched < Budget
    BY <1>3, <1>4, <2>1, BoundsAssumption
  <2>. QED
    BY <1>1, <1>4, <1>5, <2>2 DEF XmlListIsDated
<1>12. XmlListIsTrue(hostList)' /\ XmlListIsTrue(body)'
  BY <1>1, <1>4, <1>8, <1>9 DEF IInv, XmlInv, XmlListIsTrue
<1>. QED
  BY <1>7, <1>10, <1>11, <1>12 DEF IInv, XmlInv

(* The list does not arrive.                                                *)
LEMMA ListFailsHolds ==
    ASSUME IInv, ListFails PROVE IInv'
<1>1. /\ pc \in {"path", "download", "body"} /\ Fail("request") /\ pc' = "next" /\ d' = d + 1
      /\ body' = NoList /\ UNCHANGED <<hostList, shown, used>> /\ Unaffected
  BY DEF ListFails, NextDefinition
<1>2. d \in Definitions /\ UsesXml /\ TypeTold /\ KeysAreUnique /\ TypeLists
  BY <1>1 DEF IInv, PlaceInv, ShownInv, InPlace, XmlInv
<1>3. Tells
  <2>1. "request" \in Reasons \ {"ok"}
    BY DEF Reasons
  <2>. QED
    BY <1>1, <1>2, <2>1, UnaffectedIs, FailTells
<1>4. PlaceInv' /\ CacheInv'
  <2>1. used' \subseteq Versions
    BY <1>1, <1>2 DEF TypeTold
  <2>. QED
    BY <1>1, <1>2, <1>3, <2>1, ListEnds
<1>5. UNCHANGED <<list, version>>
  BY <1>1, UnaffectedIs
<1>6. NoList \in XmlLists /\ XmlListIsTrue(NoList)
  BY <1>2, NoListIsTrue
<1>7. XmlInv'
  BY <1>1, <1>2, <1>5, <1>6 DEF IInv, XmlInv, TypeLists, XmlListIsDated, XmlListIsTrue
<1>. QED
  BY <1>4, <1>7 DEF IInv

-----------------------------------------------------------------------------
(* The router                                                               *)

(* A row joins a list, at its end.                                          *)
LEMMA JoinHolds ==
    ASSUME IInv, NEW s \in Services, NEW row \in Rows, Join(s, row) PROVE IInv'
<1>1. /\ Len(list[s]) < MaxRows /\ ListBecomes(s, Append(list[s], row)) /\ UNCHANGED shrunk
  BY DEF Join
<1>2. list[s] \in Seq(Rows) /\ MaxRows \in Nat
  BY BoundsAssumption DEF IInv, XmlInv, TypeLists, Lists
<1>3. /\ Append(list[s], row) \in Lists /\ Len(list[s]) <= Len(Append(list[s], row))
  BY <1>1, <1>2 DEF Lists
<1>4. shrunk' \in [Services -> BOOLEAN] /\ \A t \in Services : shrunk[t] => shrunk'[t]
  BY <1>1 DEF IInv, PlaceInv, TypeTold
<1>. QED
  BY <1>1, <1>3, <1>4, ListChanges

(* A row leaves a list, and those behind it move up.                        *)
LEMMA LeaveHolds ==
    ASSUME IInv, NEW s \in Services, NEW n \in DOMAIN list[s], Leave(s, n) PROVE IInv'
<1>1. /\ ListBecomes(s, RemoveAt(list[s], n)) /\ shrunk' = [shrunk EXCEPT ![s] = TRUE]
  BY DEF Leave
<1>2. /\ list[s] \in Seq(Rows) /\ Len(list[s]) <= MaxRows /\ MaxRows \in Nat
      /\ n \in 1 .. Len(list[s]) /\ Len(list[s]) \in Nat
  BY BoundsAssumption DEF IInv, XmlInv, TypeLists, Lists
<1>3. RemoveAt(list[s], n) \in Lists
  <2>1. /\ SubSeq(list[s], 1, n - 1) \in Seq(Rows)
        /\ SubSeq(list[s], n + 1, Len(list[s])) \in Seq(Rows)
        /\ Len(SubSeq(list[s], 1, n - 1)) = n - 1
        /\ Len(SubSeq(list[s], n + 1, Len(list[s]))) = Len(list[s]) - n
    BY <1>2
  <2>. QED
    BY <1>2, <2>1 DEF RemoveAt, Lists
<1>4. /\ shrunk' \in [Services -> BOOLEAN] /\ \A t \in Services : shrunk[t] => shrunk'[t]
      /\ shrunk'[s]
  BY <1>1 DEF IInv, PlaceInv, TypeTold
<1>. QED
  BY <1>1, <1>3, <1>4, ListChanges

-----------------------------------------------------------------------------
(* The theorems                                                             *)

(* Every step keeps the invariant.                                          *)
LEMMA NextHolds == IInv /\ [Next]_vars => IInv'
<1> SUFFICES ASSUME IInv, [Next]_vars PROVE IInv'
  OBVIOUS
<1>1. CASE Discovered \/ Tick \/ Rest \/ UNCHANGED vars
  BY <1>1, OutsideHolds DEF Rest
<1>2. CASE StartScrape
  BY <1>2, StartScrapeHolds
<1>3. CASE OutOfTime \/ RowsDone \/ RowsTimeout
  BY <1>3, LoopEndHolds
<1>4. CASE StartDefinition
  BY <1>4, StartDefinitionHolds
<1>5. CASE FinishScrape
  BY <1>5, FinishScrapeHolds
<1>6. CASE GetActionResult
  BY <1>6, FromCacheHolds, AskHolds, AnswerHolds, CallFailsHolds, InvalidIndexHolds
     DEF GetActionResult
<1>7. CASE ReadHostList
  BY <1>7, ListFromCacheHolds, PathHolds, DownloadHolds, DownloadedHolds, ListFailsHolds
     DEF ReadHostList
<1>8. CASE \E s \in Services : \/ \E row \in Rows : Join(s, row)
                               \/ \E n \in DOMAIN list[s] : Leave(s, n)
  BY <1>8, JoinHolds, LeaveHolds
<1>. QED
  BY <1>1, <1>2, <1>3, <1>4, <1>5, <1>6, <1>7, <1>8 DEF Next, Collect

(* The invariant holds, however the lists change and whatever fails         *)
(* (main.go:367-565, host_diagnostics.go, host_list.go).                    *)
THEOREM InvariantHolds == Spec => []IInv
<1>1. Init => IInv
  BY InitHolds
<1>2. IInv /\ [Next]_vars => IInv'
  BY NextHolds
<1>. QED
  BY <1>1, <1>2, PTL DEF Spec

(* The variables of a collection, its caches and the lists are of their     *)
(* types (main.go:387-432, host_list.go:20-30).                             *)
THEOREM TypeCorrect == Spec => []TypeOK
<1>1. IInv => TypeOK
  BY TypeParts DEF IInv, PlaceInv, CacheInv, XmlInv
<1>. QED
  BY <1>1, InvariantHolds, PTL

(* One fixed label, or none, can be written in one order only, so that      *)
(* equal ones give equal texts (main.go:1002-1006).                         *)
LEMMA OneTextOfOneLabel ==
    ASSUME NEW e \in Definitions, NEW f \in Definitions, Def[e].fixed = Def[f].fixed,
           Len(Def[e].fixed) <= 1,
           text[e] \in Arrangements(Def[e].fixed), text[f] \in Arrangements(Def[f].fixed)
    PROVE  text[e] = text[f]
<1> DEFINE s == Def[e].fixed
<1>1. s \in Seq(Range(s))
  BY DefAssumption
<1>2. Len(s) \in Nat /\ DOMAIN s = 1 .. Len(s) /\ Len(s) <= 1
  BY <1>1
<1>3. \A m, n \in DOMAIN s : m = n
  BY <1>2
<1>4. PICK p \in Bijection(DOMAIN s, DOMAIN s) : text[e] = [n \in DOMAIN s |-> s[p[n]]]
  BY DEF Arrangements
<1>5. PICK q \in Bijection(DOMAIN s, DOMAIN s) : text[f] = [n \in DOMAIN s |-> s[q[n]]]
  BY DEF Arrangements
<1>6. \A n \in DOMAIN s : p[n] \in DOMAIN s /\ q[n] \in DOMAIN s
  BY DEF Bijection, Injection
<1>7. \A n \in DOMAIN s : p[n] = q[n]
  BY <1>3, <1>6
<1>. HIDE DEF s
<1>. QED
  BY <1>4, <1>5, <1>7

(* No series twice in a collection, of one definition or of several with at *)
(* most one fixed label: keys are unique, and equal labels give equal keys  *)
(* then (main.go:367-375, 1002-1006, host_list.go:145-151).                 *)
THEOREM SeriesStayUnique == Spec => []SeriesAreUnique
<1>1. ASSUME IInv, NEW e \in Definitions, NEW f \in Definitions, SameSeries(e, f),
             e = f \/ Len(Def[e].fixed) <= 1
      PROVE  Apart(e, f)
  <2>1. \A o \in Definitions : text[o] \in Arrangements(Def[o].fixed)
    BY <1>1 DEF IInv, PlaceInv, TypePlace
  <2>2. text[e] = text[f]
    BY <1>1, <2>1, OneTextOfOneLabel DEF SameSeries
  <2>3. KeysAreUnique
    BY <1>1 DEF IInv, PlaceInv, ShownInv
  <2>. QED
    BY <1>1, <2>2, <2>3 DEF KeysAreUnique, SameSeries, SameKey
<1>2. IInv => SeriesAreUnique
  BY <1>1 DEF SeriesAreUnique
<1>. QED
  BY <1>2, InvariantHolds, PTL

(* An index is refused only after its list has become shorter, once for     *)
(* each time (main.go:546-554, host_diagnostics.go:182-191).                *)
THEOREM RefusalsStayJustified == Spec => RefusedOnlyAfterShrink
<1>1. ASSUME IInv, InvalidIndex PROVE shrunk[This.service]
  <2>1. waiting /\ ~Answerable
    BY <1>1 DEF InvalidIndex
  <2>2. Calling
    BY <1>1, <2>1 DEF IInv, PlaceInv, ShownInv, InPlace
  <2>3. pc = "rows" /\ i < count /\ ~(i < Len(list[This.service]))
    BY <2>1, <2>2 DEF Calling, Answerable, Entries
  <2>4. shrunk[This.service] \/ count <= Len(list[This.service])
    BY <1>1, <2>3 DEF IInv, PlaceInv, CountIsCovered
  <2>5. /\ This.service \in Services /\ i \in Nat /\ count \in 0 .. MaxRows /\ TypeLists
    BY <1>1, <2>2, CallIs DEF IInv, XmlInv
  <2>6. Len(list[This.service]) \in Nat
    BY <2>5, ListsAre
  <2>. QED
    BY <2>3, <2>4, <2>5, <2>6
<1>2. IInv => (InvalidIndex => shrunk[This.service])
  BY <1>1
<1>. QED
  BY <1>2, InvariantHolds, PTL DEF RefusedOnlyAfterShrink

(* What is shown comes from a result or from the XML list.                  *)
LEMMA ShownBy ==
    ASSUME Next, shown' # shown
    PROVE  FromCache \/ Answer \/ ListFromCache \/ Downloaded \/ FinishScrape
<1>1. \A s \in Services : /\ \A row \in Rows : Join(s, row) => shown' = shown
                          /\ \A n \in DOMAIN list[s] : Leave(s, n) => shown' = shown
  BY DEF Join, Leave, ListBecomes, collection
<1>2. Discovered \/ StartScrape \/ Tick \/ Rest => shown' = shown
  BY DEF Discovered, StartScrape, Tick, Rest, vars, collection
<1>3. OutOfTime \/ StartDefinition \/ RowsDone \/ RowsTimeout => shown' = shown
  BY DEF OutOfTime, StartDefinition, RowsDone, RowsTimeout
<1>4. Ask \/ CallFails \/ InvalidIndex => shown' = shown
  BY DEF Ask, CallFails, InvalidIndex
<1>5. AskPath \/ PathAnswered \/ Download \/ ListFails => shown' = shown
  BY DEF AskPath, PathAnswered, Download, Proceed, ListFails
<1>. QED
  BY <1>1, <1>2, <1>3, <1>4, <1>5 DEF Next, Collect, GetActionResult, ReadHostList

(* What is shown is no older than its definition allows, or, of the XML     *)
(* list, by less than the budget (main.go:397-432, host_list.go:76-83).     *)
THEOREM DataStaysFresh == Spec => DataIsFresh
<1> DEFINE Fresh ==
      \A e \in Definitions :
          d = e /\ shown'[e] # shown[e] =>
              IF pc \in {"count", "rows"}
              THEN now - cache'[Key].fetched <= Def[e].ttl
              ELSE now - hostList'.fetched < Def[e].ttl + Budget
<1>1. ASSUME IInv, Next PROVE Fresh
  <2> SUFFICES ASSUME d \in Definitions, shown'[d] # shown[d]
               PROVE  IF pc \in {"count", "rows"}
                      THEN now - cache'[Key].fetched <= Def[d].ttl
                      ELSE now - hostList'.fetched < Def[d].ttl + Budget
    OBVIOUS
  <2>0. /\ now \in Nat /\ began \in Nat /\ Def[d].ttl \in Nat /\ Budget \in Nat /\ Budget > 0
    BY <1>1, DefinitionsAre, BoundsAssumption DEF IInv, PlaceInv, TypePlace
  <2>1. FromCache \/ Answer \/ ListFromCache \/ Downloaded \/ FinishScrape
    BY <1>1, ShownBy
  <2>2. CASE FromCache
    <3>1. /\ Calling /\ now - cache[Key].stamp <= Def[d].ttl /\ cache' = cache
      BY <2>2 DEF FromCache, MayCall, Usable, This
    <3>2. cache[Key].stamp <= cache[Key].fetched /\ GoodEntry(cache[Key])
      BY <1>1, <3>1, CachedIsGood DEF GoodEntry
    <3>3. cache[Key].stamp \in Int /\ cache[Key].fetched \in Int
      <4>1. cache[Key] \in CountEntries \cup RowEntries
        BY <3>1, <3>2 DEF GoodEntry, Calling
      <4>. QED
        BY <4>1, NothingIs DEF CountEntries, RowEntries, Times
    <3>. QED
      BY <2>0, <3>1, <3>2, <3>3 DEF Calling
  <2>3. CASE Answer
    <3>1. Calling /\ Key \in Keys
      <4>1. Calling
        BY <1>1, <2>3 DEF Answer, IInv, PlaceInv, ShownInv, InPlace
      <4>. QED
        BY <1>1, <4>1, CachedIsGood
    <3>2. cache'[Key].fetched = now
      <4>1. cache = [k \in Keys |-> cache[k]]
        BY <1>1 DEF IInv, CacheInv, TypeCache
      <4>2. PICK value \in Answers :
               cache' = [cache EXCEPT ![Key] = [value |-> value, stamp |-> asked, fetched |-> now,
                                                version |-> version[This.service]]]
        BY <2>3 DEF Answer
      <4>. QED
        BY <3>1, <4>1, <4>2
    <3>. QED
      BY <2>0, <3>1, <3>2 DEF Calling
  <2>4. CASE ListFromCache
    <3>1. /\ pc = "next" /\ now - hostList.at <= Def[d].ttl /\ hostList' = hostList
      BY <2>4 DEF ListFromCache, ListUsable, This
    <3>2. hostList.at - hostList.fetched < Budget /\ hostList.at \in Int /\ hostList.fetched \in Int
      BY <1>1 DEF IInv, XmlInv, XmlListIsDated, TypeLists, XmlLists, Times
    <3>. QED
      BY <2>0, <3>1, <3>2
  <2>5. CASE Downloaded
    <3>1. /\ pc = "body" /\ hostList' = [body EXCEPT !.at = now] /\ now - began < Budget
      BY <2>0, <2>5 DEF Downloaded, BudgetOver
    <3>2. body \in XmlLists /\ body.fetched >= began /\ body.fetched \in Int
      BY <1>1, <3>1 DEF IInv, XmlInv, XmlListIsDated, TypeLists, XmlLists, Times
    <3>3. hostList'.fetched = body.fetched
      BY <3>1, <3>2 DEF XmlLists
    <3>. QED
      BY <2>0, <3>1, <3>2, <3>3
  <2>6. CASE FinishScrape
    BY <2>6 DEF FinishScrape
  <2>. QED
    BY <2>1, <2>2, <2>3, <2>4, <2>5, <2>6
<1>2. IInv /\ [Next]_vars => [Fresh]_vars
  BY <1>1
<1>. QED
  BY <1>2, InvariantHolds, PTL DEF Spec, DataIsFresh

(* What brings a definition to its end.                                     *)
LEMMA EndsBy ==
    ASSUME IInv, Next, d \in Definitions, d' = d + 1
    PROVE  \/ OutOfTime \/ RowsDone \/ RowsTimeout
           \/ FromCache \/ Answer \/ CallFails \/ InvalidIndex
           \/ ListFromCache \/ Downloaded \/ ListFails
<1>1. d \in Nat /\ d >= 1 /\ d' # d /\ d' # 0
  BY DefinitionsAre
<1>2. pc # "idle"
  BY <1>1 DEF IInv, PlaceInv, ShownInv, InPlace
<1>3. \A s \in Services : /\ \A row \in Rows : ~Join(s, row)
                          /\ \A n \in DOMAIN list[s] : ~Leave(s, n)
  BY <1>1 DEF Join, Leave, ListBecomes, collection
<1>4. ~Discovered /\ ~StartScrape /\ ~Tick /\ ~Rest
  BY <1>1, <1>2 DEF Discovered, StartScrape, Tick, Rest, vars, collection
<1>5. ~StartDefinition /\ ~FinishScrape /\ ~Ask
  BY <1>1 DEF StartDefinition, FinishScrape, Ask
<1>6. ~AskPath /\ ~PathAnswered /\ ~Download
  BY <1>1 DEF AskPath, PathAnswered, Download, Proceed
<1>. QED
  BY <1>3, <1>4, <1>5, <1>6 DEF Next, Collect, GetActionResult, ReadHostList

(* A call belongs to a definition that is read by index.                    *)
LEMMA CallIsByIndex ==
    ASSUME IInv, RowsDone \/ RowsTimeout \/ FromCache \/ Answer \/ CallFails \/ InvalidIndex
    PROVE  ~UsesXml /\ d \in Definitions /\ pc \in {"count", "rows"}
<1>1. pc \in {"count", "rows"}
  BY DEF RowsDone, RowsTimeout, FromCache, MayCall, Calling, Answer, CallFails, InvalidIndex,
         IInv, PlaceInv, ShownInv, InPlace
<1>. QED
  BY <1>1 DEF IInv, PlaceInv, ShownInv, InPlace

(* A cause that is noted is no success.                                     *)
LEMMA FailureIsNoted ==
    ASSUME IInv, d \in Definitions, NEW cause \in {"timeout", "request"}, Fail(cause)
    PROVE  reason'[d] # "ok" /\ (reason[d] = "ok" => reason'[d] = cause)
<1>1. cause \in Reasons \ {"ok"} /\ TypeTold
  BY DEF Reasons, IInv, PlaceInv
<1>. QED
  BY <1>1, FailEffect

(* A result that ends an enumeration is the failure of its provider.        *)
LEMMA DeliveredEnd ==
    ASSUME IInv, FromCache \/ Answer, d' = d + 1, This.kind # "count"
    PROVE  reason'[d] # "ok"
<1>1. /\ TypeOK /\ ShownInv /\ d \in Nat
      /\ Calling
  BY TypeParts, DefinitionsAre DEF IInv, PlaceInv, CacheInv, XmlInv, FromCache, MayCall,
                                   Answer, ShownInv,
                   InPlace, TypePlace
<1>2. PICK entry : GoodEntry(entry) /\ entry # NoEntry /\ Deliver(entry)
  <2>1. CASE FromCache
    <3>1. cache[Key] # NoEntry /\ Deliver(cache[Key])
      BY <2>1 DEF FromCache, Usable
    <3>. QED
      BY <1>1, <3>1, CachedIsGood
  <2>2. CASE Answer
    <3>1. PICK value \in Answers :
             Deliver([value |-> value, stamp |-> asked, fetched |-> now,
                      version |-> version[This.service]])
      BY <2>2 DEF Answer
    <3>2. Answerable
      BY <2>2 DEF Answer
    <3>. QED
      BY <1>1, <3>1, <3>2, AnswerIsGood
  <2>. QED
    BY <2>1, <2>2
<1>3. /\ entry.version \in Versions
      /\ pc = "count" => entry.value \in 0 .. MaxRows \cup {Missing}
      /\ pc = "rows" => entry.value \in Rows
  <2>1. pc = "count" => entry.value \in 0 .. MaxRows \cup {Missing}
    BY <1>2 DEF GoodEntry, CountEntries
  <2>2. pc = "rows" => entry.value \in Rows
    BY <1>2 DEF GoodEntry, RowEntries
  <2>. QED
    BY <1>2, <2>1, <2>2 DEF GoodEntry
<1>4. d' # d
  BY <1>1
<1>5. UNCHANGED text
  BY DEF FromCache, Answer, config, settings
<1>. QED
  BY <1>1, <1>2, <1>3, <1>4, <1>5, DeliverEffect

(* The XML list that ends a definition.                                     *)
LEMMA ListEnd ==
    ASSUME IInv, ListFromCache \/ Downloaded
    PROVE  /\ d \in Definitions /\ UsesXml /\ ShownInv /\ pc # "idle" /\ pc # "rows"
           /\ UNCHANGED text
           /\ \E l \in XmlLists : ShowList(l) /\ hostList' = l /\ XmlListIsTrue(l)
<1>1. CASE ListFromCache
  BY <1>1, UnaffectedIs DEF ListFromCache, IInv, PlaceInv, XmlInv, TypeLists
<1>2. CASE Downloaded
  <2> DEFINE l == [body EXCEPT !.at = now]
  <2>1. pc = "body" /\ ShowList(l) /\ hostList' = l /\ UNCHANGED text
    BY <1>2, UnaffectedIs DEF Downloaded
  <2>2. body \in XmlLists /\ now \in Times /\ XmlListIsTrue(body)
    BY BoundsAssumption DEF IInv, PlaceInv, TypePlace, XmlInv, TypeLists, Times
  <2>3. l \in XmlLists /\ l.version = body.version /\ l.rows = body.rows
    BY <2>2 DEF XmlLists
  <2>. HIDE DEF l
  <2>4. XmlListIsTrue(l)
    BY <2>2, <2>3 DEF XmlListIsTrue
  <2>. QED
    BY <2>1, <2>3, <2>4 DEF IInv, PlaceInv, ShownInv, InPlace
<1>. QED
  BY <1>1, <1>2

(* An enumeration that succeeds and met one state of the list only, which   *)
(* is the present one, has shown it (main.go:523-565, host_list.go:117-151).*)
THEOREM StableListStaysShown == Spec => StableListIsShown
<1> DEFINE Stable ==
      \A e \in Definitions :
          Ends(e) /\ reason'[e] = "ok" /\ used' = {version[Def[e].service]} =>
              Range(shown'[e]) = Range(list[Def[e].service])
<1>1. ASSUME IInv, Next PROVE Stable
  <2> SUFFICES ASSUME d \in Definitions, d' = d + 1, This.kind # "count", reason'[d] = "ok",
                      used' = {version[This.service]}
               PROVE  Range(shown'[d]) = Range(list[This.service])
    BY DEF Ends, This
  <2>1. \/ OutOfTime \/ RowsDone \/ RowsTimeout
        \/ FromCache \/ Answer \/ CallFails \/ InvalidIndex
        \/ ListFromCache \/ Downloaded \/ ListFails
    BY <1>1, EndsBy
  <2>2. CASE OutOfTime \/ RowsTimeout \/ CallFails \/ InvalidIndex \/ ListFails
    <3>1. Fail("timeout") \/ Fail("request")
      BY <2>2 DEF OutOfTime, RowsTimeout, CallFails, InvalidIndex, ListFails
    <3>. QED
      BY <1>1, <3>1, FailureIsNoted
  <2>3. CASE FromCache \/ Answer
    BY <1>1, <2>3, DeliveredEnd
  <2>4. CASE RowsDone
    <3>1. pc = "rows" /\ i = count /\ UNCHANGED <<shown, reason, used>>
      BY <2>4 DEF RowsDone, LastRead
    <3>2. /\ count = Len(list[This.service])
          /\ Range(shown[d]) = {list[This.service][n] : n \in 1 .. i}
      BY <1>1, <3>1 DEF IInv, PlaceInv, ReadSoFar
    <3>3. list[This.service] \in Seq(Rows)
      BY <1>1, DefinitionsAre DEF IInv, XmlInv, TypeLists, Lists, This
    <3>4. DOMAIN list[This.service] = 1 .. Len(list[This.service])
      BY <3>3
    <3>5. Range(list[This.service]) = {list[This.service][n] : n \in 1 .. Len(list[This.service])}
      BY <3>4 DEF Range
    <3>. QED
      BY <3>1, <3>2, <3>5
  <2>5. CASE ListFromCache \/ Downloaded
    <3>1. /\ UsesXml /\ ShownInv /\ TypeTold /\ pc # "idle" /\ pc # "rows" /\ UNCHANGED text
      BY <1>1, <2>5, ListEnd DEF IInv, PlaceInv
    <3>2. PICK l \in XmlLists : ShowList(l) /\ XmlListIsTrue(l)
      BY <1>1, <2>5, ListEnd
    <3>3. \/ reason'[d] # "ok"
          \/ used' = {l.version} /\ (reason'[d] = "ok" => Range(shown'[d]) = Range(l.rows))
      BY <3>1, <3>2, ListEffect
    <3>4. l.version = version[This.service] /\ Range(shown'[d]) = Range(l.rows)
      BY <3>3
    <3>5. l.rows = list[This.service]
      BY <3>1, <3>2, <3>4 DEF XmlListIsTrue, UsesXml, This
    <3>. QED
      BY <3>4, <3>5
  <2>. QED
    BY <2>1, <2>2, <2>3, <2>4, <2>5
<1>2. IInv /\ [Next]_vars => [Stable]_vars
  BY <1>1
<1>. QED
  BY <1>2, InvariantHolds, PTL DEF Spec, StableListIsShown

(* A definition that reads the XML list shows every name of one list that   *)
(* was read well, or nothing at all (host_list.go:117-151).                 *)
THEOREM ListStaysWhole == Spec => WholeListOrNothing
<1> DEFINE Whole ==
      \A e \in Definitions : Ends(e) /\ xml /\ Def[e].kind = "hosts" =>
          IF reason'[e] \in {"request", "timeout"} THEN shown'[e] = <<>>
          ELSE /\ Range(shown'[e]) \subseteq Range(hostList'.rows)
               /\ NamesOf(hostList'.rows) \subseteq
                      UNION {NamesOf(shown'[o]) : o \in {o \in 1 .. e : SameKey(o, e)}}
<1>1. ASSUME IInv, Next PROVE Whole
  <2> SUFFICES ASSUME d \in Definitions, d' = d + 1, UsesXml
               PROVE  IF reason'[d] \in {"request", "timeout"} THEN shown'[d] = <<>>
                      ELSE /\ Range(shown'[d]) \subseteq Range(hostList'.rows)
                           /\ NamesOf(hostList'.rows) \subseteq
                                  UNION {NamesOf(shown'[o]) :
                                         o \in {o \in 1 .. d : SameKey(o, d)}}
    BY DEF Ends, UsesXml, This
  <2>1. OutOfTime \/ ListFromCache \/ Downloaded \/ ListFails
    BY <1>1, EndsBy, CallIsByIndex
  <2>2. CASE OutOfTime \/ ListFails
    <3>1. UNCHANGED shown /\ (Fail("timeout") \/ Fail("request")) /\ pc # "rows" /\ pc # "idle"
      BY <2>2 DEF OutOfTime, ListFails
    <3>2. shown[d] = <<>> /\ reason[d] = "ok"
      BY <1>1, <3>1 DEF IInv, PlaceInv, ShownInv, Untouched
    <3>. QED
      BY <1>1, <3>1, <3>2, FailureIsNoted
  <2>3. CASE ListFromCache \/ Downloaded
    <3>1. /\ ShownInv /\ TypeTold /\ pc # "idle" /\ pc # "rows" /\ UNCHANGED text
      BY <1>1, <2>3, ListEnd DEF IInv, PlaceInv
    <3>2. PICK l \in XmlLists : ShowList(l) /\ hostList' = l
      BY <1>1, <2>3, ListEnd
    <3>3. IF reason'[d] \in {"request", "timeout"} THEN shown'[d] = <<>>
          ELSE /\ Range(shown'[d]) \subseteq Range(l.rows)
               /\ \A n \in DOMAIN l.rows : \E e \in 1 .. d :
                     /\ e \in Definitions /\ SameKey(e, d)
                     /\ l.rows[n].name \in NamesOf(shown'[e])
      BY <3>1, <3>2, ListEffect
    <3>4. CASE reason'[d] \notin {"request", "timeout"}
      <4>1. ASSUME NEW name \in NamesOf(l.rows)
            PROVE  name \in UNION {NamesOf(shown'[o]) :
                                   o \in {o \in 1 .. d : SameKey(o, d)}}
        <5>1. PICK n \in DOMAIN l.rows : name = l.rows[n].name
          BY DEF NamesOf, Range
        <5>2. PICK e \in 1 .. d : SameKey(e, d) /\ name \in NamesOf(shown'[e])
          BY <3>3, <3>4, <5>1 DEF This
        <5>. QED
          BY <5>2
      <4>. QED
        BY <3>2, <3>3, <3>4, <4>1
    <3>. QED
      BY <3>2, <3>3, <3>4
  <2>. QED
    BY <2>1, <2>2, <2>3
<1>2. IInv /\ [Next]_vars => [Whole]_vars
  BY <1>1
<1>. QED
  BY <1>2, InvariantHolds, PTL DEF Spec, WholeListOrNothing

-----------------------------------------------------------------------------
(* Termination                                                              *)

\* How far the reading of a definition is from its end: two steps for each
\* index, besides the count; three for the XML list.
StepsLeft ==
    CASE pc = "next" -> 2 * MaxRows + 4
      [] pc = "count" -> 2 * MaxRows + (IF waiting THEN 2 ELSE 3)
      [] pc = "rows" -> 2 * (count - i) + (IF waiting THEN 0 ELSE 1)
      [] pc = "path" -> 3
      [] pc = "download" -> 2
      [] pc = "body" -> 1
      [] OTHER -> 0

(* A collection ends after as many definitions as there are, and each of    *)
(* them after as many steps as its list can have rows: each step of the     *)
(* collection ends it, goes on to the next definition or is one step less   *)
(* for this one, and a list that grows or moves meanwhile does not put its  *)
(* end off, since the count is read once (main.go:523-565).                 *)
CollectionIsFinite ==
    /\ [](d \in 0 .. Len(Def) + 1 /\ StepsLeft \in 0 .. 2 * MaxRows + 4)
    /\ [][/\ Collect => \/ pc' = "idle"
                        \/ d' = d + 1
                        \/ d' = d /\ StepsLeft' < StepsLeft
          /\ ~Collect /\ ~StartScrape => d' = d /\ StepsLeft' = StepsLeft]_vars

\* How many steps there are in each state, and that a call is for an index of
\* the list.
StepsInv ==
    /\ MaxRows \in Nat /\ d \in 0 .. Len(Def) + 1 /\ count \in 0 .. MaxRows /\ i \in 0 .. count
    /\ waiting \in BOOLEAN /\ (waiting => Calling)
    /\ StepsLeft \in 0 .. 2 * MaxRows + 4
    /\ pc = "next" => StepsLeft = 2 * MaxRows + 4
    /\ pc = "count" /\ waiting => StepsLeft = 2 * MaxRows + 2
    /\ pc = "count" /\ ~waiting => StepsLeft = 2 * MaxRows + 3
    /\ pc = "rows" /\ waiting => StepsLeft = 2 * (count - i)
    /\ pc = "rows" /\ ~waiting => StepsLeft = 2 * (count - i) + 1
    /\ pc = "path" => StepsLeft = 3
    /\ pc = "download" => StepsLeft = 2
    /\ pc = "body" => StepsLeft = 1

(* The steps are counted in every state.                                    *)
LEMMA StepsAreCounted == Spec => []StepsInv
<1>1. IInv => StepsInv
  <2> SUFFICES ASSUME IInv PROVE StepsInv
    OBVIOUS
  <2>1. /\ MaxRows \in Nat /\ d \in 0 .. Len(Def) + 1 /\ count \in 0 .. MaxRows /\ i \in 0 .. count
        /\ waiting \in BOOLEAN /\ (waiting => Calling)
        /\ pc \in {"idle", "next", "count", "rows", "path", "download", "body"}
    BY BoundsAssumption DEF IInv, PlaceInv, TypePlace, ShownInv, InPlace
  <2>. QED
    BY <2>1 DEF StepsInv, StepsLeft
<1>. QED
  BY <1>1, InvariantHolds, PTL

(* An enumeration takes no more than two steps for each row there may be.   *)
LEMMA StepsOfRows ==
    ASSUME NEW R \in Nat, NEW c \in 0 .. R, NEW k \in 0 .. c
    PROVE  2 * (c - k) + 1 <= 2 * R + 1
OBVIOUS

(* A step of the collection brings its end nearer.                          *)
LEMMA CollectionAdvances ==
    ASSUME StepsInv, StepsInv', Collect
    PROVE  pc' = "idle" \/ d' = d + 1 \/ (d' = d /\ StepsLeft' < StepsLeft)
<1>1. /\ MaxRows \in Nat /\ count \in 0 .. MaxRows /\ i \in 0 .. count /\ waiting \in BOOLEAN
      /\ StepsLeft \in 0 .. 2 * MaxRows + 4 /\ StepsLeft' \in 0 .. 2 * MaxRows + 4
      /\ count' \in 0 .. MaxRows /\ i' \in 0 .. count' /\ waiting' \in BOOLEAN
  BY DEF StepsInv
<1>2. /\ pc = "next" => StepsLeft = 2 * MaxRows + 4
      /\ pc = "count" /\ waiting => StepsLeft = 2 * MaxRows + 2
      /\ pc = "count" /\ ~waiting => StepsLeft = 2 * MaxRows + 3
      /\ pc = "rows" /\ waiting => StepsLeft = 2 * (count - i)
      /\ pc = "rows" /\ ~waiting => StepsLeft = 2 * (count - i) + 1
      /\ pc = "path" => StepsLeft = 3
      /\ pc = "download" => StepsLeft = 2
      /\ pc = "body" => StepsLeft = 1
      /\ waiting => pc = "count" \/ (pc = "rows" /\ i < count)
  BY DEF StepsInv, Calling
<1>3. /\ pc' = "count" /\ waiting' => StepsLeft' = 2 * MaxRows + 2
      /\ pc' = "count" /\ ~waiting' => StepsLeft' = 2 * MaxRows + 3
      /\ pc' = "rows" /\ waiting' => StepsLeft' = 2 * (count' - i')
      /\ pc' = "rows" /\ ~waiting' => StepsLeft' = 2 * (count' - i') + 1
      /\ pc' = "path" => StepsLeft' = 3
      /\ pc' = "download" => StepsLeft' = 2
      /\ pc' = "body" => StepsLeft' = 1
  BY DEF StepsInv
<1>4. CASE NextDefinition \/ pc' = "idle"
  BY <1>4 DEF NextDefinition
<1>5. CASE StartDefinition
  <2>1. pc = "next" /\ pc' = "count" /\ d' = d
    BY <1>5 DEF StartDefinition
  <2>. QED
    BY <1>1, <1>2, <1>3, <2>1
\* An entry is delivered, from the cache or by a call.
<1>6. ASSUME NEW entry, Deliver(entry), Calling, waiting' = FALSE
      PROVE  NextDefinition \/ (d' = d /\ StepsLeft' < StepsLeft)
  <2>1. CASE pc = "rows"
    <3>1. i < count /\ i' = i + 1 /\ pc' = "rows" /\ d' = d /\ count' = count
      BY <1>6, <2>1 DEF Deliver, Row, NextIndex, Calling
    <3>. QED
      BY <1>1, <1>2, <1>3, <1>6, <2>1, <3>1
  <2>2. CASE pc = "count"
    <3>1. NextDefinition \/ (pc' = "rows" /\ d' = d)
      BY <1>6, <2>2 DEF Deliver, CountReported, CountProvided
    <3>2. pc' = "rows" => StepsLeft' <= 2 * MaxRows + 1
      <4>1. pc' = "rows" => StepsLeft' = 2 * (count' - i') + 1
        BY <1>3, <1>6
      <4>2. MaxRows \in Nat /\ count' \in 0 .. MaxRows /\ i' \in 0 .. count'
        BY <1>1
      <4>3. 2 * (count' - i') + 1 <= 2 * MaxRows + 1
        BY <4>2, StepsOfRows
      <4>. QED
        BY <4>1, <4>3
    <3>3. StepsLeft \in {2 * MaxRows + 2, 2 * MaxRows + 3}
      BY <1>1, <1>2, <2>2
    <3>. QED
      BY <1>1, <3>1, <3>2, <3>3
  <2>. QED
    BY <1>6, <2>1, <2>2 DEF Calling
<1>7. CASE FromCache
  <2>1. Deliver(cache[Key]) /\ Calling /\ waiting' = FALSE
    BY <1>1, <1>7 DEF FromCache, MayCall
  <2>. QED
    BY <1>4, <1>6, <2>1
<1>8. CASE Answer
  <2>1. (\E entry : Deliver(entry)) /\ waiting /\ waiting' = FALSE
    BY <1>8 DEF Answer
  <2>2. Calling
    BY <2>1 DEF StepsInv
  <2>. QED
    BY <1>4, <1>6, <2>1, <2>2
<1>9. CASE Ask
  <2>1. /\ pc' = pc /\ d' = d /\ i' = i /\ count' = count /\ ~waiting /\ waiting'
        /\ pc \in {"count", "rows"}
    BY <1>9 DEF Ask, MayCall, Calling
  <2>. QED
    BY <1>1, <1>2, <1>3, <2>1
<1>10. CASE CallFails
  <2>1. CASE pc = "count"
    BY <1>4, <1>10, <2>1 DEF CallFails
  <2>2. CASE pc # "count"
    <3>1. waiting /\ pc = "rows" /\ i < count
      BY <1>2, <1>10, <2>2 DEF CallFails
    <3>2. ~waiting' /\ i' = i + 1 /\ pc' = "rows" /\ d' = d /\ count' = count
      BY <1>10, <2>2, <3>1 DEF CallFails, NextIndex
    <3>. QED
      BY <1>1, <1>2, <1>3, <3>1, <3>2
  <2>. QED
    BY <2>1, <2>2
<1>11. CASE AskPath \/ PathAnswered \/ Download
  <2>1. d' = d /\ <<pc, pc'>> \in {<<"next", "path">>, <<"path", "download">>, <<"download", "body">>}
    BY <1>11 DEF AskPath, PathAnswered, Download, Proceed
  <2>. QED
    BY <1>1, <1>2, <1>3, <2>1
<1>12. OutOfTime \/ InvalidIndex \/ RowsDone \/ RowsTimeout \/ ListFromCache \/ Downloaded \/ ListFails
          => NextDefinition
  BY DEF OutOfTime, InvalidIndex, RowsDone, RowsTimeout, ListFromCache, Downloaded, ListFails,
         ShowList
<1>13. FinishScrape => pc' = "idle"
  BY DEF FinishScrape
<1>. QED
  BY <1>4, <1>5, <1>7, <1>8, <1>9, <1>10, <1>11, <1>12, <1>13
  DEF Collect, GetActionResult, ReadHostList

(* A collection ends after as many steps as its definitions and their lists *)
(* allow: what ScrapeEnds asks, but for the fairness that lets it take      *)
(* them.                                                                    *)
THEOREM CollectionsAreFinite == Spec => CollectionIsFinite
<1>1. StepsInv => d \in 0 .. Len(Def) + 1 /\ StepsLeft \in 0 .. 2 * MaxRows + 4
  BY DEF StepsInv
<1>2. ASSUME StepsInv, StepsInv', [Next]_vars
      PROVE  [/\ Collect => \/ pc' = "idle"
                            \/ d' = d + 1
                            \/ d' = d /\ StepsLeft' < StepsLeft
              /\ ~Collect /\ ~StartScrape => d' = d /\ StepsLeft' = StepsLeft]_vars
  <2>1. Collect => pc' = "idle" \/ d' = d + 1 \/ (d' = d /\ StepsLeft' < StepsLeft)
    BY <1>2, CollectionAdvances
  <2>2. ASSUME ~Collect, ~StartScrape PROVE UNCHANGED <<pc, collection>>
    BY <1>2, <2>2 DEF Next, vars, Discovered, Join, Leave, ListBecomes, Tick, Rest
  <2>3. UNCHANGED <<pc, collection>> => d' = d /\ StepsLeft' = StepsLeft
    BY DEF collection, StepsLeft
  <2>. QED
    BY <2>1, <2>2, <2>3
<1>. QED
  BY <1>1, <1>2, StepsAreCounted, PTL DEF Spec, CollectionIsFinite
=============================================================================
