---------------------------- MODULE Extraction ----------------------------
(****************************************************************************)
(* What a definition takes out of a JSON document: the tolerant extraction  *)
(* of Lua pages (GetMetrics, fritzbox_lua/lua_client.go), the strict one of *)
(* allowEmpty (fritzbox_lua/empty_results.go) and that of the API with its  *)
(* filters, parents, label paths and series (api_extraction.go).            *)
(*                                                                          *)
(* A document is a tree of <<"null">>, <<"num", n>>, <<"str", pieces>>,     *)
(* <<"obj", function of names>> and <<"arr", sequence>>; the pieces are     *)
(* what a split yields.  A path is a sequence of names.  A row knows where  *)
(* it came from, so that a row that is lost or taken twice shows.  Objects  *)
(* are ranged over in any order, hence the results form a set.              *)
(****************************************************************************)
EXTENDS Integers, Sequences, SequencesExt

CONSTANTS
    Star,       \* the wildcard of a path
    Parent,     \* "$parent"
    Names,      \* the names of fields
    Numeral,    \* the names and pieces that read as a number, and which
    Decimal,    \* how an index is written
    None,       \* an option that is not set, a label that is not there
    Values,     \* the values of JSON
    Documents,  \* the documents, JSON objects
    Definitions \* the definitions

Null == <<"null">>
Failure == <<"failure">>
IsObject(v) == v[1] = "obj"
IsArray(v) == v[1] = "arr"

Keywords == Names \cup DOMAIN Numeral
Parts == Keywords \cup {Star, Parent}

ASSUME NumeralAssumption ==
    /\ \A k \in DOMAIN Numeral : Numeral[k] \in Int
    /\ \A i \in DOMAIN Decimal : Decimal[i] \in DOMAIN Numeral /\ Numeral[Decimal[i]] = i
ASSUME ValuesAssumption ==
    /\ \A v \in Values :
          /\ v[1] \in {"null", "num", "str", "obj", "arr"}
          /\ v[1] = "null" => v = Null
          /\ v[1] \in {"str", "arr"} => v[2] \in Seq(Range(v[2]))
          /\ IsObject(v) => DOMAIN v[2] \subseteq Names
          /\ IsArray(v) => 0 .. Len(v[2]) - 1 \subseteq DOMAIN Decimal
    \* The fields of an object and the elements of an array are values.
    /\ UNION {Range(v[2]) : v \in {v \in Values : IsObject(v) \/ IsArray(v)}} \subseteq Values
ASSUME DocumentsAssumption == Documents \subseteq {v \in Values : IsObject(v)}
ASSUME NoneAssumption == None \notin Values \cup {Failure} /\ None \notin Int
\* A field is looked for by a name at least.
ASSUME DefinitionsAssumption ==
    \A m \in Definitions :
        /\ m.path \in Seq(Parts) /\ m.key \in Seq(Parts) /\ m.parent \in Seq(Parts)
        /\ \A f \in m.filter : f.path \in Seq(Parts) \ {<<>>}
        /\ m.labels \subseteq Parts
        /\ \A l \in DOMAIN m.labelPaths : m.labelPaths[l] \in Seq(Parts) \ {<<>>}
        /\ m.series \in Int \cup {None}

VARIABLES
    doc,    \* the document
    def,    \* the definition
    result  \* what is returned
vars == <<doc, def, result>>

Failed == [failed |-> TRUE, rows |-> {}]
Found(rows) == [failed |-> FALSE, rows |-> rows]

-----------------------------------------------------------------------------
(* Values and rows                                                          *)

\* "negative indexes count backwards from the end"
Place(s, n) == IF n < 0 THEN n + Len(s) + 1 ELSE n + 1

\* getValueFromHashOrArray
Get(v, part) ==
    IF IsObject(v) /\ part \in DOMAIN v[2] THEN v[2][part]
    ELSE IF IsArray(v) /\ part \in DOMAIN Numeral /\ Place(v[2], Numeral[part]) \in DOMAIN v[2]
    THEN v[2][Place(v[2], Numeral[part])]
    ELSE Failure

\* The value at the end of a path.
Walk(v, path) ==
    LET node[n \in 0 .. Len(path)] == IF n = 0 THEN v ELSE Get(node[n - 1], path[n])
    IN  node[Len(path)]

\* apiValue: what is found at the end of the path is not null.
ApiValue(v, path) ==
    LET found == Walk(v, path) IN
    IF path # <<>> /\ found = Null THEN Failure ELSE found

Row(at, v) == [at |-> at, is |-> v]
Step(row, part) == Row(Append(row.at, part), Get(row.is, part))

\* The elements of an object or an array, "*" of a path.
Collection(v) == IsObject(v) \/ IsArray(v)
Keys(v) ==
    IF IsObject(v) THEN DOMAIN v[2]
    ELSE IF IsArray(v) THEN {Decimal[i] : i \in 0 .. Len(v[2]) - 1}
    ELSE {}
Children(row) == {Step(row, k) : k \in Keys(row.is)}

\* Where one part of a path leads from a row, and where it leads nowhere.
Onward(row, part) == IF part = Star THEN Children(row) ELSE {Step(row, part)}
DeadEnd(v, part, nulls) ==
    IF part = Star THEN ~Collection(v)
    ELSE Get(v, part) = Failure \/ (Get(v, part) = Null /\ ~nulls)

\* strictRows, and apiRows if nulls are refused: a branch that leads nowhere
\* is a failure of all.
StrictRows(row, path, nulls) ==
    LET found[n \in 0 .. Len(path)] ==
            IF n = 0 THEN Found({row})
            ELSE IF \/ found[n - 1].failed
                    \/ \E r \in found[n - 1].rows : DeadEnd(r.is, path[n], nulls)
                 THEN Failed
                 ELSE Found(UNION {Onward(r, path[n]) : r \in found[n - 1].rows})
    IN  found[Len(path)]

\* Mutant of TolerantRows: a branch that leads nowhere ends the search.
StrictRowsOrNone(row, path) == StrictRows(row, path, TRUE).rows

\* _getValues: a branch that leads nowhere is passed over.
TolerantRows(row, path) ==
    LET rows[n \in 0 .. Len(path)] ==
            IF n = 0 THEN {row}
            ELSE UNION {Onward(r, path[n]) :
                        r \in {r \in rows[n - 1] : ~DeadEnd(r.is, path[n], TRUE)}}
    IN  rows[Len(path)]

-----------------------------------------------------------------------------
(* Samples                                                                  *)

Number(v) ==
    IF v[1] = "num" THEN v[2]
    ELSE IF v[1] = "str" /\ Len(v[2]) = 1 /\ v[2][1] \in DOMAIN Numeral THEN Numeral[v[2][1]]
    ELSE None

\* okValue makes a number of anything.
Value(v) ==
    IF v = Failure THEN None
    ELSE IF def.ok # None THEN IF v = def.ok THEN 1 ELSE 0
    ELSE Number(v)

LegacyValue(row) == Value(Walk(row.is, def.key))
LegacyLabel(row, l) ==
    IF IsObject(row.is) /\ l \in DOMAIN row.is[2] THEN row.is[2][l] ELSE None
LegacySample(row) ==
    [at |-> row.at, value |-> LegacyValue(row),
     labels |-> [l \in def.labels |-> LegacyLabel(row, l)]]

\* GetMetrics: a row without a value is passed over.
GetMetrics(rows) ==
    LET sampled == {row \in rows : LegacyValue(row) # None} IN
    IF sampled = {} THEN Failed ELSE Found({LegacySample(row) : row \in sampled})

\* Mutant of EachRow: the rows are evaluated together.
AllRows(rows) == GetMetrics(rows)

\* "Evaluate individually so malformed rows cannot disappear behind valid
\* siblings."
EachRow(rows) ==
    IF \E row \in rows : GetMetrics({row}).failed THEN Failed
    ELSE Found({LegacySample(row) : row \in rows})

\* GetMetricsWithEmpty
GetMetricsWithEmpty ==
    IF ~def.allowEmpty THEN GetMetrics(TolerantRows(Row(<<>>, doc), def.path))
    ELSE LET found == StrictRows(Row(<<>>, doc), def.path, TRUE) IN
         IF found.failed THEN Failed ELSE EachRow(found.rows)

-----------------------------------------------------------------------------
(* extractAPIMetrics                                                        *)

Extended == def.parent # <<>> \/ def.filter # {} \/ DOMAIN def.labelPaths # {}
            \/ def.series # None \/ def.literals

\* A child knows its parent.
Joined(parent, child) ==
    Row(child.at, <<"obj", [k \in DOMAIN child.is[2] \cup {Parent} |->
                               IF k = Parent THEN parent.is ELSE child.is[2][k]]>>)

Joinable(child) == IsObject(child.is) /\ Parent \notin DOMAIN child.is[2]

JoinAll(parents, found) ==
    Found(UNION {{Joined(p, c) : c \in found[p].rows} : p \in parents})

ChildRows ==
    LET parents == StrictRows(Row(<<>>, doc), def.parent, FALSE)
        found == [p \in parents.rows |-> StrictRows(p, def.path, FALSE)]
    IN  IF parents.failed \/ \E p \in parents.rows :
                                 found[p].failed \/ \E c \in found[p].rows : ~Joinable(c)
        THEN Failed
        ELSE JoinAll(parents.rows, found)

ApiRows == IF def.parent = <<>> THEN StrictRows(Row(<<>>, doc), def.path, FALSE) ELSE ChildRows

\* Every field of the filter is looked for, whether or not another one fits.
Filterable(row) == \A f \in def.filter : ApiValue(row.is, f.path) # Failure
Chosen(row) == \A f \in def.filter : ApiValue(row.is, f.path) = f.want

\* valueTransform: one piece of a delimited string.
Piece(v) ==
    IF v[1] # "str" THEN Failure
    ELSE LET i == Place(v[2], def.series) IN
         IF i \in DOMAIN v[2] /\ v[2][i] \in DOMAIN Numeral THEN <<"num", Numeral[v[2][i]]>>
         ELSE Failure

ApiNumber(row) ==
    LET v == ApiValue(row.is, def.key) IN
    Value(IF def.series = None \/ v = Failure THEN v ELSE Piece(v))

LabelOf(row, l) ==
    ApiValue(row.is, IF l \in DOMAIN def.labelPaths THEN def.labelPaths[l] ELSE <<l>>)

ApiSample(row) ==
    [at |-> row.at, value |-> ApiNumber(row), labels |-> [l \in def.labels |-> LabelOf(row, l)]]

Complete(row) == ApiNumber(row) # None /\ \A l \in def.labels : LabelOf(row, l) # Failure

ExtractAPI ==
    LET found == ApiRows
        chosen == {row \in found.rows : Chosen(row)}
    IN  IF \/ found.failed
           \/ \E row \in found.rows : ~Filterable(row)
           \/ \E row \in chosen : ~Complete(row)
           \/ chosen = {} /\ ~def.allowEmpty
        THEN Failed
        ELSE Found({ApiSample(row) : row \in chosen})

\* extractAPIMetrics for the API, extractLuaDefinition for Lua pages.
Extraction == IF Extended THEN ExtractAPI ELSE GetMetricsWithEmpty

-----------------------------------------------------------------------------
Pending == [failed |-> FALSE, rows |-> {None}]

Init == doc \in Documents /\ def \in Definitions /\ result = Pending

Extract ==
    /\ result = Pending
    /\ result' = Extraction
    /\ UNCHANGED <<doc, def>>

Done == result # Pending /\ UNCHANGED vars

Next == Extract \/ Done
Spec == Init /\ [][Next]_vars

-----------------------------------------------------------------------------
(* What a path means, without a word on how it is followed                  *)

\* The ways to read each "*" of the path as one element of what is there.
InstancesFrom(v, path) ==
    {at \in [DOMAIN path -> Keywords] :
        /\ \A n \in DOMAIN path : path[n] # Star => at[n] = path[n]
        /\ \A n \in DOMAIN path : path[n] = Star => at[n] \in Keys(Walk(v, SubSeq(at, 1, n - 1)))
        /\ Walk(v, at) # Failure}

\* No instance of a part of the path is a dead end.
UnbrokenFrom(v, path) ==
    \A n \in DOMAIN path : \A at \in InstancesFrom(v, SubSeq(path, 1, n - 1)) :
        IF path[n] = Star THEN Collection(Walk(v, at)) ELSE Get(Walk(v, at), path[n]) # Failure

NodeAt(at) == Walk(doc, at)
Instances(path) == InstancesFrom(doc, path)
Unbroken(path) == UnbrokenFrom(doc, path)

Taken == {s.at : s \in result.rows}
OneSampleEach == \A s, t \in result.rows : s.at = t.at => s = t

(* A tolerant definition yields one sample for each place of the document   *)
(* that its path and key lead to and that holds a number, whatever is wrong *)
(* with the places beside it, and fails only if there is none: "since we    *)
(* may have other values, we simply continue"                               *)
(* (fritzbox_lua/lua_client.go:393-475, 501-560).                           *)
TolerantTakesWhatIsThere ==
    result # Pending /\ ~Extended /\ ~def.allowEmpty =>
        LET there == {at \in Instances(def.path) : Value(NodeAt(at \o def.key)) # None} IN
        /\ Taken = there
        /\ OneSampleEach
        /\ \A s \in result.rows :
              /\ s.value = Value(NodeAt(s.at \o def.key))
              /\ \A l \in def.labels : s.labels[l] # None => s.labels[l] = NodeAt(Append(s.at, l))
        /\ result.failed <=> there = {}

Path == def.parent \o def.path
Elsewhere(at, path) ==
    IF def.parent # <<>> /\ path # <<>> /\ path[1] = Parent
    THEN SubSeq(at, 1, Len(def.parent)) \o Tail(path)
    ELSE at \o path
FromEitherEnd(pieces, i) == IF i < 0 THEN Reverse(pieces)[-i] ELSE pieces[i + 1]
ValueAt(at) ==
    IF def.series = None THEN Number(NodeAt(at))
    ELSE Numeral[FromEitherEnd(NodeAt(at)[2], def.series)]
Wanted(at) == \A f \in def.filter : NodeAt(Elsewhere(at, f.path)) = f.want

(* "Malformed rows cannot disappear behind valid siblings", DIAGNOSTICS.md: *)
(* 58, "All rows in an allowEmpty definition are validated": a definition   *)
(* with allowEmpty or an option of the API succeeds only if every branch    *)
(* leads on, and then yields exactly one sample for each row the filter     *)
(* wants, with its own value and the fields of its own parent               *)
(* (fritzbox_lua/empty_results.go:9-70, api_extraction.go:51-192).          *)
StrictTakesAllOrNothing ==
    result # Pending /\ ~result.failed /\ (Extended \/ def.allowEmpty) =>
        /\ Unbroken(Path)
        /\ Taken = {at \in Instances(Path) : Wanted(at)}
        /\ OneSampleEach
        /\ result.rows = {} => def.allowEmpty
        /\ \A s \in result.rows :
              /\ def.ok = None => s.value = ValueAt(Elsewhere(s.at, def.key))
              /\ \A l \in def.labels :
                    s.labels[l] \in {None, NodeAt(Elsewhere(s.at, IF l \in DOMAIN def.labelPaths
                                                                 THEN def.labelPaths[l] ELSE <<l>>))}
              /\ Extended => \A l \in def.labels : s.labels[l] \notin {None, Null}
=============================================================================
