--------------------------- MODULE MCExtraction ---------------------------
(****************************************************************************)
(* Documents and definitions for TLC.  "Flat" is a list or an object of up  *)
(* to two elements, whole or damaged; "nested" a list of up to two parents  *)
(* with lists of up to two children.                                        *)
(****************************************************************************)
EXTENDS Extraction

CONSTANTS items, a, b

Numerals == [n \in {"0", "1", "-1", "7"} |->
                CASE n = "0" -> 0 [] n = "1" -> 1 [] n = "-1" -> -1 [] n = "7" -> 7]

Decimals == [i \in 0 .. 1 |-> IF i = 0 THEN "0" ELSE "1"]

Word == <<"str", <<"ready">>>>
Series == <<"str", <<"7", "ready", "1">>>>
Leaves == {Null, <<"num", 1>>, Word, Series}

Objects(names, values) == {<<"obj", f>> : f \in UNION {[d -> values] : d \in SUBSET names}}
Arrays(values) == {<<"arr", s>> : s \in UNION {[1 .. n -> values] : n \in 0 .. 2}}
Whole(v) == <<"obj", [k \in {items} |-> v]>>

Rows == Objects({a, b}, {Null, <<"num", 1>>, Word}) \cup {Null, Word, <<"arr", <<Series>>>>, Whole(Series)}
Flat == Leaves \cup Arrays(Rows) \cup Objects({a, b}, Rows)

Child == {Null} \cup {<<"obj", [k \in {a} |-> v]>> : v \in {<<"num", 1>>, Word}}
Parents == {<<"obj", [k \in {items, b} |-> IF k = b THEN w ELSE list]>> : w \in {Null, Word},
                                                             list \in Arrays(Child)}
Nested == Arrays(Parents \cup {<<"obj", [k \in {b} |-> Word]>>})

AllDocuments == {Whole(v) : v \in Flat \cup Nested} \cup {<<"obj", [k \in {} |-> 0]>>}

Plain == [path |-> <<items, Star>>, key |-> <<a>>, labels |-> {b}, ok |-> None, allowEmpty |-> FALSE,
          parent |-> <<>>, filter |-> {}, labelPaths |-> [l \in {} |-> 0], series |-> None,
          literals |-> FALSE]
Only(path) == {[path |-> path, want |-> Word]}

\* What the documents are made of.
AllValues == AllDocuments \cup Flat \cup Nested \cup Rows \cup Parents \cup Arrays(Child) \cup Child
             \cup {<<"obj", [k \in {b} |-> Word]>>} \cup Leaves

AllDefinitions ==
    LET plain == {Plain,
                  [Plain EXCEPT !.ok = Word],
                  [Plain EXCEPT !.path = <<items>>, !.key = <<a, a>>],
                  [Plain EXCEPT !.path = <<items, "-1">>],
                  [Plain EXCEPT !.path = <<items, Star, items, Star>>],
                  [Plain EXCEPT !.path = <<items>>, !.key = <<"0", a>>]}
        api == {[Plain EXCEPT !.literals = TRUE],
                [Plain EXCEPT !.filter = Only(<<b>>)],
                [Plain EXCEPT !.filter = Only(<<b>>), !.labels = {}, !.ok = Word],
                [Plain EXCEPT !.key = <<items>>, !.series = 0, !.labels = {}],
                [Plain EXCEPT !.key = <<items>>, !.series = 1, !.labels = {}],
                [Plain EXCEPT !.key = <<"0">>, !.series = -1, !.labels = {}],
                [Plain EXCEPT !.parent = <<items, Star>>, !.path = <<items, Star>>,
                              !.labelPaths = [l \in {b} |-> <<Parent, b>>]],
                [Plain EXCEPT !.parent = <<items, Star>>, !.path = <<items, Star>>,
                              !.filter = Only(<<Parent, b>>), !.labels = {}]}
    IN  plain \cup api \cup {[m EXCEPT !.allowEmpty = TRUE] : m \in plain \cup api}
=============================================================================
