------------------------- MODULE ExtractionProofs -------------------------
(****************************************************************************)
(* What Extraction takes out of any document is what the path of the        *)
(* definition means, tolerantly or all or nothing.                          *)
(****************************************************************************)
EXTENDS Extraction, SequenceTheorems, WellFoundedInduction, TLAPS

Anything == Values \cup {Failure}

-----------------------------------------------------------------------------
(* Induction, by a least counterexample                                     *)

(* A set of natural numbers that is not empty has a least element.          *)
LEMMA LeastNatural ==
    ASSUME NEW T, T \subseteq Nat, T # {}
    PROVE  \E t \in T : \A u \in T : t <= u
<1> DEFINE Less == {p \in Nat \X Nat : p[1] < p[2]}
<1>1. IsWellFoundedOn(Less, Nat)
  BY NatLessThanWellFounded DEF OpToRel
<1>2. PICK t \in T : \A u \in T : ~(<<u, t>> \in Less)
  <2>. HIDE DEF Less
  <2>. QED
    BY <1>1, WFMin
<1>3. ASSUME NEW u \in T PROVE t <= u
  <2>1. <<u, t>> \in Nat \X Nat /\ <<u, t>>[1] = u /\ <<u, t>>[2] = t
    OBVIOUS
  <2>2. ~(<<u, t>>[1] < <<u, t>>[2])
    BY <1>2, <2>1
  <2>. QED
    BY <2>1, <2>2
<1>. QED
  BY <1>3

(* What holds of 0, and of each number up to N after one of which it holds, *)
(* holds of every number up to N.                                           *)
LEMMA UpTo ==
    ASSUME NEW N \in Nat, NEW Good, 0 \in Good,
           \A n \in 1 .. N : n - 1 \in Good => n \in Good
    PROVE  0 .. N \subseteq Good
<1> SUFFICES ASSUME (0 .. N) \ Good # {} PROVE FALSE
  OBVIOUS
<1>0. (0 .. N) \ Good \subseteq Nat
  OBVIOUS
<1>1. PICK t \in (0 .. N) \ Good : \A u \in (0 .. N) \ Good : t <= u
  BY <1>0, LeastNatural
<1>2. t \in 1 .. N /\ t - 1 \in 0 .. N
  BY <1>1
<1>. QED
  BY <1>1, <1>2

\* Two functions start alike, and go on alike as long as they are alike.
Alike(f, g, N) == f[0] = g[0] /\ \A n \in 1 .. N : f[n - 1] = g[n - 1] => f[n] = g[n]

(* Such functions end alike.                                                *)
LEMMA SameEnd ==
    ASSUME NEW N \in Nat, NEW f, NEW g, Alike(f, g, N)
    PROVE  f[N] = g[N]
<1> DEFINE Good == {n \in Nat : f[n] = g[n]}
<1>1. 0 \in Good /\ \A n \in 1 .. N : n - 1 \in Good => n \in Good
  BY DEF Alike
<1>2. 0 .. N \subseteq Good
  <2>. HIDE DEF Good
  <2>. QED
    BY <1>1, UpTo
<1>. QED
  BY <1>2

-----------------------------------------------------------------------------
(* Values                                                                   *)

(* What is looked for in a value is a value, or is not there, and only a    *)
(* keyword finds any.                                                       *)
LEMMA GetType ==
    ASSUME NEW v \in Anything, NEW part
    PROVE  /\ Get(v, part) \in Anything
           /\ Get(v, part) # Failure => part \in Keywords /\ v \in Values
<1>1. CASE v = Failure
  BY <1>1 DEF Get, Failure, IsObject, IsArray, Anything
<1>2. CASE v \in Values
  <2>1. CASE IsObject(v) /\ part \in DOMAIN v[2]
    <3>1. DOMAIN v[2] \subseteq Names /\ Range(v[2]) \subseteq Values
      BY <1>2, <2>1, ValuesAssumption
    <3>. QED
      BY <1>2, <2>1, <3>1 DEF Get, Anything, Keywords, Range
  <2>2. CASE ~(IsObject(v) /\ part \in DOMAIN v[2]) /\ IsArray(v) /\ part \in DOMAIN Numeral
             /\ Place(v[2], Numeral[part]) \in DOMAIN v[2]
    <3>1. Range(v[2]) \subseteq Values
      BY <1>2, <2>2, ValuesAssumption
    <3>. QED
      BY <1>2, <2>2, <3>1 DEF Get, Anything, Keywords, Range
  <2>. QED
    BY <1>2, <2>1, <2>2 DEF Get, Anything
<1>. QED
  BY <1>1, <1>2 DEF Anything

(* The elements of a collection are values, and their keys are keywords.    *)
LEMMA KeysLead ==
    ASSUME NEW v \in Anything, NEW k \in Keys(v)
    PROVE  k \in Keywords /\ Get(v, k) \in Anything /\ Get(v, k) # Failure
<1>0. Failure \notin Values
  BY ValuesAssumption DEF Failure
<1>1. v \in Values
  BY DEF Anything, Keys, Failure, IsObject, IsArray
<1>2. CASE IsObject(v)
  <2>1. k \in DOMAIN v[2] /\ v[2][k] \in Values
    BY <1>1, <1>2, ValuesAssumption DEF Keys, Range
  <2>. QED
    BY <1>0, <1>1, <1>2, <2>1, GetType DEF Get
<1>3. CASE ~IsObject(v) /\ IsArray(v)
  <2>1. PICK i \in 0 .. Len(v[2]) - 1 : k = Decimal[i]
    BY <1>3 DEF Keys
  <2>2. v[2] \in Seq(Range(v[2])) /\ Range(v[2]) \subseteq Values /\ i \in DOMAIN Decimal
    <3>1. v[1] = "arr"
      BY <1>3 DEF IsArray
    <3>. QED
      BY <1>1, <1>3, <2>1, <3>1, ValuesAssumption
  <2>3. k \in DOMAIN Numeral /\ Numeral[k] = i
    BY <2>1, <2>2, NumeralAssumption
  <2>4. Len(v[2]) \in Nat /\ DOMAIN v[2] = 1 .. Len(v[2]) /\ i + 1 \in DOMAIN v[2]
    BY <2>1, <2>2
  <2>5. Place(v[2], Numeral[k]) = i + 1 /\ v[2][i + 1] \in Values
    BY <2>1, <2>2, <2>3, <2>4 DEF Place, Range
  <2>. QED
    BY <1>0, <1>1, <1>3, <2>3, <2>4, <2>5, GetType DEF Get
<1>. QED
  BY <1>2, <1>3 DEF Keys

-----------------------------------------------------------------------------
(* Walks                                                                    *)

\* The nodes that a walk comes to, one for each part of the path; those of the
\* function that the walk is defined by.
Trace(v, path, node) ==
    node[0] = v /\ \A n \in 1 .. Len(path) : node[n] = Get(node[n - 1], path[n])
Nodes(v, path, node) ==
    node = [n \in 0 .. Len(path) |-> IF n = 0 THEN v ELSE Get(node[n - 1], path[n])]

(* Every path can be walked from every value.                               *)
LEMMA NodesExist ==
    ASSUME NEW v, NEW S, NEW path \in Seq(S)
    PROVE  \E node : Nodes(v, path, node)
<1> DEFINE N == Len(path)
           Upto(g, n) == /\ DOMAIN g = 0 .. n /\ g[0] = v
                         /\ \A m \in 1 .. n : g[m] = Get(g[m - 1], path[m])
           Good == {n \in Nat : \E g : Upto(g, n)}
<1>0. N \in Nat
  OBVIOUS
<1>1. 0 \in Good
  <2> DEFINE h == [m \in 0 .. 0 |-> v]
  <2>1. Upto(h, 0)
    OBVIOUS
  <2>. HIDE DEF Upto, h
  <2>. QED
    BY <2>1
<1>2. ASSUME NEW n \in 1 .. N, n - 1 \in Good PROVE n \in Good
  <2>1. PICK g : Upto(g, n - 1)
    BY <1>2
  <2> DEFINE h == [m \in 0 .. n |-> IF m = n THEN Get(g[n - 1], path[n]) ELSE g[m]]
  <2>2. Upto(h, n)
    BY <1>0, <2>1
  <2>3. n \in Nat
    BY <1>0
  <2>. HIDE DEF Upto, h
  <2>. QED
    BY <2>2, <2>3
<1>3. N \in Good
  <2>1. 0 .. N \subseteq Good
    <3>. HIDE DEF Good, N
    <3>. QED
      BY <1>0, <1>1, <1>2, UpTo
  <2>. QED
    BY <1>0, <2>1
<1>4. PICK g : Upto(g, N)
  BY <1>3
<1> DEFINE node == [n \in 0 .. N |-> g[n]]
<1>5. Nodes(v, path, node)
  BY <1>4 DEF Nodes
<1>. QED
  BY <1>5

(* A walk ends at the last node of any trace, for they are all alike.       *)
LEMMA WalkEnds ==
    ASSUME NEW v, NEW S, NEW path \in Seq(S), NEW node, Trace(v, path, node)
    PROVE  Walk(v, path) = node[Len(path)]
<1> DEFINE g == CHOOSE h : Nodes(v, path, h)
<1>0. Len(path) \in Nat
  OBVIOUS
<1>1. Walk(v, path) = g[Len(path)]
  BY DEF Walk, Nodes
<1>2. Nodes(v, path, g)
  BY NodesExist
<1>. HIDE DEF g
<1>3. g[0] = v /\ \A n \in 1 .. Len(path) : g[n] = Get(g[n - 1], path[n])
  BY <1>0, <1>2 DEF Nodes
<1>4. Alike(g, node, Len(path))
  BY <1>3 DEF Trace, Alike
<1>5. g[Len(path)] = node[Len(path)]
  BY <1>0, <1>4, SameEnd
<1>. QED
  BY <1>1, <1>5

(* A walk has a trace.                                                      *)
LEMMA TraceExists ==
    ASSUME NEW v, NEW S, NEW path \in Seq(S)
    PROVE  \E node : Trace(v, path, node)
<1>1. PICK node : Nodes(v, path, node)
  BY NodesExist
<1>2. Trace(v, path, node)
  BY <1>1 DEF Trace, Nodes
<1>. QED
  BY <1>2

(* A trace comes at each step to the end of the walk along the path so far. *)
LEMMA TraceSoFar ==
    ASSUME NEW v, NEW S, NEW path \in Seq(S), NEW node, Trace(v, path, node),
           NEW n \in 0 .. Len(path)
    PROVE  node[n] = Walk(v, SubSeq(path, 1, n))
<1> DEFINE q == SubSeq(path, 1, n)
<1>1. q \in Seq(S) /\ Len(q) = n /\ \A m \in 1 .. n : q[m] = path[m] /\ m \in 1 .. Len(path)
  OBVIOUS
<1>. HIDE DEF q
<1>2. Trace(v, q, node)
  BY <1>1 DEF Trace
<1>3. Walk(v, q) = node[Len(q)]
  BY <1>1, <1>2, WalkEnds
<1>. QED
  BY <1>1, <1>3 DEF q

(* The empty path leads nowhere else, a longer path one step further than   *)
(* the path before its last part.                                           *)
LEMMA WalkFurther ==
    ASSUME NEW v, NEW S, NEW path \in Seq(S)
    PROVE  /\ Walk(v, <<>>) = v
           /\ \A part \in S : Walk(v, Append(path, part)) = Get(Walk(v, path), part)
<1>1. Walk(v, <<>>) = v
  <2>1. <<>> \in Seq(S) /\ Len(<<>>) = 0
    OBVIOUS
  <2>2. PICK node : Trace(v, <<>>, node)
    BY <2>1, TraceExists
  <2>3. node[0] = v
    BY <2>2 DEF Trace
  <2>. QED
    BY <2>1, <2>2, <2>3, WalkEnds
<1>2. ASSUME NEW part \in S PROVE Walk(v, Append(path, part)) = Get(Walk(v, path), part)
  <2> DEFINE q == Append(path, part)
             N == Len(path)
  <2>1. q \in Seq(S) /\ Len(q) = N + 1 /\ N \in Nat /\ q[N + 1] = part
        /\ SubSeq(q, 1, N) = path
    OBVIOUS
  <2>. HIDE DEF q, N
  <2>2. PICK node : Trace(v, q, node)
    BY <2>1, TraceExists
  <2>3. node[N] = Walk(v, path)
    <3>1. N \in 0 .. Len(q)
      BY <2>1
    <3>. QED
      BY <2>1, <2>2, <3>1, TraceSoFar
  <2>4. Walk(v, q) = node[N + 1]
    BY <2>1, <2>2, WalkEnds
  <2>5. node[N + 1] = Get(node[N], part)
    BY <2>1, <2>2 DEF Trace
  <2>. QED
    BY <2>3, <2>4, <2>5 DEF q
<1>. QED
  BY <1>1, <1>2

(* A walk along two paths goes on along the second where the first ends.    *)
LEMMA WalkConcat ==
    ASSUME NEW v, NEW S, NEW p \in Seq(S), NEW q \in Seq(S)
    PROVE  Walk(v, p \o q) = Walk(Walk(v, p), q)
<1> DEFINE N == Len(p)
           M == Len(q)
           both == p \o q
<1>1. both \in Seq(S) /\ Len(both) = N + M /\ N \in Nat /\ M \in Nat
      /\ SubSeq(both, 1, N) = p
  OBVIOUS
<1>2. \A m \in 1 .. M : both[N + m] = q[m]
  OBVIOUS
<1>. HIDE DEF both, N, M
<1>3. PICK node : Trace(v, both, node)
  BY <1>1, TraceExists
<1> DEFINE rest == [m \in 0 .. M |-> node[N + m]]
<1>4. node[N] = Walk(v, p)
  <2>1. N \in 0 .. Len(both)
    BY <1>1
  <2>. QED
    BY <1>1, <1>3, <2>1, TraceSoFar
<1>5. Walk(v, both) = node[N + M]
  BY <1>1, <1>3, WalkEnds
<1>6. ASSUME NEW m \in 1 .. M PROVE rest[m] = Get(rest[m - 1], q[m])
  <2> DEFINE k == N + m
  <2>1. /\ k \in 1 .. Len(both) /\ both[k] = q[m]
        /\ rest[m] = node[k] /\ rest[m - 1] = node[k - 1]
    <3>1. k - 1 = N + (m - 1) /\ m - 1 \in 0 .. M /\ m \in 0 .. M
      BY <1>1
    <3>2. rest[m] = node[k] /\ rest[m - 1] = node[N + (m - 1)]
      BY <3>1
    <3>3. k \in 1 .. Len(both) /\ both[k] = q[m]
      BY <1>1, <1>2
    <3>. HIDE DEF rest, k
    <3>. QED
      BY <3>1, <3>2, <3>3
  <2>. HIDE DEF k, rest
  <2>2. node[k] = Get(node[k - 1], both[k])
    BY <1>3, <2>1 DEF Trace
  <2>. QED
    BY <2>1, <2>2
<1>7. rest[0] = Walk(v, p) /\ rest[M] = node[N + M]
  BY <1>1, <1>4
<1>. HIDE DEF rest
<1>8. Trace(Walk(v, p), q, rest)
  BY <1>6, <1>7 DEF Trace, M
<1>9. Walk(Walk(v, p), q) = rest[M]
  BY <1>8, WalkEnds DEF M
<1>. QED
  BY <1>5, <1>7, <1>9 DEF both

(* A walk from a value comes to a value or nowhere.                         *)
LEMMA WalkType ==
    ASSUME NEW v \in Anything, NEW S, NEW path \in Seq(S)
    PROVE  Walk(v, path) \in Anything
<1>0. Len(path) \in Nat
  OBVIOUS
<1>1. PICK node : Trace(v, path, node)
  BY TraceExists
<1> DEFINE Good == {n \in Nat : node[n] \in Anything}
<1>2. 0 \in Good /\ \A n \in 1 .. Len(path) : n - 1 \in Good => n \in Good
  BY <1>0, <1>1, GetType DEF Trace
<1>3. 0 .. Len(path) \subseteq Good
  <2>. HIDE DEF Good
  <2>. QED
    BY <1>0, <1>2, UpTo
<1>4. Walk(v, path) = node[Len(path)]
  BY <1>1, WalkEnds
<1>. QED
  BY <1>0, <1>3, <1>4

(* From nowhere a walk comes nowhere.                                       *)
LEMMA WalkFromFailure ==
    ASSUME NEW S, NEW path \in Seq(S)
    PROVE  Walk(Failure, path) = Failure
<1> DEFINE node == [n \in 0 .. Len(path) |-> Failure]
<1>0. Len(path) \in Nat
  OBVIOUS
<1>1. ASSUME NEW n \in 1 .. Len(path) PROVE node[n] = Get(node[n - 1], path[n])
  BY <1>0 DEF Get, Failure, IsObject, IsArray
<1>2. node[0] = Failure /\ node[Len(path)] = Failure
  BY <1>0
<1>. HIDE DEF node
<1>3. Trace(Failure, path, node)
  BY <1>1, <1>2 DEF Trace
<1>. QED
  BY <1>2, <1>3, WalkEnds

-----------------------------------------------------------------------------
(* Instances of a path                                                      *)

\* The choice made at one part of the path.
FitsAt(v, path, at, n) ==
    IF path[n] = Star THEN at[n] \in Keys(Walk(v, SubSeq(at, 1, n - 1))) ELSE at[n] = path[n]

(* What an instance is, part by part.                                       *)
LEMMA InstanceFits ==
    ASSUME NEW v, NEW path \in Seq(Parts), NEW at
    PROVE  at \in InstancesFrom(v, path) <=>
               /\ at \in Seq(Keywords) /\ Len(at) = Len(path)
               /\ Walk(v, at) # Failure
               /\ \A n \in 1 .. Len(path) : FitsAt(v, path, at, n)
<1>1. DOMAIN path = 1 .. Len(path) /\ Len(path) \in Nat
  OBVIOUS
<1>2. at \in [1 .. Len(path) -> Keywords] <=> at \in Seq(Keywords) /\ Len(at) = Len(path)
  BY <1>1
<1>3. at \in InstancesFrom(v, path) <=>
          /\ at \in [1 .. Len(path) -> Keywords]
          /\ Walk(v, at) # Failure
          /\ \A n \in 1 .. Len(path) : FitsAt(v, path, at, n)
  BY <1>1 DEF InstancesFrom, FitsAt
<1>. QED
  BY <1>2, <1>3

(* The parts of two sequences in a row.                                     *)
LEMMA Halves ==
    ASSUME NEW S, NEW a \in Seq(S), NEW b \in Seq(S)
    PROVE  /\ a \o b \in Seq(S) /\ Len(a \o b) = Len(a) + Len(b)
           /\ Len(a) \in Nat /\ Len(b) \in Nat
OBVIOUS

(* The first part of two sequences in a row is the first of them.           *)
LEMMA FirstHalf ==
    ASSUME NEW S, NEW a \in Seq(S), NEW b \in Seq(S), NEW n \in 1 .. Len(a)
    PROVE  (a \o b)[n] = a[n] /\ SubSeq(a \o b, 1, n - 1) = SubSeq(a, 1, n - 1)
OBVIOUS

(* The rest of two sequences in a row is the second of them.                *)
LEMMA SecondHalf ==
    ASSUME NEW S, NEW a \in Seq(S), NEW b \in Seq(S),
           NEW k \in Len(a) + 1 .. Len(a) + Len(b)
    PROVE  (a \o b)[k] = b[k - Len(a)]
OBVIOUS

(* What begins two sequences in a row and reaches into the second.          *)
LEMMA Prefix ==
    ASSUME NEW S, NEW a \in Seq(S), NEW b \in Seq(S), NEW j \in Len(a) .. Len(a) + Len(b)
    PROVE  SubSeq(a \o b, 1, j) = a \o SubSeq(b, 1, j - Len(a))
OBVIOUS

(* A sequence is what comes before any place and what comes after it.       *)
LEMMA Halving ==
    ASSUME NEW S, NEW s \in Seq(S), NEW n \in 0 .. Len(s)
    PROVE  /\ SubSeq(s, 1, n) \in Seq(S) /\ Len(SubSeq(s, 1, n)) = n
           /\ SubSeq(s, n + 1, Len(s)) \in Seq(S) /\ Len(SubSeq(s, n + 1, Len(s))) = Len(s) - n
           /\ s = SubSeq(s, 1, n) \o SubSeq(s, n + 1, Len(s))
<1>1. SubSeq(s, 1, n) \in Seq(S) /\ Len(SubSeq(s, 1, n)) = n
  OBVIOUS
<1>2. SubSeq(s, n + 1, Len(s)) \in Seq(S) /\ Len(SubSeq(s, n + 1, Len(s))) = Len(s) - n
  OBVIOUS
<1>3. SubSeq(s, 1, n) \o SubSeq(s, n + 1, Len(s)) = SubSeq(s, 1, Len(s))
  <2>1. 1 \in 1 .. Len(s) + 1 /\ n \in 1 - 1 .. Len(s) /\ Len(s) \in n .. Len(s)
    OBVIOUS
  <2>. QED
    BY <2>1, ConcatAdjacentSubSeq
<1>4. SubSeq(s, 1, Len(s)) = s
  OBVIOUS
<1>. QED
  BY <1>1, <1>2, <1>3, <1>4

(* In the second of two paths, a choice is made from where the first leads. *)
LEMMA FitsBehind ==
    ASSUME NEW v, NEW p \in Seq(Parts), NEW q \in Seq(Parts),
           NEW a \in Seq(Keywords), NEW b \in Seq(Keywords), NEW N, NEW M,
           Len(p) = N, Len(a) = N, Len(q) = M, Len(b) = M, NEW n \in 1 .. M
    PROVE  FitsAt(v, p \o q, a \o b, N + n) <=> FitsAt(Walk(v, a), q, b, n)
<1> DEFINE k == N + n
           before == SubSeq(b, 1, n - 1)
<1>0. N \in Nat /\ M \in Nat
  OBVIOUS
<1>1. k \in N + 1 .. N + M /\ k - N = n /\ k - N - 1 = n - 1
  BY <1>0
<1>. HIDE DEF k
<1>2. (p \o q)[k] = q[k - N]
  BY <1>1, SecondHalf
<1>3. (a \o b)[k] = b[k - N]
  BY <1>1, SecondHalf
<1>4. before \in Seq(Keywords) /\ SubSeq(a \o b, 1, k - 1) = a \o before
  <2>1. before \in Seq(Keywords)
    BY <1>0
  <2> DEFINE j == k - 1
             m == j - N
  <2>2. j \in N .. N + M /\ m = n - 1
    BY <1>0, <1>1
  <2>. HIDE DEF j
  <2>3. SubSeq(a \o b, 1, j) = a \o SubSeq(b, 1, m)
    BY <2>2, Prefix
  <2>. HIDE DEF m
  <2>. QED
    BY <2>1, <2>2, <2>3, Zenon DEF j
<1>. HIDE DEF before
<1>5. Walk(v, a \o before) = Walk(Walk(v, a), before)
  BY <1>4, WalkConcat
<1>6. FitsAt(v, p \o q, a \o b, k) <=> FitsAt(Walk(v, a), q, b, n)
  BY <1>1, <1>2, <1>3, <1>4, <1>5 DEF FitsAt, before
<1>. QED
  BY <1>6 DEF k

(* Sequences in a row that are the same have the same parts.                *)
LEMMA SameHalves ==
    ASSUME NEW S, NEW a \in Seq(S), NEW b \in Seq(S), NEW x \in Seq(S), NEW y \in Seq(S),
           Len(a) = Len(x), a \o b = x \o y
    PROVE  a = x /\ b = y
<1> DEFINE ab == a \o b
           xy == x \o y
<1>1. \A n \in 1 .. Len(a) : ab[n] = a[n]
  OBVIOUS
<1>2. \A n \in 1 .. Len(x) : xy[n] = x[n]
  OBVIOUS
<1>3. ab = xy
  OBVIOUS
<1>. HIDE DEF ab, xy
<1>4. \A n \in 1 .. Len(a) : a[n] = x[n]
  BY <1>1, <1>2, <1>3
<1>5. a = x
  BY <1>4, SeqEqual
<1>6. a \o b = a \o y
  BY <1>5
<1>7. b = y
  BY <1>6, ConcatSimplifications
<1>. QED
  BY <1>5, <1>7

(* An instance of two paths in a row is an instance of the first, and from  *)
(* where that leads one of the second.                                      *)
LEMMA InstanceConcat ==
    ASSUME NEW v \in Anything, NEW p \in Seq(Parts), NEW q \in Seq(Parts),
           NEW a \in Seq(Keywords), NEW b \in Seq(Keywords), Len(a) = Len(p), Len(b) = Len(q)
    PROVE  a \o b \in InstancesFrom(v, p \o q) <=>
               a \in InstancesFrom(v, p) /\ b \in InstancesFrom(Walk(v, a), q)
<1> DEFINE N == Len(p)
           M == Len(q)
<1>1. Walk(v, a \o b) = Walk(Walk(v, a), b)
  BY WalkConcat
<1>2. Walk(v, a \o b) # Failure => Walk(v, a) # Failure
  BY <1>1, WalkFromFailure
<1>3. ASSUME NEW n \in 1 .. N PROVE FitsAt(v, p \o q, a \o b, n) <=> FitsAt(v, p, a, n)
  <2>1. (p \o q)[n] = p[n]
    BY FirstHalf
  <2>2. (a \o b)[n] = a[n] /\ SubSeq(a \o b, 1, n - 1) = SubSeq(a, 1, n - 1)
    <3>1. n \in 1 .. Len(a)
      OBVIOUS
    <3>. QED
      BY <3>1, FirstHalf
  <2>. QED
    BY <2>1, <2>2 DEF FitsAt
<1>4. ASSUME NEW n \in 1 .. M
      PROVE  FitsAt(v, p \o q, a \o b, N + n) <=> FitsAt(Walk(v, a), q, b, n)
  BY FitsBehind
<1>5. /\ p \o q \in Seq(Parts) /\ Len(p \o q) = N + M
      /\ a \o b \in Seq(Keywords) /\ Len(a \o b) = N + M /\ N \in Nat /\ M \in Nat
  <2>1. p \o q \in Seq(Parts) /\ Len(p \o q) = N + M /\ N \in Nat /\ M \in Nat
    BY Halves
  <2>2. a \o b \in Seq(Keywords) /\ Len(a \o b) = Len(a) + Len(b)
    BY Halves
  <2>. QED
    BY <2>1, <2>2
<1>6. (\A n \in 1 .. N + M : FitsAt(v, p \o q, a \o b, n))
      <=> (\A n \in 1 .. N : FitsAt(v, p, a, n)) /\ (\A n \in 1 .. M : FitsAt(Walk(v, a), q, b, n))
  <2>1. \A n \in 1 .. N + M : n \in 1 .. N \/ (n - N \in 1 .. M /\ n = N + (n - N))
    BY <1>5
  <2>2. (\A n \in 1 .. N : n \in 1 .. N + M) /\ (\A n \in 1 .. M : N + n \in 1 .. N + M)
    BY <1>5
  <2>. HIDE DEF N, M
  <2>. QED
    BY <1>3, <1>4, <2>1, <2>2
<1>7. a \in InstancesFrom(v, p) <=>
          Walk(v, a) # Failure /\ \A n \in 1 .. N : FitsAt(v, p, a, n)
  BY InstanceFits
<1>8. b \in InstancesFrom(Walk(v, a), q) <=>
          Walk(Walk(v, a), b) # Failure /\ \A n \in 1 .. M : FitsAt(Walk(v, a), q, b, n)
  BY InstanceFits
<1>9. a \o b \in InstancesFrom(v, p \o q) <=>
          Walk(v, a \o b) # Failure /\ \A n \in 1 .. N + M : FitsAt(v, p \o q, a \o b, n)
  BY <1>5, InstanceFits
<1>. QED
  BY <1>1, <1>2, <1>6, <1>7, <1>8, <1>9

\* An instance of one path, followed by one of another from there.
IsComposed(v, p, q, at) ==
    \E a \in InstancesFrom(v, p) : \E b \in InstancesFrom(Walk(v, a), q) : at = a \o b

(* Every instance of two paths in a row is such a pair.                     *)
LEMMA InstanceSplits ==
    ASSUME NEW v \in Anything, NEW p \in Seq(Parts), NEW q \in Seq(Parts), NEW at
    PROVE  at \in InstancesFrom(v, p \o q) <=> IsComposed(v, p, q, at)
<1>1. ASSUME at \in InstancesFrom(v, p \o q)
      PROVE  \E a \in InstancesFrom(v, p) : \E b \in InstancesFrom(Walk(v, a), q) : at = a \o b
  <2>1. p \o q \in Seq(Parts) /\ Len(p \o q) = Len(p) + Len(q) /\ Len(p) \in Nat /\ Len(q) \in Nat
    BY Halves
  <2>2. at \in Seq(Keywords) /\ Len(at) = Len(p) + Len(q)
    BY <1>1, <2>1, InstanceFits
  <2> DEFINE a == SubSeq(at, 1, Len(p))
             b == SubSeq(at, Len(p) + 1, Len(at))
  <2>3. /\ a \in Seq(Keywords) /\ Len(a) = Len(p)
        /\ b \in Seq(Keywords) /\ Len(b) = Len(q) /\ at = a \o b
    <3>1. Len(p) \in 0 .. Len(at) /\ Len(at) - Len(p) = Len(q)
      BY <2>1, <2>2
    <3>. QED
      BY <2>2, <3>1, Halving
  <2>. HIDE DEF a, b
  <2>4. a \in InstancesFrom(v, p) /\ b \in InstancesFrom(Walk(v, a), q)
    BY <1>1, <2>3, InstanceConcat
  <2>. QED
    BY <2>3, <2>4
<1>2. ASSUME NEW a \in InstancesFrom(v, p), NEW b \in InstancesFrom(Walk(v, a), q)
      PROVE  a \o b \in InstancesFrom(v, p \o q)
  <2>1. a \in Seq(Keywords) /\ Len(a) = Len(p)
    BY InstanceFits
  <2>2. b \in Seq(Keywords) /\ Len(b) = Len(q)
    BY InstanceFits
  <2>. QED
    BY <2>1, <2>2, InstanceConcat
<1>. QED
  BY <1>1, <1>2 DEF IsComposed

\* The keywords that one part of a path may be read as.
Readings(v, part) ==
    {k \in Keywords : (IF part = Star THEN k \in Keys(v) ELSE k = part) /\ Get(v, k) # Failure}

(* The empty path has one instance, a longer one those of the path before   *)
(* its last part, with every choice for that.                               *)
LEMMA InstanceAppend ==
    ASSUME NEW v \in Anything, NEW p \in Seq(Parts), NEW part \in Parts
    PROVE  /\ v # Failure => InstancesFrom(v, <<>>) = {<<>>}
           /\ \A at : at \in InstancesFrom(v, Append(p, part)) <=>
                  \E a \in InstancesFrom(v, p) :
                      \E k \in Readings(Walk(v, a), part) : at = Append(a, k)
<1>1. ASSUME v # Failure PROVE InstancesFrom(v, <<>>) = {<<>>}
  <2>1. <<>> \in Seq(Parts) /\ <<>> \in Seq(Keywords) /\ Len(<<>>) = 0
    OBVIOUS
  <2>2. Walk(v, <<>>) = v
    BY <2>1, WalkFurther
  <2>3. <<>> \in InstancesFrom(v, <<>>)
    <3> DEFINE none == <<>>
    <3>1. none \in Seq(Parts) /\ none \in Seq(Keywords) /\ Len(none) = 0 /\ Walk(v, none) # Failure
      BY <1>1, <2>2
    <3>. HIDE DEF none
    <3>2. \A n \in 1 .. Len(none) : FitsAt(v, none, none, n)
      BY <3>1
    <3>3. none \in InstancesFrom(v, none)
      BY <3>1, <3>2, InstanceFits
    <3>. QED
      BY <3>3 DEF none
  <2>4. ASSUME NEW at \in InstancesFrom(v, <<>>) PROVE at = <<>>
    <3>1. at \in Seq(Keywords) /\ Len(at) = 0
      BY <2>1, InstanceFits
    <3>. QED
      BY <3>1
  <2>. QED
    BY <2>3, <2>4
<1>2. ASSUME NEW w \in Anything, NEW b
      PROVE  b \in InstancesFrom(w, <<part>>) <=> \E k \in Readings(w, part) : b = <<k>>
  <2>1. <<part>> \in Seq(Parts) /\ Len(<<part>>) = 1 /\ <<part>>[1] = part
    OBVIOUS
  <2>2. ASSUME NEW k \in Keywords
        PROVE  <<k>> \in InstancesFrom(w, <<part>>) <=> k \in Readings(w, part)
    <3> DEFINE this == <<part>>
               none == <<>>
               one == <<k>>
    <3>0. none \in Seq(Keywords)
      OBVIOUS
    <3>1. /\ this \in Seq(Parts) /\ Len(this) = 1 /\ this[1] = part
          /\ one \in Seq(Keywords) /\ Len(one) = 1 /\ one[1] = k /\ SubSeq(one, 1, 1 - 1) = none
          /\ one = Append(none, k) /\ none \in Seq(Keywords)
      OBVIOUS
    <3>. HIDE DEF this, one
    <3>2. Walk(w, none) = w
      BY WalkFurther, <3>1
    <3>. HIDE DEF none
    <3>3. Walk(w, one) = Get(w, k)
      <4>1. Walk(w, Append(none, k)) = Get(Walk(w, none), k)
        BY <3>0, WalkFurther
      <4>. QED
        BY <3>1, <3>2, <4>1
    <3>4. FitsAt(w, this, one, 1) <=> IF part = Star THEN k \in Keys(w) ELSE k = part
      BY <3>1, <3>2 DEF FitsAt
    <3>5. (\A n \in 1 .. Len(this) : FitsAt(w, this, one, n)) <=> FitsAt(w, this, one, 1)
      BY <3>1
    <3>6. one \in InstancesFrom(w, this) <=> Get(w, k) # Failure /\ FitsAt(w, this, one, 1)
      BY <3>1, <3>3, <3>5, InstanceFits
    <3>7. one \in InstancesFrom(w, this) <=> k \in Readings(w, part)
      BY <3>4, <3>6 DEF Readings
    <3>. QED
      BY <3>7 DEF one, this
  <2>3. ASSUME b \in InstancesFrom(w, <<part>>) PROVE \E k \in Keywords : b = <<k>>
    <3>1. b \in Seq(Keywords) /\ Len(b) = 1
      BY <2>1, <2>3, InstanceFits
    <3>2. b = <<b[1]>> /\ b[1] \in Keywords
      BY <3>1
    <3>. QED
      BY <3>2
  <2>. QED
    BY <2>2, <2>3 DEF Readings
<1> DEFINE this == <<part>>
<1>3. /\ Append(p, part) = p \o this /\ this \in Seq(Parts)
      /\ \A a \in Seq(Keywords), k \in Keywords : Append(a, k) = a \o <<k>>
  BY AppendIsConcat
<1>4. \A w \in Anything : \A b : b \in InstancesFrom(w, this) <=> \E k \in Readings(w, part) : b = <<k>>
  BY <1>2
<1>. HIDE DEF this
<1>5. ASSUME NEW at
      PROVE  at \in InstancesFrom(v, Append(p, part)) <=>
                 \E a \in InstancesFrom(v, p) :
                     \E k \in Readings(Walk(v, a), part) : at = Append(a, k)
  <2>0. at \in InstancesFrom(v, p \o this) <=> IsComposed(v, p, this, at)
    BY <1>3, InstanceSplits
  <2>1. at \in InstancesFrom(v, p \o this) <=>
            \E a \in InstancesFrom(v, p) :
                \E b \in InstancesFrom(Walk(v, a), this) : at = a \o b
    BY <2>0 DEF IsComposed
  <2>2. ASSUME NEW a \in InstancesFrom(v, p)
        PROVE  (\E b \in InstancesFrom(Walk(v, a), this) : at = a \o b)
                   <=> \E k \in Readings(Walk(v, a), part) : at = Append(a, k)
    <3>1. a \in Seq(Keywords)
      BY InstanceFits
    <3>2. Walk(v, a) \in Anything
      BY <3>1, WalkType
    <3>3. \A k \in Readings(Walk(v, a), part) : Append(a, k) = a \o <<k>>
      BY <1>3, <3>1 DEF Readings
    <3> DEFINE w == Walk(v, a)
    <3>. HIDE DEF w
    <3>4. \A b : b \in InstancesFrom(w, this) <=> \E k \in Readings(w, part) : b = <<k>>
      BY <1>4, <3>2 DEF w
    <3>5. (\E b \in InstancesFrom(w, this) : at = a \o b)
              <=> \E k \in Readings(w, part) : at = a \o <<k>>
      BY <3>4
    <3>. QED
      BY <3>3, <3>5 DEF w
  <2>. QED
    BY <1>3, <2>1, <2>2
<1>. QED
  BY <1>1, <1>5

-----------------------------------------------------------------------------
(* Rows                                                                     *)

\* The rows that the instances of a path lead to from a place and its value.
RowsAlong(at, v, path) == {Row(at \o a, Walk(v, a)) : a \in InstancesFrom(v, path)}

(* One part of a path leads a row to one row for each way to read it, and   *)
(* to none where it is a dead end.                                          *)
LEMMA OnwardIsReadings ==
    ASSUME NEW at, NEW v \in Anything, NEW part \in Parts
    PROVE  /\ DeadEnd(v, part, TRUE) => Readings(v, part) = {}
           /\ ~DeadEnd(v, part, TRUE) =>
                  Onward(Row(at, v), part) = {Row(Append(at, k), Get(v, k)) : k \in Readings(v, part)}
<1>1. CASE part = Star
  <2>1. Keys(v) = Readings(v, part)
    BY <1>1, KeysLead DEF Readings
  <2>2. ~Collection(v) => Keys(v) = {}
    BY DEF Collection, Keys
  <2>3. Onward(Row(at, v), part) = {Row(Append(at, k), Get(v, k)) : k \in Keys(v)}
    BY <1>1 DEF Onward, Children, Step, Row
  <2>. QED
    BY <1>1, <2>1, <2>2, <2>3 DEF DeadEnd
<1>2. CASE part # Star
  <2>1. DeadEnd(v, part, TRUE) <=> Get(v, part) = Failure
    BY <1>2 DEF DeadEnd
  <2>2. Get(v, part) # Failure => Readings(v, part) = {part}
    BY <1>2, GetType DEF Readings
  <2>3. Get(v, part) = Failure => Readings(v, part) = {}
    BY <1>2 DEF Readings
  <2>4. Onward(Row(at, v), part) = {Row(Append(at, part), Get(v, part))}
    BY <1>2 DEF Onward, Step, Row
  <2>. QED
    BY <2>1, <2>2, <2>3, <2>4
<1>. QED
  BY <1>1, <1>2

\* The rows that one part of a path leads to, the dead ends left out.
FromLive(rows, part) == UNION {Onward(r, part) : r \in {r \in rows : ~DeadEnd(r.is, part, TRUE)}}

(* The rows of a path come from those of the path before its last part, the *)
(* dead ends left out; the empty path stays where it is.                    *)
LEMMA RowsAppend ==
    ASSUME NEW at \in Seq(Keywords), NEW v \in Anything, v # Failure,
           NEW p \in Seq(Parts), NEW part \in Parts
    PROVE  /\ RowsAlong(at, v, <<>>) = {Row(at, v)}
           /\ RowsAlong(at, v, Append(p, part)) = FromLive(RowsAlong(at, v, p), part)
<1>1. RowsAlong(at, v, <<>>) = {Row(at, v)}
  <2>1. InstancesFrom(v, <<>>) = {<<>>}
    BY InstanceAppend
  <2>2. at \o <<>> = at /\ <<>> \in Seq(Keywords)
    OBVIOUS
  <2>3. Walk(v, <<>>) = v
    BY <2>2, WalkFurther
  <2>. QED
    BY <2>1, <2>2, <2>3 DEF RowsAlong
<1> DEFINE Live == {r \in RowsAlong(at, v, p) : ~DeadEnd(r.is, part, TRUE)}
<1>2. ASSUME NEW a \in InstancesFrom(v, p)
      PROVE  /\ a \in Seq(Keywords) /\ Walk(v, a) \in Anything
             /\ \A k \in Keywords : /\ at \o Append(a, k) = Append(at \o a, k)
                                    /\ Walk(v, Append(a, k)) = Get(Walk(v, a), k)
  <2>1. a \in Seq(Keywords)
    BY InstanceFits
  <2>2. Walk(v, a) \in Anything
    BY <2>1, WalkType
  <2>3. \A k \in Keywords : Walk(v, Append(a, k)) = Get(Walk(v, a), k)
    BY <2>1, WalkFurther
  <2>4. \A k \in Keywords : at \o Append(a, k) = Append(at \o a, k)
    BY <2>1
  <2>. QED
    BY <2>1, <2>2, <2>3, <2>4
<1>3. ASSUME NEW row \in RowsAlong(at, v, Append(p, part))
      PROVE  \E r \in Live : row \in Onward(r, part)
  <2>1. PICK b \in InstancesFrom(v, Append(p, part)) : row = Row(at \o b, Walk(v, b))
    BY DEF RowsAlong
  <2>2. PICK a \in InstancesFrom(v, p), k \in Keywords :
            k \in Readings(Walk(v, a), part) /\ b = Append(a, k)
    BY InstanceAppend DEF Readings
  <2> DEFINE w == Walk(v, a)
             r == Row(at \o a, w)
  <2>3. row = Row(Append(at \o a, k), Get(w, k))
    BY <1>2, <2>1, <2>2
  <2>4. r \in RowsAlong(at, v, p) /\ r.is = w
    BY DEF RowsAlong, Row
  <2>5. w \in Anything
    BY <1>2
  <2>. HIDE DEF w
  <2>6. ~DeadEnd(w, part, TRUE)
    BY <2>2, <2>5, OnwardIsReadings DEF w
  <2>7. row \in Onward(r, part)
    <3>1. Onward(Row(at \o a, w), part) = {Row(Append(at \o a, m), Get(w, m)) : m \in Readings(w, part)}
      BY <2>5, <2>6, OnwardIsReadings
    <3>2. k \in Readings(w, part)
      BY <2>2 DEF w
    <3>. QED
      BY <2>3, <3>1, <3>2
  <2>. QED
    BY <2>4, <2>6, <2>7
<1>4. ASSUME NEW r \in Live, NEW row \in Onward(r, part)
      PROVE  row \in RowsAlong(at, v, Append(p, part))
  <2>1. PICK a \in InstancesFrom(v, p) : r = Row(at \o a, Walk(v, a))
    BY DEF RowsAlong
  <2> DEFINE w == Walk(v, a)
  <2>2. w \in Anything /\ ~DeadEnd(w, part, TRUE)
    BY <1>2, <2>1 DEF Row
  <2>. HIDE DEF w
  <2>3. row \in {Row(Append(at \o a, k), Get(w, k)) : k \in Readings(w, part)}
    <3>1. Onward(Row(at \o a, w), part) = {Row(Append(at \o a, k), Get(w, k)) : k \in Readings(w, part)}
      BY <2>2, OnwardIsReadings
    <3>. QED
      BY <2>1, <3>1 DEF w
  <2>4. PICK k \in Readings(w, part) : row = Row(Append(at \o a, k), Get(w, k))
    BY <2>3
  <2>5. k \in Keywords
    BY DEF Readings
  <2>6. row = Row(at \o Append(a, k), Walk(v, Append(a, k)))
    BY <1>2, <2>4, <2>5 DEF w
  <2>7. Append(a, k) \in InstancesFrom(v, Append(p, part))
    BY InstanceAppend DEF w
  <2>. QED
    BY <2>6, <2>7 DEF RowsAlong
<1>5. RowsAlong(at, v, Append(p, part)) = UNION {Onward(r, part) : r \in Live}
  <2>. HIDE DEF Live
  <2>. QED
    BY <1>3, <1>4
<1>. QED
  BY <1>1, <1>5 DEF FromLive

(* The parts of a path up to one of them.                                   *)
LEMMA SoFar ==
    ASSUME NEW path \in Seq(Parts), NEW n \in 1 .. Len(path)
    PROVE  /\ SubSeq(path, 1, 0) = <<>> /\ SubSeq(path, 1, Len(path)) = path
           /\ SubSeq(path, 1, n) \in Seq(Parts) /\ SubSeq(path, 1, n - 1) \in Seq(Parts)
           /\ path[n] \in Parts /\ n - 1 \in 0 .. Len(path) /\ n \in 0 .. Len(path)
           /\ SubSeq(path, 1, n) = Append(SubSeq(path, 1, n - 1), path[n])
OBVIOUS

\* The function that the tolerant search is defined by.
Tolerated(row, path, rows) ==
    rows = [n \in 0 .. Len(path) |-> IF n = 0 THEN {row} ELSE FromLive(rows[n - 1], path[n])]

ToleratedByParts(row, path, g) ==
    g[0] = {row} /\ \A n \in 1 .. Len(path) : g[n] = FromLive(g[n - 1], path[n])

(* Such a function goes on part by part.                                    *)
LEMMA ToleratedParts ==
    ASSUME NEW row, NEW path, Len(path) \in Nat, NEW g, Tolerated(row, path, g)
    PROVE  ToleratedByParts(row, path, g)
<1> DEFINE h == g
<1>1. g = [n \in 0 .. Len(path) |-> IF n = 0 THEN {row} ELSE FromLive(h[n - 1], path[n])]
  BY DEF Tolerated
<1>. HIDE DEF h
<1>2. g[0] = {row} /\ \A n \in 1 .. Len(path) : g[n] = FromLive(h[n - 1], path[n])
  BY <1>1
<1>. QED
  BY <1>2 DEF h, ToleratedByParts

(* The rows of a path, part by part.                                        *)
LEMMA RowsSoFar ==
    ASSUME NEW at \in Seq(Keywords), NEW v \in Anything, v # Failure, NEW path \in Seq(Parts)
    PROVE  /\ RowsAlong(at, v, SubSeq(path, 1, 0)) = {Row(at, v)}
           /\ \A n \in 1 .. Len(path) :
                 RowsAlong(at, v, SubSeq(path, 1, n))
                     = FromLive(RowsAlong(at, v, SubSeq(path, 1, n - 1)), path[n])
<1>1. RowsAlong(at, v, SubSeq(path, 1, 0)) = {Row(at, v)}
  <2>1. SubSeq(path, 1, 0) = <<>> /\ Star \in Parts /\ <<>> \in Seq(Parts)
    BY DEF Parts
  <2>. QED
    BY <2>1, RowsAppend
<1>2. ASSUME NEW n \in 1 .. Len(path)
      PROVE  RowsAlong(at, v, SubSeq(path, 1, n))
                 = FromLive(RowsAlong(at, v, SubSeq(path, 1, n - 1)), path[n])
  <2> DEFINE p == SubSeq(path, 1, n - 1)
  <2>1. SubSeq(path, 1, n) = Append(p, path[n]) /\ p \in Seq(Parts) /\ path[n] \in Parts
    BY SoFar
  <2>. HIDE DEF p
  <2>2. RowsAlong(at, v, Append(p, path[n])) = FromLive(RowsAlong(at, v, p), path[n])
    BY <2>1, RowsAppend
  <2>. QED
    BY <2>1, <2>2 DEF p
<1>. QED
  BY <1>1, <1>2

(* The tolerant search comes to the rows of the path.                       *)
LEMMA TolerantRowsAlong ==
    ASSUME NEW at \in Seq(Keywords), NEW v \in Anything, v # Failure, NEW path \in Seq(Parts)
    PROVE  TolerantRows(Row(at, v), path) = RowsAlong(at, v, path)
<1> DEFINE N == Len(path)
           row == Row(at, v)
           f == [n \in 0 .. N |-> RowsAlong(at, v, SubSeq(path, 1, n))]
           g == CHOOSE rows : Tolerated(row, path, rows)
<1>0. N \in Nat
  OBVIOUS
<1>w. SubSeq(path, 1, N) = path
  OBVIOUS
<1>1. f[0] = {row}
  BY <1>0, RowsSoFar
<1>2. ASSUME NEW n \in 1 .. N PROVE f[n] = FromLive(f[n - 1], path[n])
  BY <1>0, RowsSoFar
<1>3. Tolerated(row, path, f)
  <2>1. f = [n \in 0 .. N |-> f[n]]
    OBVIOUS
  <2>. HIDE DEF f
  <2>. QED
    BY <1>0, <1>1, <1>2, <2>1 DEF Tolerated
<1>4. TolerantRows(row, path) = g[N]
  BY DEF TolerantRows, Tolerated, FromLive
<1>5. Tolerated(row, path, g)
  <2>. HIDE DEF f
  <2>. QED
    BY <1>3
<1>. HIDE DEF f, g, row
<1>6. g[0] = {row} /\ \A n \in 1 .. N : g[n] = FromLive(g[n - 1], path[n])
  <2>1. ToleratedByParts(row, path, g)
    BY <1>0, <1>5, ToleratedParts
  <2>. QED
    BY <2>1 DEF ToleratedByParts
<1>7. Alike(f, g, N)
  <2>. HIDE DEF N
  <2>. QED
    BY <1>1, <1>2, <1>6 DEF Alike
<1>8. f[N] = g[N]
  <2>. HIDE DEF N
  <2>. QED
    BY <1>0, <1>7, SameEnd
<1>9. f[N] = RowsAlong(at, v, path)
  <2>1. f[N] = RowsAlong(at, v, SubSeq(path, 1, N))
    <3>. HIDE DEF N
    <3>. QED
      BY <1>0 DEF f
  <2>. QED
    BY <1>w, <2>1, Zenon
<1>. QED
  BY <1>0, <1>4, <1>8, <1>9 DEF row

\* One part of the strict search, and the function that it is defined by.
StrictStep(found, part, nulls) ==
    IF found.failed \/ \E r \in found.rows : DeadEnd(r.is, part, nulls) THEN Failed
    ELSE Found(UNION {Onward(r, part) : r \in found.rows})
Strict(row, path, nulls, found) ==
    found = [n \in 0 .. Len(path) |->
                IF n = 0 THEN Found({row}) ELSE StrictStep(found[n - 1], path[n], nulls)]

StrictByParts(row, path, nulls, g) ==
    /\ g[0] = Found({row})
    /\ \A n \in 1 .. Len(path) : g[n] = StrictStep(g[n - 1], path[n], nulls)

(* Such a function goes on part by part.                                    *)
LEMMA StrictParts ==
    ASSUME NEW row, NEW path, NEW nulls, Len(path) \in Nat, NEW g, Strict(row, path, nulls, g)
    PROVE  StrictByParts(row, path, nulls, g)
<1> DEFINE h == g
<1>1. g = [n \in 0 .. Len(path) |->
              IF n = 0 THEN Found({row}) ELSE StrictStep(h[n - 1], path[n], nulls)]
  BY DEF Strict
<1>. HIDE DEF h
<1>2. /\ g[0] = Found({row})
      /\ \A n \in 1 .. Len(path) : g[n] = StrictStep(h[n - 1], path[n], nulls)
  BY <1>1
<1>. QED
  BY <1>2 DEF h, StrictByParts

(* A function that goes on part by part is the one that defines the search. *)
LEMMA StrictWhole ==
    ASSUME NEW row, NEW path, NEW nulls, Len(path) \in Nat, NEW f, f = [n \in 0 .. Len(path) |-> f[n]],
           f[0] = Found({row}),
           \A n \in 1 .. Len(path) : f[n] = StrictStep(f[n - 1], path[n], nulls)
    PROVE  Strict(row, path, nulls, f)
BY DEF Strict

\* No row comes to a dead end in the first n parts of the path.
Open(at, v, path, nulls, n) ==
    \A m \in 1 .. n : \A r \in RowsAlong(at, v, SubSeq(path, 1, m - 1)) :
        ~DeadEnd(r.is, path[m], nulls)

(* The strict search fails, or it comes to the rows of the path and met no  *)
(* dead end.                                                                *)
LEMMA StrictRowsAlong ==
    ASSUME NEW at \in Seq(Keywords), NEW v \in Anything, v # Failure, NEW path \in Seq(Parts),
           NEW nulls \in BOOLEAN, ~StrictRows(Row(at, v), path, nulls).failed
    PROVE  /\ StrictRows(Row(at, v), path, nulls) = Found(RowsAlong(at, v, path))
           /\ Open(at, v, path, nulls, Len(path))
<1> DEFINE N == Len(path)
           row == Row(at, v)
           R(n) == RowsAlong(at, v, SubSeq(path, 1, n))
           O(n) == Open(at, v, path, nulls, n)
           f == [n \in 0 .. N |-> IF O(n) THEN Found(R(n)) ELSE Failed]
           g == CHOOSE found : Strict(row, path, nulls, found)
<1>0. N \in Nat
  OBVIOUS
<1>w. SubSeq(path, 1, N) = path
  OBVIOUS
<1>1. f[0] = Found({row})
  <2>1. R(0) = {row}
    BY RowsSoFar
  <2>2. O(0)
    BY DEF Open
  <2>3. f[0] = IF O(0) THEN Found(R(0)) ELSE Failed
    <3>. HIDE DEF R, O
    <3>. QED
      BY <1>0
  <2>. HIDE DEF f, R, O
  <2>. QED
    BY <2>1, <2>2, <2>3
<1>2. ASSUME NEW n \in 1 .. N PROVE f[n] = StrictStep(f[n - 1], path[n], nulls)
  <2> DEFINE p == path[n]
  <2>1. R(n) = FromLive(R(n - 1), p)
    BY RowsSoFar
  <2>2. O(n) <=> O(n - 1) /\ \A r \in R(n - 1) : ~DeadEnd(r.is, p, nulls)
    <3>1. \A m \in 1 .. n : m = n \/ m \in 1 .. n - 1
      BY <1>0
    <3>2. n \in 1 .. n /\ \A m \in 1 .. n - 1 : m \in 1 .. n
      BY <1>0
    <3>. QED
      BY <3>1, <3>2 DEF Open
  <2>3. n \in 0 .. N /\ n - 1 \in 0 .. N
    BY <1>0
  <2>4. /\ f[n] = IF O(n) THEN Found(R(n)) ELSE Failed
        /\ f[n - 1] = IF O(n - 1) THEN Found(R(n - 1)) ELSE Failed
    <3>. HIDE DEF O, R
    <3>. QED
      BY <2>3
  <2>. HIDE DEF f, R, O, p
  <2>5. ASSUME \A r \in R(n - 1) : ~DeadEnd(r.is, p, nulls)
        PROVE  FromLive(R(n - 1), p) = UNION {Onward(r, p) : r \in R(n - 1)}
    <3>1. ASSUME NEW r \in R(n - 1) PROVE ~DeadEnd(r.is, p, TRUE)
      BY <2>5 DEF DeadEnd
    <3>. QED
      BY <3>1 DEF FromLive
  <2>6. CASE ~O(n - 1)
    BY <2>2, <2>4, <2>6 DEF StrictStep, Failed
  <2>7. CASE O(n - 1) /\ \E r \in R(n - 1) : DeadEnd(r.is, p, nulls)
    BY <2>2, <2>4, <2>7 DEF StrictStep, Failed, Found, p
  <2>8. CASE O(n - 1) /\ \A r \in R(n - 1) : ~DeadEnd(r.is, p, nulls)
    <3>1. f[n] = Found(UNION {Onward(r, p) : r \in R(n - 1)})
      BY <2>1, <2>2, <2>4, <2>5, <2>8
    <3>2. f[n - 1].failed = FALSE /\ f[n - 1].rows = R(n - 1)
      BY <2>4, <2>8 DEF Found
    <3>. QED
      BY <2>8, <3>1, <3>2 DEF StrictStep, p
  <2>. QED
    BY <2>6, <2>7, <2>8
<1>3. Strict(row, path, nulls, f)
  <2>1. f = [n \in 0 .. N |-> f[n]]
    OBVIOUS
  <2>. HIDE DEF f
  <2>. QED
    BY <1>0, <1>1, <1>2, <2>1, StrictWhole
<1>4. StrictRows(row, path, nulls) = g[N]
  BY DEF StrictRows, Strict, StrictStep
<1>5. Strict(row, path, nulls, g)
  <2>. HIDE DEF f
  <2>. QED
    BY <1>3
<1>. HIDE DEF f, g, row
<1>6. g[0] = Found({row}) /\ \A n \in 1 .. N : g[n] = StrictStep(g[n - 1], path[n], nulls)
  <2>1. StrictByParts(row, path, nulls, g)
    BY <1>0, <1>5, StrictParts
  <2>. QED
    BY <2>1 DEF StrictByParts
<1>7. Alike(f, g, N)
  <2>. HIDE DEF N
  <2>. QED
    BY <1>1, <1>2, <1>6 DEF Alike
<1>8. f[N] = g[N]
  <2>. HIDE DEF N
  <2>. QED
    BY <1>0, <1>7, SameEnd
<1>9. f[N] = IF O(N) THEN Found(R(N)) ELSE Failed
  <2>. HIDE DEF N, O, R
  <2>. QED
    BY <1>0 DEF f
<1>10. O(N) /\ StrictRows(row, path, nulls) = Found(R(N))
  <2>1. ~StrictRows(row, path, nulls).failed
    BY DEF row
  <2>2. StrictRows(row, path, nulls) = f[N]
    BY <1>0, <1>4, <1>8
  <2>. HIDE DEF O, R, N
  <2>. QED
    BY <1>9, <2>1, <2>2 DEF Failed
<1>11. R(N) = RowsAlong(at, v, path)
  BY <1>w, Zenon
<1>. QED
  BY <1>10, <1>11 DEF row

(* Where no row comes to a dead end, no instance of the path does.          *)
LEMMA OpenIsUnbroken ==
    ASSUME NEW at, NEW v, NEW path \in Seq(Parts), NEW nulls \in BOOLEAN,
           Open(at, v, path, nulls, Len(path))
    PROVE  UnbrokenFrom(v, path)
<1> SUFFICES ASSUME NEW n \in DOMAIN path, NEW a \in InstancesFrom(v, SubSeq(path, 1, n - 1))
             PROVE  IF path[n] = Star THEN Collection(Walk(v, a))
                    ELSE Get(Walk(v, a), path[n]) # Failure
  BY DEF UnbrokenFrom
<1> DEFINE r == Row(at \o a, Walk(v, a))
<1>1. n \in 1 .. Len(path)
  OBVIOUS
<1>2. r \in RowsAlong(at, v, SubSeq(path, 1, n - 1)) /\ r.is = Walk(v, a)
  BY DEF RowsAlong, Row
<1>. HIDE DEF r
<1>3. ~DeadEnd(Walk(v, a), path[n], nulls)
  BY <1>1, <1>2 DEF Open
<1>. QED
  BY <1>3 DEF DeadEnd

(* Two paths in a row are unbroken if the first is, and the second from     *)
(* wherever the first leads.                                                *)
LEMMA UnbrokenConcat ==
    ASSUME NEW v \in Anything, NEW p \in Seq(Parts), NEW q \in Seq(Parts), UnbrokenFrom(v, p),
           \A a \in InstancesFrom(v, p) : UnbrokenFrom(Walk(v, a), q)
    PROVE  UnbrokenFrom(v, p \o q)
<1> DEFINE N == Len(p)
           M == Len(q)
           both == p \o q
<1>1. both \in Seq(Parts) /\ Len(both) = N + M /\ N \in Nat /\ M \in Nat /\ DOMAIN both = 1 .. N + M
      /\ DOMAIN p = 1 .. N /\ DOMAIN q = 1 .. M
  OBVIOUS
<1> SUFFICES ASSUME NEW n \in 1 .. N + M, NEW at \in InstancesFrom(v, SubSeq(both, 1, n - 1))
             PROVE  IF both[n] = Star THEN Collection(Walk(v, at))
                    ELSE Get(Walk(v, at), both[n]) # Failure
  BY <1>1 DEF UnbrokenFrom
<1>2. CASE n \in 1 .. N
  <2>1. both[n] = p[n] /\ SubSeq(both, 1, n - 1) = SubSeq(p, 1, n - 1)
    BY <1>2, FirstHalf
  <2>. HIDE DEF both, N
  <2>. QED
    BY <1>1, <1>2, <2>1 DEF UnbrokenFrom
<1>3. CASE n \in N + 1 .. N + M
  <2> DEFINE j == n - 1
             m == n - N
             before == SubSeq(q, 1, m - 1)
  <2>1. j \in N .. N + M /\ j - N = m - 1 /\ m \in 1 .. M
    BY <1>1, <1>3
  <2>2. both[n] = q[m]
    BY <1>3, SecondHalf
  <2>. HIDE DEF j
  <2>3. SubSeq(both, 1, j) = p \o SubSeq(q, 1, j - N)
    BY <2>1, Prefix
  <2>. HIDE DEF m
  <2>4. SubSeq(both, 1, j) = p \o before /\ before \in Seq(Parts)
    <3>1. before \in Seq(Parts)
      <4>1. m \in 1 .. Len(q)
        BY <2>1
      <4>. QED
        BY <4>1
    <3>2. SubSeq(both, 1, j) = p \o SubSeq(q, 1, m - 1)
      <4>. HIDE DEF both
      <4>. QED
        BY <2>1, <2>3, Zenon
    <3>. QED
      BY <3>1, <3>2, Zenon
  <2>. HIDE DEF before, both
  <2>5. at \in InstancesFrom(v, p \o before)
    BY <2>4 DEF j
  <2>p. PICK a \in InstancesFrom(v, p) : \E b \in InstancesFrom(Walk(v, a), before) : at = a \o b
    <3>1. IsComposed(v, p, before, at)
      BY <2>4, <2>5, InstanceSplits
    <3>. QED
      BY <3>1 DEF IsComposed
  <2>6. PICK b \in InstancesFrom(Walk(v, a), before) : at = a \o b
    BY <2>p
  <2>7. a \in Seq(Keywords)
    BY InstanceFits
  <2>8. b \in Seq(Keywords)
    BY <2>4, InstanceFits
  <2>9. Walk(v, at) = Walk(Walk(v, a), b)
    BY <2>6, <2>7, <2>8, WalkConcat
  <2>10. UnbrokenFrom(Walk(v, a), q)
    OBVIOUS
  <2>11. IF q[m] = Star THEN Collection(Walk(Walk(v, a), b))
         ELSE Get(Walk(Walk(v, a), b), q[m]) # Failure
    BY <1>1, <2>1, <2>10 DEF UnbrokenFrom, before
  <2>. QED
    BY <2>2, <2>9, <2>11
<1>4. n \in 1 .. N \/ n \in N + 1 .. N + M
  BY <1>1
<1>. QED
  BY <1>2, <1>3, <1>4

(* The rows of a path from the root of a document are its instances, each   *)
(* with its node.                                                           *)
LEMMA RowsOfDocument ==
    ASSUME doc \in Documents, NEW path \in Seq(Parts)
    PROVE  /\ RowsAlong(<<>>, doc, path) = {Row(a, NodeAt(a)) : a \in Instances(path)}
           /\ doc \in Values /\ IsObject(doc) /\ doc # Failure
           /\ \A a \in Instances(path) : a \in Seq(Keywords) /\ NodeAt(a) \in Values
<1>1. doc \in Values /\ IsObject(doc) /\ doc # Failure
  BY DocumentsAssumption DEF Failure, IsObject
<1>2. ASSUME NEW a \in Instances(path) PROVE a \in Seq(Keywords) /\ NodeAt(a) \in Values
  <2>1. a \in Seq(Keywords) /\ Walk(doc, a) # Failure
    BY InstanceFits DEF Instances
  <2>2. Walk(doc, a) \in Anything
    BY <1>1, <2>1, WalkType DEF Anything
  <2>. QED
    BY <2>1, <2>2 DEF Anything, NodeAt
<1>3. \A a \in Instances(path) : <<>> \o a = a
  BY <1>2
<1>. QED
  BY <1>1, <1>2, <1>3 DEF RowsAlong, Instances, NodeAt

-----------------------------------------------------------------------------
(* The tolerant extraction                                                  *)

(* What a tolerant definition takes out of a document.                      *)
LEMMA TolerantResult ==
    ASSUME doc \in Documents, def \in Definitions, result = Extraction
    PROVE  TolerantTakesWhatIsThere
<1> SUFFICES ASSUME ~Extended, ~def.allowEmpty
             PROVE  LET there == {at \in Instances(def.path) : Value(NodeAt(at \o def.key)) # None} IN
                    /\ Taken = there
                    /\ OneSampleEach
                    /\ \A s \in result.rows :
                          /\ s.value = Value(NodeAt(s.at \o def.key))
                          /\ \A l \in def.labels :
                                s.labels[l] # None => s.labels[l] = NodeAt(Append(s.at, l))
                    /\ result.failed <=> there = {}
  BY DEF TolerantTakesWhatIsThere
<1> DEFINE there == {at \in Instances(def.path) : Value(NodeAt(at \o def.key)) # None}
           rows == RowsAlong(<<>>, doc, def.path)
           Sampled(at) == LegacySample(Row(at, NodeAt(at)))
<1>1. def.path \in Seq(Parts) /\ def.key \in Seq(Parts) /\ def.labels \subseteq Parts
  BY DefinitionsAssumption
<1>2. rows = {Row(a, NodeAt(a)) : a \in Instances(def.path)} /\ doc \in Values /\ doc # Failure
  BY <1>1, RowsOfDocument
<1>3. result = GetMetrics(rows)
  <2>1. <<>> \in Seq(Keywords) /\ doc \in Anything
    BY <1>2 DEF Anything
  <2>2. TolerantRows(Row(<<>>, doc), def.path) = rows
    BY <1>1, <1>2, <2>1, TolerantRowsAlong
  <2>. HIDE DEF rows
  <2>. QED
    BY <2>2 DEF Extraction, GetMetricsWithEmpty
<1>4. ASSUME NEW a \in Instances(def.path)
      PROVE  /\ a \in Seq(Keywords)
             /\ LegacyValue(Row(a, NodeAt(a))) = Value(NodeAt(a \o def.key))
  <2>1. a \in Seq(Keywords)
    BY <1>1, RowsOfDocument
  <2>2. a \in Seq(Keywords \cup Parts) /\ def.key \in Seq(Keywords \cup Parts)
    BY <1>1, <2>1
  <2>3. Walk(doc, a \o def.key) = Walk(Walk(doc, a), def.key)
    BY <2>2, WalkConcat
  <2>. QED
    BY <2>1, <2>3 DEF LegacyValue, Row, NodeAt
<1>. HIDE DEF rows
<1>5. {row \in rows : LegacyValue(row) # None} = {Row(a, NodeAt(a)) : a \in there}
  BY <1>2, <1>4
<1> DEFINE samples == {Sampled(a) : a \in there}
<1>6. /\ there = {} => result = Failed
      /\ there # {} => result = Found(samples)
  BY <1>3, <1>5 DEF GetMetrics
<1>7. result.rows = samples /\ (result.failed <=> there = {})
  <2>1. there = {} => samples = {}
    OBVIOUS
  <2>. HIDE DEF samples, there
  <2>. QED
    BY <1>6, <2>1 DEF Failed, Found
<1>8. ASSUME NEW a \in there, NEW l \in def.labels, Sampled(a).labels[l] # None
      PROVE  Sampled(a).labels[l] = NodeAt(Append(a, l))
  <2>1. Sampled(a).labels[l] = LegacyLabel(Row(a, NodeAt(a)), l)
    BY DEF LegacySample
  <2>2. LegacyLabel(Row(a, NodeAt(a)), l) = Get(NodeAt(a), l)
    BY <1>8, <2>1 DEF LegacyLabel, Row, Get
  <2>3. a \in Seq(Keywords \cup Parts) /\ l \in Keywords \cup Parts
    BY <1>1, <1>4
  <2>4. NodeAt(Append(a, l)) = Get(NodeAt(a), l)
    BY <2>3, WalkFurther DEF NodeAt
  <2>. QED
    BY <2>1, <2>2, <2>4
<1>9. ASSUME NEW a \in there
      PROVE  Sampled(a).at = a /\ Sampled(a).value = Value(NodeAt(a \o def.key))
  BY <1>4 DEF LegacySample, Row
<1>. HIDE DEF Sampled
<1>10. Taken = there
  BY <1>7, <1>9 DEF Taken
<1>11. OneSampleEach
  BY <1>7, <1>9 DEF OneSampleEach
<1>12. ASSUME NEW s \in result.rows
       PROVE  /\ s.value = Value(NodeAt(s.at \o def.key))
              /\ \A l \in def.labels : s.labels[l] # None => s.labels[l] = NodeAt(Append(s.at, l))
  <2>1. PICK a \in there : s = Sampled(a)
    BY <1>7
  <2>. QED
    BY <1>8, <1>9, <2>1
<1>. QED
  BY <1>7, <1>10, <1>11, <1>12

-----------------------------------------------------------------------------
(* The strict extraction                                                    *)

(* A walk starts with the first part of the path.                           *)
LEMMA WalkFirst ==
    ASSUME NEW v, NEW S, NEW q \in Seq(S), q # <<>>
    PROVE  Walk(v, q) = Walk(Get(v, q[1]), Tail(q))
<1> DEFINE first == <<q[1]>>
           rest == Tail(q)
<1>1. q[1] \in S /\ rest \in Seq(S) /\ first \in Seq(S) /\ <<>> \in Seq(S)
  OBVIOUS
<1>2. q = first \o rest
  <2>1. first \o rest \in Seq(S) /\ Len(first \o rest) = Len(q)
    OBVIOUS
  <2>2. \A n \in 1 .. Len(q) : (first \o rest)[n] = q[n]
    OBVIOUS
  <2>. HIDE DEF first, rest
  <2>. QED
    BY <2>1, <2>2, SeqEqual
<1>3. Walk(v, first) = Get(v, q[1])
  <2> DEFINE none == <<>>
  <2>1. none \in Seq(S)
    OBVIOUS
  <2>2. first = Append(none, q[1])
    OBVIOUS
  <2>3. Walk(v, none) = v
    BY <2>1, WalkFurther
  <2>. HIDE DEF none, first
  <2>4. Walk(v, Append(none, q[1])) = Get(Walk(v, none), q[1])
    BY <1>1, <2>1, WalkFurther
  <2>. QED
    BY <2>2, <2>3, <2>4
<1>. HIDE DEF first, rest
<1>4. Walk(v, first \o rest) = Walk(Walk(v, first), rest)
  BY <1>1, WalkConcat
<1>. QED
  BY <1>2, <1>3, <1>4 DEF rest

(* A child that knows its parent leads where the parent does, or itself.    *)
LEMMA JoinedWalk ==
    ASSUME NEW p, NEW c, IsObject(c.is), Parent \notin DOMAIN c.is[2],
           NEW q \in Seq(Parts), q # <<>>
    PROVE  /\ Joined(p, c).at = c.at /\ IsObject(Joined(p, c).is)
           /\ Walk(Joined(p, c).is, q) = IF q[1] = Parent THEN Walk(p.is, Tail(q)) ELSE Walk(c.is, q)
<1> DEFINE j == Joined(p, c)
           fields == [k \in DOMAIN c.is[2] \cup {Parent} |->
                         IF k = Parent THEN p.is ELSE c.is[2][k]]
<1>1. j.at = c.at /\ j.is = <<"obj", fields>>
  BY DEF Joined, Row
<1>. HIDE DEF fields
<1>2. IsObject(j.is) /\ j.is[2] = fields
  BY <1>1 DEF IsObject
<1>. HIDE DEF j
<1>3. Get(j.is, q[1]) = IF q[1] = Parent THEN p.is ELSE Get(c.is, q[1])
  <2>1. ~IsArray(j.is) /\ ~IsArray(c.is)
    BY <1>2 DEF IsArray, IsObject
  <2>2. CASE q[1] = Parent
    BY <1>2, <2>2 DEF Get, fields
  <2>3. CASE q[1] # Parent /\ q[1] \in DOMAIN c.is[2]
    BY <1>2, <2>3 DEF Get, fields
  <2>4. CASE q[1] # Parent /\ q[1] \notin DOMAIN c.is[2]
    BY <1>2, <2>1, <2>4 DEF Get, fields
  <2>. QED
    BY <2>2, <2>3, <2>4
<1>4. Walk(j.is, q) = Walk(Get(j.is, q[1]), Tail(q)) /\ Walk(c.is, q) = Walk(Get(c.is, q[1]), Tail(q))
  BY WalkFirst
<1>. QED
  BY <1>1, <1>2, <1>3, <1>4 DEF j

\* A row stands for its place: its paths lead where they mean to lead.
RowMeans(r) ==
    /\ r.at \in Instances(Path)
    /\ r.is = NodeAt(r.at) \/ IsObject(r.is)
    /\ \A q \in Seq(Parts) \ {<<>>} : Walk(r.is, q) = NodeAt(Elsewhere(r.at, q))

\* The rows stand for the instances of the path, one for each.
RowsMean(rows) ==
    /\ \A r \in rows : RowMeans(r)
    /\ \A at \in Instances(Path) : \E r \in rows : r.at = at
    /\ \A r, s \in rows : r.at = s.at => r = s

(* The rows of a definition without a parent stand for its instances.       *)
LEMMA PlainRowsMean ==
    ASSUME doc \in Documents, def \in Definitions, def.parent = <<>>, NEW nulls \in BOOLEAN,
           ~StrictRows(Row(<<>>, doc), def.path, nulls).failed
    PROVE  /\ StrictRows(Row(<<>>, doc), def.path, nulls)
                  = Found({Row(a, NodeAt(a)) : a \in Instances(Path)})
           /\ Unbroken(Path)
           /\ RowsMean({Row(a, NodeAt(a)) : a \in Instances(Path)})
<1>1. def.path \in Seq(Parts) /\ Path = def.path
  <2>1. def.path \in Seq(Parts)
    BY DefinitionsAssumption
  <2>2. <<>> \o def.path = def.path
    BY <2>1
  <2>. QED
    BY <2>1, <2>2 DEF Path
<1>2. /\ RowsAlong(<<>>, doc, Path) = {Row(a, NodeAt(a)) : a \in Instances(Path)}
      /\ doc \in Anything /\ doc # Failure /\ <<>> \in Seq(Keywords)
      /\ \A a \in Instances(Path) : a \in Seq(Keywords)
  BY <1>1, RowsOfDocument DEF Anything
<1>3. /\ StrictRows(Row(<<>>, doc), def.path, nulls) = Found(RowsAlong(<<>>, doc, Path))
      /\ Open(<<>>, doc, Path, nulls, Len(Path))
  BY <1>1, <1>2, StrictRowsAlong
<1>4. Unbroken(Path)
  BY <1>1, <1>3, OpenIsUnbroken DEF Unbroken
<1>5. ASSUME NEW a \in Instances(Path), NEW q \in Seq(Parts)
      PROVE  Walk(NodeAt(a), q) = NodeAt(Elsewhere(a, q))
  <2>1. a \in Seq(Keywords \cup Parts) /\ q \in Seq(Keywords \cup Parts)
    BY <1>2
  <2>2. Walk(doc, a \o q) = Walk(Walk(doc, a), q)
    BY <2>1, WalkConcat
  <2>. QED
    BY <2>2 DEF NodeAt, Elsewhere
<1>6. RowsMean({Row(a, NodeAt(a)) : a \in Instances(Path)})
  <2> DEFINE rows == {Row(a, NodeAt(a)) : a \in Instances(Path)}
  <2>1. ASSUME NEW a \in Instances(Path) PROVE RowMeans(Row(a, NodeAt(a)))
    <3>1. Row(a, NodeAt(a)).at = a /\ Row(a, NodeAt(a)).is = NodeAt(a)
      BY DEF Row
    <3>. QED
      BY <1>5, <3>1 DEF RowMeans
  <2>2. \A a \in Instances(Path) : Row(a, NodeAt(a)).at = a
    BY DEF Row
  <2>3. \A r \in rows : RowMeans(r)
    BY <2>1
  <2>4. \A at \in Instances(Path) : \E r \in rows : r.at = at
    BY <2>2
  <2>5. \A r, s \in rows : r.at = s.at => r = s
    BY <2>2
  <2>. HIDE DEF rows
  <2>6. RowsMean(rows)
    BY <2>3, <2>4, <2>5 DEF RowsMean
  <2>. QED
    BY <2>6 DEF rows
<1>. QED
  BY <1>2, <1>3, <1>4, <1>6

(* A row of a child means its place below the parent.                       *)
LEMMA JoinedRowMeans ==
    ASSUME doc \in Documents, def \in Definitions, def.parent # <<>>,
           NEW a \in Instances(def.parent), NEW b \in InstancesFrom(NodeAt(a), def.path),
           NEW c, c = Row(a \o b, Walk(NodeAt(a), b)), Joinable(c)
    PROVE  /\ a \in Seq(Keywords) /\ b \in Seq(Keywords) /\ Len(a) = Len(def.parent)
           /\ RowMeans(Joined(Row(a, NodeAt(a)), c))
           /\ Joined(Row(a, NodeAt(a)), c).at = a \o b
<1> DEFINE p == Row(a, NodeAt(a))
           r == Joined(p, c)
           at == a \o b
<1>1. def.path \in Seq(Parts) /\ def.parent \in Seq(Parts)
  BY DefinitionsAssumption
<1>2. /\ doc \in Anything /\ a \in Seq(Keywords) /\ NodeAt(a) \in Anything
  BY <1>1, RowsOfDocument DEF Anything
<1>3. Len(a) = Len(def.parent) /\ a \in InstancesFrom(doc, def.parent)
  BY <1>1, InstanceFits DEF Instances
<1>4. b \in Seq(Keywords) /\ Walk(NodeAt(a), b) = NodeAt(at)
  <2>1. b \in Seq(Keywords)
    BY <1>1, InstanceFits
  <2>2. Walk(doc, a \o b) = Walk(Walk(doc, a), b)
    BY <1>2, <2>1, WalkConcat
  <2>. QED
    BY <2>1, <2>2 DEF NodeAt
<1>5. at \in Instances(Path)
  <2>1. IsComposed(doc, def.parent, def.path, at)
    BY <1>3 DEF IsComposed, NodeAt
  <2>. QED
    BY <1>1, <1>2, <2>1, InstanceSplits DEF Instances, Path
<1>6. c.at = at /\ c.is = NodeAt(at) /\ p.is = NodeAt(a) /\ IsObject(c.is) /\ Parent \notin DOMAIN c.is[2]
  BY <1>4 DEF Row, Joinable
<1>7. at \in Seq(Keywords \cup Parts) /\ a \in Seq(Keywords \cup Parts)
  BY <1>2, <1>4
<1>8. SubSeq(at, 1, Len(def.parent)) = a
  <2>1. SubSeq(at, 1, Len(a)) = a
    BY <1>2, <1>4
  <2>. HIDE DEF at
  <2>. QED
    BY <1>3, <2>1, Zenon
<1>. HIDE DEF at, p, r
<1>9. r.at = at /\ IsObject(r.is)
  <2>1. <<Star>> \in Seq(Parts) /\ <<Star>> # <<>>
    BY DEF Parts
  <2>. QED
    BY <1>6, <2>1, JoinedWalk DEF r
<1>10. ASSUME NEW q \in Seq(Parts) \ {<<>>} PROVE Walk(r.is, q) = NodeAt(Elsewhere(at, q))
  <2>1. Walk(r.is, q) = IF q[1] = Parent THEN Walk(p.is, Tail(q)) ELSE Walk(c.is, q)
    BY <1>6, JoinedWalk DEF r
  <2>2. q \in Seq(Keywords \cup Parts) /\ Tail(q) \in Seq(Keywords \cup Parts)
    OBVIOUS
  <2>3. CASE q[1] = Parent
    <3>1. Walk(doc, a \o Tail(q)) = Walk(Walk(doc, a), Tail(q))
      <4> DEFINE t == Tail(q)
      <4>1. t \in Seq(Keywords \cup Parts)
        BY <2>2
      <4>. HIDE DEF t
      <4>2. Walk(doc, a \o t) = Walk(Walk(doc, a), t)
        BY <1>7, <4>1, WalkConcat
      <4>. QED
        BY <4>2 DEF t
    <3>2. Elsewhere(at, q) = a \o Tail(q)
      BY <1>8, <2>3 DEF Elsewhere
    <3>. QED
      BY <1>6, <2>1, <2>3, <3>1, <3>2 DEF NodeAt
  <2>4. CASE q[1] # Parent
    <3>1. Walk(doc, at \o q) = Walk(Walk(doc, at), q)
      BY <1>7, <2>2, WalkConcat
    <3>2. Elsewhere(at, q) = at \o q
      BY <2>4 DEF Elsewhere
    <3>. QED
      BY <1>6, <2>1, <2>4, <3>1, <3>2 DEF NodeAt
  <2>. QED
    BY <2>3, <2>4
<1>11. RowMeans(r)
  BY <1>5, <1>9, <1>10 DEF RowMeans
<1>. QED
  BY <1>2, <1>3, <1>4, <1>9, <1>11 DEF at, p, r

(* The rows of a definition with a parent stand for the instances of both   *)
(* paths in a row.                                                          *)
LEMMA ChildRowsMean ==
    ASSUME doc \in Documents, def \in Definitions, def.parent # <<>>, ~ChildRows.failed
    PROVE  Unbroken(Path) /\ RowsMean(ChildRows.rows)
<1> DEFINE parents == StrictRows(Row(<<>>, doc), def.parent, FALSE)
           found == [p \in parents.rows |-> StrictRows(p, def.path, FALSE)]
           P(a) == Row(a, NodeAt(a))
           C(a, b) == Row(a \o b, Walk(NodeAt(a), b))
<1>1. def.path \in Seq(Parts) /\ def.parent \in Seq(Parts)
  BY DefinitionsAssumption
<1>2. /\ ~parents.failed
      /\ \A p \in parents.rows : ~found[p].failed /\ \A c \in found[p].rows : Joinable(c)
      /\ ChildRows = JoinAll(parents.rows, found)
  <2>. HIDE DEF found, parents
  <2>1. ChildRows = IF parents.failed \/ \E p \in parents.rows :
                           found[p].failed \/ \E c \in found[p].rows : ~Joinable(c)
                    THEN Failed
                    ELSE JoinAll(parents.rows, found)
    BY DEF ChildRows, found, parents
  <2>. QED
    BY <2>1 DEF Failed
<1>3. /\ RowsAlong(<<>>, doc, def.parent) = {P(a) : a \in Instances(def.parent)}
      /\ doc \in Anything /\ doc # Failure /\ <<>> \in Seq(Keywords)
      /\ \A a \in Instances(def.parent) : /\ a \in Seq(Keywords)
                                          /\ NodeAt(a) \in Anything /\ NodeAt(a) # Failure
  <2>1. Failure \notin Values
    BY ValuesAssumption DEF Failure
  <2>. QED
    BY <1>1, <2>1, RowsOfDocument DEF Anything
<1>4. /\ parents = Found({P(a) : a \in Instances(def.parent)})
      /\ Open(<<>>, doc, def.parent, FALSE, Len(def.parent))
  BY <1>1, <1>2, <1>3, StrictRowsAlong
<1>. HIDE DEF parents
<1>5. parents.rows = {P(a) : a \in Instances(def.parent)} /\ UnbrokenFrom(doc, def.parent)
  <2>1. UnbrokenFrom(doc, def.parent)
    BY <1>1, <1>4, OpenIsUnbroken
  <2>. QED
    BY <1>4, <2>1 DEF Found
<1>6. ASSUME NEW a \in Instances(def.parent)
      PROVE  /\ found[P(a)].rows = {C(a, b) : b \in InstancesFrom(NodeAt(a), def.path)}
             /\ UnbrokenFrom(NodeAt(a), def.path)
  <2>1. P(a) \in parents.rows
    BY <1>5
  <2>2. found[P(a)] = StrictRows(P(a), def.path, FALSE)
    BY <2>1
  <2>3. ~StrictRows(P(a), def.path, FALSE).failed
    <3>. HIDE DEF found
    <3>. QED
      BY <1>2, <2>1, <2>2
  <2>4. /\ StrictRows(P(a), def.path, FALSE) = Found(RowsAlong(a, NodeAt(a), def.path))
        /\ Open(a, NodeAt(a), def.path, FALSE, Len(def.path))
    BY <1>1, <1>3, <2>3, StrictRowsAlong
  <2>5. UnbrokenFrom(NodeAt(a), def.path)
    BY <1>1, <2>4, OpenIsUnbroken
  <2>. HIDE DEF found
  <2> DEFINE f == found[P(a)]
             R == RowsAlong(a, NodeAt(a), def.path)
  <2>w. f = Found(R)
    BY <2>2, <2>4, Zenon
  <2>. HIDE DEF f, R
  <2>v. f.rows = R
    BY <2>w DEF Found
  <2>6. found[P(a)].rows = RowsAlong(a, NodeAt(a), def.path)
    BY <2>v DEF f, R
  <2>. QED
    BY <2>5, <2>6 DEF RowsAlong
<1>. HIDE DEF found
<1>7. Unbroken(Path)
  <2>1. \A a \in InstancesFrom(doc, def.parent) : UnbrokenFrom(Walk(doc, a), def.path)
    BY <1>6 DEF Instances, NodeAt
  <2>. QED
    BY <1>1, <1>3, <1>5, <2>1, UnbrokenConcat DEF Unbroken, Path
<1> DEFINE J(a, b) == Joined(P(a), C(a, b))
<1>8. ASSUME NEW a \in Instances(def.parent), NEW b \in InstancesFrom(NodeAt(a), def.path)
      PROVE  /\ a \in Seq(Keywords) /\ b \in Seq(Keywords) /\ Len(a) = Len(def.parent)
             /\ RowMeans(J(a, b)) /\ J(a, b).at = a \o b /\ J(a, b) \in ChildRows.rows
  <2>1. C(a, b) \in found[P(a)].rows /\ P(a) \in parents.rows
    BY <1>5, <1>6
  <2>2. Joinable(C(a, b))
    BY <1>2, <2>1
  <2>3. J(a, b) \in ChildRows.rows
    BY <1>2, <2>1 DEF JoinAll, Found
  <2>. QED
    BY <2>2, <2>3, JoinedRowMeans
<1>9. ASSUME NEW r \in ChildRows.rows
      PROVE  \E a \in Instances(def.parent) : \E b \in InstancesFrom(NodeAt(a), def.path) : r = J(a, b)
  <2>1. PICK p \in parents.rows : \E c \in found[p].rows : r = Joined(p, c)
    BY <1>2 DEF JoinAll, Found
  <2>2. PICK a \in Instances(def.parent) : p = P(a)
    BY <1>5
  <2>3. PICK c \in found[P(a)].rows : r = Joined(P(a), c)
    BY <2>1, <2>2
  <2>4. PICK b \in InstancesFrom(NodeAt(a), def.path) : c = C(a, b)
    BY <1>6
  <2>. QED
    BY <2>3, <2>4
<1>. HIDE DEF J
<1>10. \A r \in ChildRows.rows : RowMeans(r)
  BY <1>8, <1>9
<1>11. ASSUME NEW at \in Instances(Path) PROVE \E r \in ChildRows.rows : r.at = at
  <2>1. IsComposed(doc, def.parent, def.path, at)
    BY <1>1, <1>3, InstanceSplits DEF Instances, Path
  <2>2. PICK a \in InstancesFrom(doc, def.parent) :
            \E b \in InstancesFrom(Walk(doc, a), def.path) : at = a \o b
    BY <2>1 DEF IsComposed
  <2>3. PICK b \in InstancesFrom(Walk(doc, a), def.path) : at = a \o b
    BY <2>2
  <2>4. a \in Instances(def.parent) /\ b \in InstancesFrom(NodeAt(a), def.path)
    BY DEF Instances, NodeAt
  <2>. QED
    BY <1>8, <2>3, <2>4
<1>12. ASSUME NEW r \in ChildRows.rows, NEW s \in ChildRows.rows, r.at = s.at PROVE r = s
  <2>1. PICK a \in Instances(def.parent) : \E b \in InstancesFrom(NodeAt(a), def.path) : r = J(a, b)
    BY <1>9
  <2>2. PICK b \in InstancesFrom(NodeAt(a), def.path) : r = J(a, b)
    BY <2>1
  <2>3. PICK x \in Instances(def.parent) : \E b2 \in InstancesFrom(NodeAt(x), def.path) : s = J(x, b2)
    BY <1>9
  <2>4. PICK y \in InstancesFrom(NodeAt(x), def.path) : s = J(x, y)
    BY <2>3
  <2>5. a \in Seq(Keywords) /\ b \in Seq(Keywords) /\ x \in Seq(Keywords) /\ y \in Seq(Keywords)
        /\ Len(a) = Len(x) /\ a \o b = x \o y
    BY <1>8, <1>12, <2>2, <2>4
  <2>6. a = x /\ b = y
    BY <2>5, SameHalves
  <2>. QED
    BY <2>2, <2>4, <2>6
<1>. QED
  BY <1>7, <1>10, <1>11, <1>12 DEF RowsMean

(* A place a row's path means is one of the document or none of it.         *)
LEMMA ElsewhereType ==
    ASSUME doc \in Documents, def \in Definitions, NEW at \in Instances(Path), NEW q \in Seq(Parts)
    PROVE  NodeAt(Elsewhere(at, q)) \in Anything /\ Elsewhere(at, <<>>) = at
<1>1. def.parent \in Seq(Parts) /\ def.path \in Seq(Parts)
  BY DefinitionsAssumption
<1>2. /\ Path \in Seq(Parts) /\ Len(Path) = Len(def.parent) + Len(def.path)
      /\ Len(def.parent) \in Nat /\ Len(def.path) \in Nat
  BY <1>1, Halves DEF Path
<1>3. at \in Seq(Keywords) /\ Len(at) = Len(Path)
  BY <1>2, InstanceFits DEF Instances
<1>4. Len(def.parent) \in 0 .. Len(at)
  <2> DEFINE n == Len(def.parent)
             m == Len(def.path)
  <2>1. Len(at) = n + m /\ n \in Nat /\ m \in Nat
    BY <1>2, <1>3, Zenon
  <2>. HIDE DEF n, m
  <2>2. n \in 0 .. Len(at)
    BY <2>1
  <2>. QED
    BY <2>2 DEF n
<1>5. SubSeq(at, 1, Len(def.parent)) \in Seq(Keywords)
  BY <1>3, <1>4, Halving
<1>6. Elsewhere(at, q) \in Seq(Keywords \cup Parts)
  <2>1. CASE def.parent # <<>> /\ q # <<>> /\ q[1] = Parent
    <3> DEFINE a == SubSeq(at, 1, Len(def.parent))
               t == Tail(q)
    <3>1. a \in Seq(Keywords \cup Parts) /\ t \in Seq(Keywords \cup Parts)
      <4>1. t \in Seq(Keywords \cup Parts)
        BY <2>1
      <4>. HIDE DEF t
      <4>2. a \in Seq(Keywords)
        BY <1>5
      <4>. HIDE DEF a
      <4>. QED
        BY <4>1, <4>2
    <3>2. Elsewhere(at, q) = a \o t
      BY <2>1 DEF Elsewhere
    <3>. HIDE DEF a, t
    <3>3. a \o t \in Seq(Keywords \cup Parts)
      BY <3>1
    <3>. QED
      BY <3>2, <3>3
  <2>2. CASE ~(def.parent # <<>> /\ q # <<>> /\ q[1] = Parent)
    <3>1. at \in Seq(Keywords \cup Parts) /\ q \in Seq(Keywords \cup Parts)
      BY <1>3
    <3>2. Elsewhere(at, q) = at \o q
      BY <2>2 DEF Elsewhere
    <3>. QED
      BY <3>1, <3>2
  <2>. QED
    BY <2>1, <2>2
<1>7. doc \in Anything
  BY <1>1, RowsOfDocument DEF Anything
<1>8. Elsewhere(at, <<>>) = at
  BY <1>3 DEF Elsewhere
<1>. QED
  BY <1>6, <1>7, <1>8, WalkType DEF NodeAt

(* What a row's path finds is what stands at the place it means, a value    *)
(* that is not null.                                                        *)
LEMMA FoundMeans ==
    ASSUME doc \in Documents, def \in Definitions, NEW r, RowMeans(r),
           NEW q \in Seq(Parts) \ {<<>>}, ApiValue(r.is, q) # Failure
    PROVE  /\ ApiValue(r.is, q) = NodeAt(Elsewhere(r.at, q))
           /\ ApiValue(r.is, q) \in Values \ {Null, None}
<1>1. Walk(r.is, q) = NodeAt(Elsewhere(r.at, q)) /\ r.at \in Instances(Path)
  BY DEF RowMeans
<1>2. NodeAt(Elsewhere(r.at, q)) \in Anything
  BY <1>1, ElsewhereType
<1>. QED
  BY <1>1, <1>2, NoneAssumption DEF ApiValue, Anything

(* An index from either end finds the same piece both ways.                 *)
LEMMA EitherEnd ==
    ASSUME NEW S, NEW s \in Seq(S), NEW i \in Int, Place(s, i) \in DOMAIN s
    PROVE  FromEitherEnd(s, i) = s[Place(s, i)]
<1>1. Len(s) \in Nat /\ DOMAIN s = 1 .. Len(s)
  OBVIOUS
<1>2. CASE i < 0
  <2>1. Place(s, i) = i + Len(s) + 1 /\ -i \in 1 .. Len(s)
    BY <1>1, <1>2 DEF Place
  <2>2. \A n \in 1 .. Len(s) : Reverse(s)[n] = s[(Len(s) - n) + 1]
    BY <1>1 DEF Reverse
  <2>3. Reverse(s)[-i] = s[(Len(s) - (-i)) + 1]
    BY <2>1, <2>2
  <2>4. (Len(s) - (-i)) + 1 = i + Len(s) + 1
    BY <1>1
  <2>. QED
    BY <1>2, <2>1, <2>3, <2>4 DEF FromEitherEnd
<1>3. CASE ~(i < 0)
  BY <1>3 DEF FromEitherEnd, Place
<1>. QED
  BY <1>2, <1>3

(* The number of a row is that at the place its key means.                  *)
LEMMA NumberMeans ==
    ASSUME doc \in Documents, def \in Definitions, NEW r, RowMeans(r),
           def.ok = None, ApiNumber(r) # None
    PROVE  ApiNumber(r) = ValueAt(Elsewhere(r.at, def.key))
<1> DEFINE v == ApiValue(r.is, def.key)
           there == NodeAt(Elsewhere(r.at, def.key))
<1>1. def.key \in Seq(Parts) /\ def.series \in Int \cup {None}
  BY DefinitionsAssumption
<1>2. v # Failure /\ ~IsObject(v) => v = there
  <2>1. CASE def.key # <<>>
    BY <1>1, <2>1, FoundMeans
  <2>2. CASE def.key = <<>>
    <3>1. v = r.is
      <4>1. <<>> \in Seq(Parts)
        OBVIOUS
      <4>2. Walk(r.is, <<>>) = r.is
        BY <4>1, WalkFurther
      <4>. QED
        BY <2>2, <4>2 DEF ApiValue
    <3>2. r.at \in Instances(Path)
      BY DEF RowMeans
    <3>3. Elsewhere(r.at, <<>>) = r.at
      BY <1>1, <3>2, ElsewhereType
    <3>. QED
      BY <2>2, <3>1, <3>3 DEF RowMeans
  <2>. QED
    BY <2>1, <2>2
<1>3. CASE def.series = None
  <2>1. ApiNumber(r) = Value(v)
    BY <1>3 DEF ApiNumber
  <2>. HIDE DEF v, there
  <2>2. v # Failure /\ ApiNumber(r) = Number(v)
    BY <2>1 DEF Value
  <2>3. ~IsObject(v)
    BY <2>2 DEF Number, IsObject
  <2>. QED
    BY <1>2, <1>3, <2>2, <2>3 DEF ValueAt, there
<1>4. CASE def.series # None
  <2>1. v # Failure => ApiNumber(r) = Value(Piece(v))
    BY <1>4 DEF ApiNumber
  <2>2. v = Failure => ApiNumber(r) = Value(Failure)
    BY <1>4 DEF ApiNumber
  <2>. HIDE DEF v, there
  <2>3. v # Failure /\ Piece(v) # Failure /\ ApiNumber(r) = Number(Piece(v))
    BY <2>1, <2>2 DEF Value
  <2> DEFINE i == Place(v[2], def.series)
  <2>4. /\ v[1] = "str" /\ i \in DOMAIN v[2] /\ v[2][i] \in DOMAIN Numeral
        /\ Piece(v) = <<"num", Numeral[v[2][i]]>>
    BY <2>3 DEF Piece
  <2>5. ApiNumber(r) = Numeral[v[2][i]]
    BY <2>3, <2>4 DEF Number
  <2>6. v = there
    BY <1>2, <2>3, <2>4 DEF IsObject
  <2>7. v \in Values
    <3>1. r.at \in Instances(Path)
      BY DEF RowMeans
    <3>2. there \in Anything
      BY <1>1, <3>1, ElsewhereType DEF there
    <3>. QED
      BY <2>3, <2>6, <3>2 DEF Anything
  <2>8. v[2] \in Seq(Range(v[2]))
    BY <2>4, <2>7, ValuesAssumption
  <2>9. FromEitherEnd(v[2], def.series) = v[2][i]
    BY <1>1, <1>4, <2>4, <2>8, EitherEnd
  <2>. QED
    BY <1>4, <2>5, <2>6, <2>9 DEF ValueAt, there
<1>. QED
  BY <1>3, <1>4

(* What a definition of the API takes out of a document, if it succeeds.    *)
LEMMA ApiResult ==
    ASSUME doc \in Documents, def \in Definitions, Extended, result = ExtractAPI, ~result.failed
    PROVE  StrictTakesAllOrNothing
<1> DEFINE rows == ApiRows.rows
           chosen == {row \in rows : Chosen(row)}
<1>1. ~ApiRows.failed /\ (\A row \in rows : Filterable(row)) /\ (\A row \in chosen : Complete(row))
      /\ (chosen = {} => def.allowEmpty) /\ result.rows = {ApiSample(row) : row \in chosen}
  <2>1. result = IF \/ ApiRows.failed
                    \/ \E row \in rows : ~Filterable(row)
                    \/ \E row \in chosen : ~Complete(row)
                    \/ chosen = {} /\ ~def.allowEmpty
                 THEN Failed
                 ELSE Found({ApiSample(row) : row \in chosen})
    BY DEF ExtractAPI
  <2>. HIDE DEF rows, chosen
  <2>. QED
    BY <2>1 DEF Failed, Found
<1>2. Unbroken(Path) /\ RowsMean(rows)
  <2>1. CASE def.parent = <<>>
    <3>1. ApiRows = StrictRows(Row(<<>>, doc), def.path, FALSE)
      BY <2>1 DEF ApiRows
    <3>2. /\ ApiRows = Found({Row(a, NodeAt(a)) : a \in Instances(Path)})
          /\ Unbroken(Path) /\ RowsMean({Row(a, NodeAt(a)) : a \in Instances(Path)})
      BY <1>1, <2>1, <3>1, PlainRowsMean
    <3>. QED
      BY <3>2 DEF Found
  <2>2. CASE def.parent # <<>>
    <3>1. ApiRows = ChildRows
      BY <2>2 DEF ApiRows
    <3>. QED
      BY <1>1, <2>2, <3>1, ChildRowsMean
  <2>. QED
    BY <2>1, <2>2
<1>. HIDE DEF rows
<1>3. \A row \in rows : RowMeans(row)
  BY <1>2 DEF RowsMean
<1>4. ASSUME NEW row \in rows PROVE Chosen(row) <=> Wanted(row.at)
  <2>1. ASSUME NEW f \in def.filter
        PROVE  ApiValue(row.is, f.path) = NodeAt(Elsewhere(row.at, f.path))
    <3>1. f.path \in Seq(Parts) \ {<<>>}
      BY DefinitionsAssumption
    <3>2. ApiValue(row.is, f.path) # Failure
      BY <1>1 DEF Filterable
    <3>. QED
      BY <1>3, <3>1, <3>2, FoundMeans
  <2>. QED
    BY <2>1 DEF Chosen, Wanted
<1>5. chosen = {row \in rows : Wanted(row.at)}
  BY <1>4
<1>6. ASSUME NEW row \in rows
      PROVE  ApiSample(row).at = row.at /\ ApiSample(row).value = ApiNumber(row)
             /\ \A l \in def.labels : ApiSample(row).labels[l] = LabelOf(row, l)
  BY DEF ApiSample
<1>7. Taken = {at \in Instances(Path) : Wanted(at)}
  <2>1. Taken = {row.at : row \in chosen}
    BY <1>1, <1>6 DEF Taken
  <2>2. \A row \in rows : row.at \in Instances(Path)
    BY <1>3 DEF RowMeans
  <2>3. \A at \in Instances(Path) : \E row \in rows : row.at = at
    BY <1>2 DEF RowsMean
  <2>. QED
    BY <1>5, <2>1, <2>2, <2>3
<1>8. OneSampleEach
  <2>1. ASSUME NEW s \in result.rows, NEW t \in result.rows, s.at = t.at PROVE s = t
    <3>1. PICK x \in chosen : s = ApiSample(x)
      BY <1>1
    <3>2. PICK y \in chosen : t = ApiSample(y)
      BY <1>1
    <3>3. x = y
      BY <1>2, <1>6, <2>1, <3>1, <3>2 DEF RowsMean
    <3>. QED
      BY <3>1, <3>2, <3>3
  <2>. QED
    BY <2>1 DEF OneSampleEach
<1>9. result.rows = {} => def.allowEmpty
  BY <1>1
<1>10. ASSUME NEW row \in chosen, NEW l \in def.labels
       PROVE  /\ LabelOf(row, l) = NodeAt(Elsewhere(row.at, IF l \in DOMAIN def.labelPaths
                                                            THEN def.labelPaths[l] ELSE <<l>>))
              /\ LabelOf(row, l) \notin {None, Null}
  <2> DEFINE path == IF l \in DOMAIN def.labelPaths THEN def.labelPaths[l] ELSE <<l>>
  <2>1. path \in Seq(Parts) \ {<<>>}
    <3>1. l \in Parts
      BY DefinitionsAssumption
    <3>2. l \in DOMAIN def.labelPaths => def.labelPaths[l] \in Seq(Parts) \ {<<>>}
      BY DefinitionsAssumption
    <3>3. <<l>> \in Seq(Parts) /\ <<l>> # <<>>
      BY <3>1
    <3>. QED
      BY <3>2, <3>3
  <2>2. LabelOf(row, l) = ApiValue(row.is, path) /\ LabelOf(row, l) # Failure
    BY <1>1 DEF LabelOf, Complete
  <2>. HIDE DEF path
  <2>3. RowMeans(row)
    BY <1>3
  <2>4. LabelOf(row, l) = NodeAt(Elsewhere(row.at, path)) /\ LabelOf(row, l) \notin {None, Null}
    BY <2>1, <2>2, <2>3, FoundMeans
  <2>. QED
    BY <2>4 DEF path
<1>11. ASSUME NEW row \in chosen, def.ok = None
       PROVE  ApiNumber(row) = ValueAt(Elsewhere(row.at, def.key))
  <2>1. RowMeans(row) /\ ApiNumber(row) # None
    BY <1>1, <1>3 DEF Complete
  <2>. QED
    BY <1>11, <2>1, NumberMeans
<1>12. ASSUME NEW s \in result.rows
       PROVE  /\ def.ok = None => s.value = ValueAt(Elsewhere(s.at, def.key))
              /\ \A l \in def.labels :
                    s.labels[l] \in {None, NodeAt(Elsewhere(s.at, IF l \in DOMAIN def.labelPaths
                                                                  THEN def.labelPaths[l] ELSE <<l>>))}
              /\ Extended => \A l \in def.labels : s.labels[l] \notin {None, Null}
  <2>1. PICK row \in chosen : s = ApiSample(row)
    BY <1>1
  <2>2. row \in rows
    OBVIOUS
  <2>3. s.at = row.at /\ s.value = ApiNumber(row) /\ \A l \in def.labels : s.labels[l] = LabelOf(row, l)
    BY <1>6, <2>1, <2>2
  <2>. QED
    BY <1>10, <1>11, <2>3
<1>. QED
  BY <1>2, <1>7, <1>8, <1>9, <1>12 DEF StrictTakesAllOrNothing

(* What a definition with allowEmpty takes out of a Lua page, if it succeeds. *)
LEMMA LegacyStrictResult ==
    ASSUME doc \in Documents, def \in Definitions, ~Extended, def.allowEmpty,
           result = GetMetricsWithEmpty, ~result.failed
    PROVE  StrictTakesAllOrNothing
<1> DEFINE found == StrictRows(Row(<<>>, doc), def.path, TRUE)
           rows == {Row(a, NodeAt(a)) : a \in Instances(Path)}
<1>1. def.parent = <<>> /\ def.filter = {} /\ DOMAIN def.labelPaths = {} /\ def.series = None
  BY DEF Extended
<1>2. ~found.failed /\ result = EachRow(found.rows)
  <2>1. result = IF found.failed THEN Failed ELSE EachRow(found.rows)
    BY DEF GetMetricsWithEmpty
  <2>. HIDE DEF found
  <2>. QED
    BY <2>1 DEF Failed
<1>3. found = Found(rows) /\ Unbroken(Path) /\ RowsMean(rows)
  BY <1>1, <1>2, PlainRowsMean
<1>4. found.rows = rows
  <2>. HIDE DEF found, rows
  <2>. QED
    BY <1>3 DEF Found
<1>. HIDE DEF found
<1>5. /\ \A row \in rows : ~GetMetrics({row}).failed
      /\ result.rows = {LegacySample(row) : row \in rows}
  <2> DEFINE wrong == \E row \in rows : GetMetrics({row}).failed
             samples == {LegacySample(row) : row \in rows}
  <2>1. result = IF wrong THEN Failed ELSE Found(samples)
    BY <1>2, <1>4 DEF EachRow
  <2>. HIDE DEF wrong, samples
  <2>2. ~wrong /\ result.rows = samples
    BY <2>1 DEF Failed, Found
  <2>. QED
    BY <2>2 DEF wrong, samples
<1>6. \A row \in rows : RowMeans(row) /\ row.is = NodeAt(row.at)
  BY <1>3 DEF RowsMean, Row
<1>. HIDE DEF rows
<1>7. ASSUME NEW row \in rows PROVE LegacyValue(row) # None
  <2>1. {row} # {} /\ ~GetMetrics({row}).failed
    BY <1>5
  <2>2. {r \in {row} : LegacyValue(r) # None} # {}
    BY <2>1 DEF GetMetrics, Failed
  <2>. QED
    BY <2>2
<1>8. ASSUME NEW row \in rows
      PROVE  LegacySample(row).at = row.at /\ LegacySample(row).value = LegacyValue(row)
             /\ \A l \in def.labels : LegacySample(row).labels[l] = LegacyLabel(row, l)
  BY DEF LegacySample
<1>9. \A at : Wanted(at)
  BY <1>1 DEF Wanted
<1>10. Taken = {at \in Instances(Path) : Wanted(at)}
  <2>1. Taken = {row.at : row \in rows}
    BY <1>5, <1>8 DEF Taken
  <2>2. \A row \in rows : row.at \in Instances(Path)
    BY <1>6 DEF RowMeans
  <2>3. \A at \in Instances(Path) : \E row \in rows : row.at = at
    BY <1>3 DEF RowsMean
  <2>. QED
    BY <1>9, <2>1, <2>2, <2>3
<1>11. OneSampleEach
  <2>1. ASSUME NEW s \in result.rows, NEW t \in result.rows, s.at = t.at PROVE s = t
    <3>1. PICK x \in rows : s = LegacySample(x)
      BY <1>5
    <3>2. PICK y \in rows : t = LegacySample(y)
      BY <1>5
    <3>3. x = y
      BY <1>3, <1>8, <2>1, <3>1, <3>2 DEF RowsMean
    <3>. QED
      BY <3>1, <3>2, <3>3
  <2>. QED
    BY <2>1 DEF OneSampleEach
<1>12. ASSUME NEW row \in rows, def.ok = None
       PROVE  LegacyValue(row) = ValueAt(Elsewhere(row.at, def.key))
  <2>1. def.key \in Seq(Parts) /\ row.at \in Instances(Path) /\ row.is = NodeAt(row.at)
    BY <1>6, DefinitionsAssumption DEF RowMeans
  <2>2. Walk(row.is, def.key) = NodeAt(Elsewhere(row.at, def.key))
    <3>1. CASE def.key # <<>>
      BY <1>6, <2>1, <3>1 DEF RowMeans
    <3>2. CASE def.key = <<>>
      <4>1. <<>> \in Seq(Parts)
        OBVIOUS
      <4>2. Walk(row.is, <<>>) = row.is
        BY <4>1, WalkFurther
      <4>3. Elsewhere(row.at, <<>>) = row.at
        BY <2>1, ElsewhereType
      <4>. QED
        BY <2>1, <3>2, <4>2, <4>3
    <3>. QED
      BY <3>1, <3>2
  <2> DEFINE v == Walk(row.is, def.key)
  <2>3. LegacyValue(row) = Value(v)
    BY DEF LegacyValue
  <2>. HIDE DEF v
  <2>4. LegacyValue(row) = Number(v)
    BY <1>7, <1>12, <2>3 DEF Value
  <2>5. v = NodeAt(Elsewhere(row.at, def.key))
    BY <2>2 DEF v
  <2>. QED
    BY <1>1, <2>4, <2>5 DEF ValueAt
<1>13. ASSUME NEW row \in rows, NEW l \in def.labels
       PROVE  LegacyLabel(row, l) \in {None, NodeAt(Elsewhere(row.at, <<l>>))}
  <2>1. l \in Parts
    BY DefinitionsAssumption
  <2>2. <<l>> \in Seq(Parts) \ {<<>>} /\ <<>> \in Seq(Parts)
    BY <2>1
  <2>3. Walk(row.is, <<l>>) = NodeAt(Elsewhere(row.at, <<l>>))
    BY <1>6, <2>2 DEF RowMeans
  <2>4. Walk(row.is, Append(<<>>, l)) = Get(row.is, l)
    <3> DEFINE none == <<>>
    <3>1. none \in Seq(Parts)
      BY <2>2
    <3>2. Walk(row.is, none) = row.is
      BY <3>1, WalkFurther
    <3>. HIDE DEF none
    <3>3. Walk(row.is, Append(none, l)) = Get(Walk(row.is, none), l)
      BY <2>1, <3>1, WalkFurther
    <3>. QED
      BY <3>2, <3>3 DEF none
  <2>5. Append(<<>>, l) = <<l>>
    OBVIOUS
  <2>6. NodeAt(Elsewhere(row.at, <<l>>)) = Get(row.is, l)
    BY <2>3, <2>4, <2>5
  <2>. QED
    BY <2>6 DEF LegacyLabel, Get
<1>14. ASSUME NEW s \in result.rows
       PROVE  /\ def.ok = None => s.value = ValueAt(Elsewhere(s.at, def.key))
              /\ \A l \in def.labels :
                    s.labels[l] \in {None, NodeAt(Elsewhere(s.at, IF l \in DOMAIN def.labelPaths
                                                                  THEN def.labelPaths[l] ELSE <<l>>))}
  <2>1. PICK row \in rows : s = LegacySample(row)
    BY <1>5
  <2>2. s.at = row.at /\ s.value = LegacyValue(row)
        /\ \A l \in def.labels : s.labels[l] = LegacyLabel(row, l)
    BY <1>8, <2>1
  <2>. QED
    BY <1>1, <1>12, <1>13, <2>2
<1>. QED
  BY <1>3, <1>10, <1>11, <1>14 DEF StrictTakesAllOrNothing

(* A definition that has to be served whole is served whole or fails.       *)
LEMMA StrictResult ==
    ASSUME doc \in Documents, def \in Definitions, result = Extraction
    PROVE  StrictTakesAllOrNothing
<1>1. CASE result.failed \/ ~(Extended \/ def.allowEmpty)
  BY <1>1 DEF StrictTakesAllOrNothing
<1>2. CASE ~result.failed /\ Extended
  BY <1>2, ApiResult DEF Extraction
<1>3. CASE ~result.failed /\ ~Extended /\ def.allowEmpty
  BY <1>3, LegacyStrictResult DEF Extraction
<1>. QED
  BY <1>1, <1>2, <1>3

-----------------------------------------------------------------------------
(* Every behaviour                                                          *)

(* The document and the definition stay, and the result is what the         *)
(* extraction yields.                                                       *)
ExtractionInv ==
    /\ doc \in Documents /\ def \in Definitions
    /\ result \in {Pending, Extraction}

(* What an extraction yields depends on the document and the definition     *)
(* alone.                                                                   *)
LEMMA SameExtraction ==
    ASSUME doc' = doc, def' = def
    PROVE  Extraction' = Extraction
<1>1. GetMetricsWithEmpty' = GetMetricsWithEmpty
  BY DEF GetMetricsWithEmpty, EachRow, GetMetrics, LegacySample, LegacyValue, Value
<1>2. ApiRows' = ApiRows
  BY DEF ApiRows, ChildRows
<1>3. ExtractAPI' = ExtractAPI
  BY <1>2 DEF ExtractAPI, Filterable, Chosen, Complete, ApiSample, LabelOf, ApiNumber, Piece, Value
<1>4. Extended' = Extended
  BY DEF Extended
<1>. QED
  BY <1>1, <1>3, <1>4 DEF Extraction

(* The inductive invariant holds of every behaviour.                        *)
THEOREM InvariantHolds == Spec => []ExtractionInv
<1>1. Init => ExtractionInv
  BY DEF Init, ExtractionInv
<1>2. ExtractionInv /\ [Next]_vars => ExtractionInv'
  <2> SUFFICES ASSUME ExtractionInv, [Next]_vars PROVE ExtractionInv'
    OBVIOUS
  <2>1. doc' = doc /\ def' = def
    BY DEF Next, Extract, Done, vars
  <2>2. Extraction' = Extraction
    BY <2>1, SameExtraction
  <2>3. result' \in {Pending, Extraction}
    BY DEF Next, Extract, Done, vars, ExtractionInv
  <2>. QED
    BY <2>1, <2>2, <2>3 DEF ExtractionInv, Pending
<1>. QED
  BY <1>1, <1>2, PTL DEF Spec

(* A tolerant definition takes every sample that is there, and no other.    *)
THEOREM TolerantTakesAll == Spec => []TolerantTakesWhatIsThere
<1>1. ExtractionInv => TolerantTakesWhatIsThere
  <2>1. result = Pending => TolerantTakesWhatIsThere
    BY DEF TolerantTakesWhatIsThere
  <2>. QED
    BY <2>1, TolerantResult DEF ExtractionInv
<1>. QED
  BY <1>1, InvariantHolds, PTL

(* A definition that is served whole takes every row that is wanted, with   *)
(* its value and its labels, or fails.                                      *)
THEOREM StrictTakesAll == Spec => []StrictTakesAllOrNothing
<1>1. ExtractionInv => StrictTakesAllOrNothing
  <2>1. result = Pending => StrictTakesAllOrNothing
    BY DEF StrictTakesAllOrNothing
  <2>. QED
    BY <2>1, StrictResult DEF ExtractionInv
<1>. QED
  BY <1>1, InvariantHolds, PTL
=============================================================================
