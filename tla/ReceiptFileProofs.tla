-------------------------- MODULE ReceiptFileProofs --------------------------
(***************************************************************************)
(* Proofs about module ReceiptFile, for any manifests, edits and precision *)
(* of the other readers' numbers.                                          *)
(***************************************************************************)
EXTENDS ReceiptFile, SequenceTheorems, TLAPS

\* A tree that json of Python reads or could have read.
IsJson(t) ==
  \A p \in DOMAIN t : t[p].kind # "tuple" /\ \A i \in DOMAIN p : p[i] # NumberKey

-------------------------------------------------------------------------------
\* The nodes of a tree are records of two fields.
LEMMA TreeNodes ==
  ASSUME NEW t, IsTree(t)
  PROVE  /\ t = [p \in DOMAIN t |-> t[p]]
         /\ \A p \in DOMAIN t : t[p] \in Nodes /\ t[p] = [kind |-> t[p].kind, n |-> t[p].n]
<1>1. t \in [DOMAIN t -> Nodes]
  BY DEF IsTree
<1>2. \A x \in Nodes : x = [kind |-> x.kind, n |-> x.n]
  BY DEF Nodes, JsonNodes
<1> QED BY <1>1, <1>2

\* A function of paths to nodes is a tree.
LEMMA TreeOf ==
  ASSUME NEW t, DOMAIN t \subseteq Seq(Steps), t = [p \in DOMAIN t |-> t[p]],
         \A p \in DOMAIN t : t[p] \in Nodes
  PROVE  IsTree(t)
BY DEF IsTree

\* Fixed nodes are nodes.
LEMMA FixedNodes == Dict \in Nodes /\ List \in Nodes /\ Version \in Nodes
BY DEF Dict, List, Version, Nodes, JsonNodes

\* A path of strings is read as it is written.
LEMMA PathAsWritten ==
  ASSUME NEW p \in Seq(Steps), \A i \in DOMAIN p : p[i] # NumberKey
  PROVE  TextPath(p) = p
<1>1. p = [i \in DOMAIN p |-> p[i]]
  OBVIOUS
<1> QED BY <1>1 DEF TextPath, TextStep

\* The path that is read is one of strings.
LEMMA TextPathType ==
  ASSUME NEW p \in Seq(Steps)
  PROVE  /\ TextPath(p) \in Seq(Steps)
         /\ \A i \in DOMAIN TextPath(p) : TextPath(p)[i] # NumberKey
<1>1. NumberText \in Steps /\ NumberText # NumberKey
  BY CanonicalAssumption DEF Steps
<1>2. \A s \in Steps : TextStep(s) \in Steps /\ TextStep(s) # NumberKey
  BY <1>1 DEF TextStep
<1>3. \A i \in 1..Len(p) : p[i] \in Steps
  OBVIOUS
<1>4. DOMAIN p = 1..Len(p) /\ Len(p) \in Nat
  OBVIOUS
<1> QED BY <1>2, <1>3, <1>4 DEF TextPath

\* A number that a double can hold is read as it is, and another as some double.
LEMMA DoubleOfDouble ==
  ASSUME NEW n \in Doubles, NEW way
  PROVE  Double(n, way) = n
BY DEF Double

LEMMA DoubleType ==
  ASSUME NEW n, NEW way
  PROVE  Double(n, way) \in Doubles \union {None} /\ Double(n, way) \in Int \union {None}
<1>1. Doubles \subseteq Int
  BY CanonicalAssumption DEF Doubles
<1>2. Double(n, way) \in Doubles \union {None}
  BY DEF Double
<1> QED BY <1>1, <1>2

\* Up to the limit, every integer is a double; beyond it, none that is odd.
LEMMA SmallDoubles == (-Limit)..Limit \subseteq Doubles
<1> SUFFICES ASSUME NEW n \in (-Limit)..Limit PROVE n \in Doubles
  OBVIOUS
<1>1. n = 1 * n
  BY CanonicalAssumption
<1> QED BY <1>1, CanonicalAssumption DEF Doubles

LEMMA LargeDoubles ==
  ASSUME NEW n \in Doubles, n \notin (-Limit)..Limit
  PROVE  n % 2 = 0
<1>1. PICK s \in Scales, m \in (-Limit)..Limit : n = s * m
  BY DEF Doubles
<1>2. s \in Nat /\ m \in Int
  BY CanonicalAssumption
<1>3. s # 1
  BY <1>1, <1>2
<1>4. PICK h \in Int : s = 2 * h
  BY <1>2, <1>3, CanonicalAssumption
<1>5. n = 2 * (h * m) /\ h * m \in Int
  BY <1>1, <1>2, <1>4
<1> QED BY <1>5

\* What strict mode lets pass, every reader reads as it is.
LEMMA NodeAsWritten ==
  ASSUME NEW x \in Nodes, NodeAllowed(x), NEW r \in Readers
  PROVE  ReadNode(x, r) = x
<1>1. CASE x.kind = "int"
  <2>1. x.n \in (-(Limit - 1))..(Limit - 1)
    BY <1>1 DEF NodeAllowed, IJSONMaxSafeInt
  <2>2. x.n \in Doubles
    BY <2>1, SmallDoubles, CanonicalAssumption
  <2>3. Double(x.n, r) = x.n /\ x.n # None
    BY <2>1, <2>2, DoubleOfDouble, CanonicalAssumption
  <2>4. x = [kind |-> "int", n |-> x.n]
    BY <1>1 DEF Nodes, JsonNodes
  <2> QED BY <1>1, <2>3, <2>4 DEF ReadNode, DoubleNode
<1>2. CASE x.kind # "int"
  BY <1>2 DEF NodeAllowed, ReadNode
<1> QED BY <1>1, <1>2

LEMMA StrictAsWritten ==
  ASSUME NEW t, IsTree(t), Strict(t), NEW r \in Readers
  PROVE  ReadBack(t, r) = t
<1>1. ~Unreadable(t, r)
  BY CanonicalAssumption DEF Unreadable, Strict, NodeAllowed
<1>2. \A p \in DOMAIN t : TextPath(p) = p
  <2> SUFFICES ASSUME NEW p \in DOMAIN t PROVE TextPath(p) = p
    OBVIOUS
  <2>1. p \in Seq(Steps)
    BY DEF IsTree
  <2>2. \A i \in DOMAIN p : p[i] # NumberKey
    BY CanonicalAssumption DEF Strict
  <2> QED BY <2>1, <2>2, PathAsWritten
<1>3. {TextPath(p) : p \in DOMAIN t} = DOMAIN t
  BY <1>2
<1>4. \A q \in DOMAIN t : (CHOOSE p \in DOMAIN t : TextPath(p) = q) = q
  BY <1>2
<1>5. \A q \in DOMAIN t : ReadNode(t[q], r) = t[q]
  <2> SUFFICES ASSUME NEW q \in DOMAIN t PROVE ReadNode(t[q], r) = t[q]
    OBVIOUS
  <2>1. NodeAllowed(t[q])
    BY DEF Strict
  <2> QED BY <2>1, TreeNodes, NodeAsWritten
<1>6. t = [q \in DOMAIN t |-> t[q]]
  BY TreeNodes
<1>7. ReadBack(t, r) =
        [q \in DOMAIN t |-> ReadNode(t[CHOOSE p \in DOMAIN t : TextPath(p) = q], r)]
  BY <1>1, <1>3 DEF ReadBack
<1>8. @ = [q \in DOMAIN t |-> t[q]]
  BY <1>4, <1>5
<1> QED BY <1>6, <1>7, <1>8

\* What Python could have read, it reads as it is.
LEMMA JsonAsWritten ==
  ASSUME NEW t, IsTree(t), IsJson(t), ReadBack(t, "python") # None
  PROVE  ReadBack(t, "python") = t
<1>1. ~Unreadable(t, "python")
  BY DEF ReadBack
<1>2. \A p \in DOMAIN t : TextPath(p) = p
  BY PathAsWritten DEF IsTree, IsJson
<1>3. {TextPath(p) : p \in DOMAIN t} = DOMAIN t
  BY <1>2
<1>4. \A q \in DOMAIN t : (CHOOSE p \in DOMAIN t : TextPath(p) = q) = q
  BY <1>2
<1>5. \A q \in DOMAIN t : ReadNode(t[q], "python") = t[q]
  BY DEF IsJson, ReadNode
<1>6. t = [q \in DOMAIN t |-> t[q]]
  BY TreeNodes
<1>7. ReadBack(t, "python") =
        [q \in DOMAIN t |-> ReadNode(t[CHOOSE p \in DOMAIN t : TextPath(p) = q], "python")]
  BY <1>1, <1>3 DEF ReadBack
<1>8. @ = [q \in DOMAIN t |-> t[q]]
  BY <1>4, <1>5
<1> QED BY <1>6, <1>7, <1>8

\* What a reader reads at a node: no tuple, and no float but in Python.
LEMMA ReadNodeType ==
  ASSUME NEW x \in Nodes, NEW r
  PROVE  /\ ReadNode(x, r) \in Nodes
         /\ ReadNode(x, r).kind # "tuple"
         /\ r # "python" => ReadNode(x, r).kind # "float"
<1>1. CASE x.kind = "tuple"
  <2>1. ReadNode(x, r) = [kind |-> "list", n |-> None]
    BY <1>1 DEF ReadNode, Nodes, JsonNodes
  <2> QED BY <2>1 DEF Nodes, JsonNodes
<1>2. CASE x.kind \in {"int", "float"} /\ r # "python"
  <2>1. ReadNode(x, r) = DoubleNode(Double(x.n, r))
    BY <1>2 DEF ReadNode
  <2>2. \A d \in Int \union {None} :
          DoubleNode(d) \in Nodes /\ DoubleNode(d).kind \in {"int", "null"}
    BY CanonicalAssumption DEF DoubleNode, Nodes, JsonNodes
  <2> QED BY <2>1, <2>2, DoubleType
<1>3. CASE x.kind # "tuple" /\ ~(x.kind \in {"int", "float"} /\ r # "python")
  <2>1. ReadNode(x, r) = x
    BY <1>3 DEF ReadNode
  <2> QED BY <1>3, <2>1
<1> QED BY <1>1, <1>2, <1>3

\* Whatever a reader reads is a tree that Python could have read.
LEMMA ReadBackType ==
  ASSUME NEW t, IsTree(t), NEW r, ReadBack(t, r) # None
  PROVE  /\ IsTree(ReadBack(t, r)) /\ IsJson(ReadBack(t, r))
         /\ r # "python" => \A p \in DOMAIN ReadBack(t, r) : ReadBack(t, r)[p].kind # "float"
<1> DEFINE Paths == {TextPath(p) : p \in DOMAIN t}
           At(q) == CHOOSE p \in DOMAIN t : TextPath(p) = q
           b == [q \in Paths |-> ReadNode(t[At(q)], r)]
<1>1. ReadBack(t, r) = b
  BY DEF ReadBack
<1>2. \A q \in Paths : q \in Seq(Steps) /\ \A i \in DOMAIN q : q[i] # NumberKey
  BY TextPathType DEF IsTree
<1>3. \A q \in Paths : At(q) \in DOMAIN t
  OBVIOUS
<1>4. DOMAIN b = Paths /\ \A q \in Paths : b[q] = ReadNode(t[At(q)], r)
  OBVIOUS
<1>5. b = [q \in DOMAIN b |-> b[q]]
  BY <1>4
<1> HIDE DEF b, At, Paths
<1>6. \A q \in Paths : /\ b[q] \in Nodes /\ b[q].kind # "tuple"
                       /\ r # "python" => b[q].kind # "float"
  BY <1>3, <1>4, ReadNodeType, TreeNodes
<1>7. IsTree(b)
  BY <1>2, <1>4, <1>5, <1>6, TreeOf
<1>8. IsJson(b)
  BY <1>2, <1>4, <1>6 DEF IsJson
<1> QED BY <1>1, <1>4, <1>6, <1>7, <1>8

-------------------------------------------------------------------------------
(***************************************************************************)
(* Strict mode refuses no more than it has to, but for floats.             *)
(***************************************************************************)

\* An integer that is a double, at the limit or beyond, is what its neighbour on
\* the far side is read as; one that is no double is read as another.
LEMMA BeyondIsConfused ==
  ASSUME NEW n \in Doubles, n \notin (-(Limit - 1))..(Limit - 1)
  PROVE  Confused(n)
<1> DEFINE far == IF n > 0 THEN n + 1 ELSE n - 1
           way == IF n > 0 THEN "down" ELSE "up"
<1>1. n \in Int /\ Limit \in Nat \ {0} /\ Doubles \subseteq Int
  BY CanonicalAssumption DEF Doubles
<1>2. n % 2 = 0
  <2>1. CASE n \in (-Limit)..Limit
    <3>1. n = Limit \/ n = -Limit
      BY <1>1, <2>1
    <3> QED BY <1>1, <3>1, CanonicalAssumption
  <2> QED BY <2>1, LargeDoubles
<1>3. far \in Int /\ far % 2 # 0 /\ far \notin (-Limit)..Limit /\ far \in {n - 1, n + 1}
  BY <1>1, <1>2
<1>4. far \notin Doubles
  BY <1>3, LargeDoubles
<1>5. IsNearest(n, far, way)
  BY <1>1, <1>4 DEF IsNearest
<1>6. \A d \in Doubles : IsNearest(d, far, way) => d = n
  BY <1>1, <1>4, <1>5 DEF IsNearest
<1>7. Double(far, way) = n
  BY <1>4, <1>5, <1>6 DEF Double
<1>8. way \in Readers \ {"python"}
  BY DEF Readers
<1> HIDE DEF far, way
<1> QED BY <1>3, <1>7, <1>8 DEF Confused

\* Nobody reads a neighbour of an integer within the range as that integer.
LEMMA WithinIsClear ==
  ASSUME NEW n \in (-(Limit - 1))..(Limit - 1)
  PROVE  ~Confused(n)
<1> SUFFICES ASSUME NEW r \in Readers \ {"python"}, NEW k \in {n - 1, n + 1}, Double(k, r) = n
             PROVE  FALSE
  BY DEF Confused
<1>1. Limit \in Nat \ {0}
  BY CanonicalAssumption
<1>2. n \in Int /\ k \in (-Limit)..Limit /\ k # n
  BY <1>1
<1>3. Double(k, r) = k
  BY <1>2, SmallDoubles, DoubleOfDouble
<1> QED BY <1>2, <1>3

\* A tree that every reader reads as it is has only keys that are strings.
LEMMA ReadAsIsKeys ==
  ASSUME NEW t, IsTree(t), ~Unreadable(t, "python"), ReadBack(t, "python") = t,
         NEW p \in DOMAIN t
  PROVE  (\A i \in DOMAIN p : p[i] \in Keys) /\ TextPath(p) = p
<1>1. p \in Seq(Steps)
  BY DEF IsTree
<1>2. \A i \in DOMAIN p : p[i] # BrokenKey
  BY DEF Unreadable
<1>3. DOMAIN t = {TextPath(q) : q \in DOMAIN t}
  <2> DEFINE Paths == {TextPath(q) : q \in DOMAIN t}
             At(q) == CHOOSE s \in DOMAIN t : TextPath(s) = q
  <2>1. ReadBack(t, "python") = [q \in Paths |-> ReadNode(t[At(q)], "python")]
    BY DEF ReadBack
  <2>2. DOMAIN ReadBack(t, "python") = Paths
    BY <2>1
  <2> QED BY <2>2
<1>4. PICK q \in DOMAIN t : p = TextPath(q)
  BY <1>3
<1>5. q \in Seq(Steps)
  BY DEF IsTree
<1>6. \A i \in DOMAIN p : p[i] # NumberKey
  BY <1>4, <1>5, TextPathType
<1>7. \A i \in DOMAIN p : p[i] \in Steps
  BY <1>1
<1>8. \A i \in DOMAIN p : p[i] \in Keys
  BY <1>2, <1>6, <1>7 DEF Steps
<1> QED BY <1>1, <1>6, <1>8, PathAsWritten

\* What a reader reads at a path of such a tree.
LEMMA ReadAsIsNodes ==
  ASSUME NEW t, IsTree(t), NEW r, ~Unreadable(t, r), ReadBack(t, r) = t,
         \A p \in DOMAIN t : TextPath(p) = p,
         NEW p \in DOMAIN t
  PROVE  ReadNode(t[p], r) = t[p]
<1> DEFINE At(q) == CHOOSE s \in DOMAIN t : TextPath(s) = q
<1>1. {TextPath(q) : q \in DOMAIN t} = DOMAIN t
  OBVIOUS
<1>2. ReadBack(t, r) = [q \in DOMAIN t |-> ReadNode(t[At(q)], r)]
  BY <1>1 DEF ReadBack
<1>3. At(p) = p
  OBVIOUS
<1>4. ReadBack(t, r)[p] = ReadNode(t[At(p)], r)
  BY <1>2
<1> QED BY <1>3, <1>4

\* Strict mode accepts a tree if and only if everybody reads it where it was
\* written and nowhere else, and no float is in it (_validate_strict): it lets
\* nothing pass that readers may disagree on, and of what they agree on it refuses
\* nothing but fractions.
THEOREM StrictExactly ==
  ASSUME NEW t, IsTree(t)
  PROVE  Strict(t) <=> Reproducible(t) /\ ~HasFloat(t)
<1>1. ASSUME Strict(t) PROVE Reproducible(t) /\ ~HasFloat(t)
  <2>1. \A r \in Readers : ~Unreadable(t, r) /\ ReadBack(t, r) = t
    <3>1. \A r \in Readers : ~Unreadable(t, r)
      BY <1>1, CanonicalAssumption DEF Unreadable, Strict, NodeAllowed
    <3> QED BY <1>1, <3>1, StrictAsWritten
  <2>2. ASSUME NEW p \in DOMAIN t, t[p].kind = "int" PROVE ~Confused(t[p].n)
    <3>1. t[p].n \in (-(Limit - 1))..(Limit - 1)
      BY <1>1, <2>2 DEF Strict, NodeAllowed, IJSONMaxSafeInt
    <3> QED BY <3>1, WithinIsClear
  <2>3. ~HasFloat(t)
    BY <1>1 DEF HasFloat, Strict, NodeAllowed
  <2> QED BY <2>1, <2>2, <2>3 DEF Reproducible
<1>2. ASSUME Reproducible(t), ~HasFloat(t) PROVE Strict(t)
  <2>1. \A r \in Readers : ~Unreadable(t, r) /\ ReadBack(t, r) = t
    BY <1>2 DEF Reproducible
  <2>2. "python" \in Readers /\ "down" \in Readers
    BY DEF Readers
  <2>3. \A p \in DOMAIN t : (\A i \in DOMAIN p : p[i] \in Keys) /\ TextPath(p) = p
    BY <2>1, <2>2, ReadAsIsKeys
  <2>4. \A r \in Readers, p \in DOMAIN t : ReadNode(t[p], r) = t[p]
    BY <2>1, <2>3, ReadAsIsNodes
  <2> SUFFICES ASSUME NEW p \in DOMAIN t PROVE NodeAllowed(t[p])
    BY <2>3 DEF Strict
  <2>5. t[p] \in Nodes
    BY TreeNodes
  <2>6. t[p].kind \notin {"tuple", "float", "fraction"}
    BY <1>2, <2>2, <2>4, <2>5, ReadNodeType DEF HasFloat
  <2>7. t[p].kind \notin {"other", "broken", "nan"}
    BY <2>1, <2>2 DEF Unreadable
  <2>8. CASE t[p].kind = "int"
    <3>1. t[p].n \in Int
      BY <2>5, <2>8 DEF Nodes, JsonNodes
    <3>2. Double(t[p].n, "down") = t[p].n
      <4>1. ReadNode(t[p], "down") = DoubleNode(Double(t[p].n, "down"))
        BY <2>8 DEF ReadNode
      <4>2. DoubleNode(Double(t[p].n, "down")).n = t[p].n
        BY <2>2, <2>4, <4>1
      <4> QED BY <4>2 DEF DoubleNode
    <3>3. t[p].n \in Doubles
      BY <3>1, <3>2, DoubleType, CanonicalAssumption
    <3>4. ~Confused(t[p].n)
      BY <1>2, <2>8 DEF Reproducible
    <3>5. t[p].n \in (-(Limit - 1))..(Limit - 1)
      BY <3>3, <3>4, BeyondIsConfused
    <3> QED BY <2>8, <3>5 DEF NodeAllowed, IJSONMaxSafeInt
  <2>9. CASE t[p].kind # "int"
    BY <2>5, <2>6, <2>7, <2>9 DEF NodeAllowed, Nodes, JsonNodes
  <2> QED BY <2>8, <2>9
<1> QED BY <1>1, <1>2

-------------------------------------------------------------------------------
\* Trees stay trees when a part is left out or replaced.
LEMMA WithoutType ==
  ASSUME NEW t, IsTree(t), NEW p
  PROVE  IsTree(Without(t, p)) /\ (IsJson(t) => IsJson(Without(t, p)))
<1> DEFINE w == Without(t, p)
<1>1. DOMAIN w \subseteq DOMAIN t /\ \A q \in DOMAIN w : w[q] = t[q]
  BY DEF Without
<1>2. w = [q \in DOMAIN w |-> w[q]]
  BY DEF Without
<1> HIDE DEF w
<1>3. IsTree(w)
  <2>1. DOMAIN t \subseteq Seq(Steps)
    BY DEF IsTree
  <2> QED BY <1>1, <1>2, <2>1, TreeNodes, TreeOf
<1>4. IsJson(t) => IsJson(w)
  BY <1>1 DEF IsJson
<1> QED BY <1>3, <1>4 DEF w

LEMMA WithType ==
  ASSUME NEW t, IsTree(t), NEW p \in Seq(Steps), NEW x \in JsonNodes
  PROVE  /\ IsTree(With(t, p, x))
         /\ (IsJson(t) /\ \A i \in DOMAIN p : p[i] # NumberKey) => IsJson(With(t, p, x))
<1> DEFINE w == With(t, p, x)
<1>1. x \in Nodes /\ x.kind # "tuple"
  BY DEF JsonNodes, Nodes
<1>2. DOMAIN w \subseteq DOMAIN t \union {p}
      /\ \A q \in DOMAIN w : w[q] = IF q = p THEN x ELSE t[q]
  BY DEF With, Without
<1>3. w = [q \in DOMAIN w |-> w[q]]
  BY DEF With
<1> HIDE DEF w
<1>4. IsTree(w)
  <2>1. DOMAIN t \subseteq Seq(Steps)
    BY DEF IsTree
  <2> QED BY <1>1, <1>2, <1>3, <2>1, TreeNodes, TreeOf
<1>5. (IsJson(t) /\ \A i \in DOMAIN p : p[i] # NumberKey) => IsJson(w)
  BY <1>1, <1>2 DEF IsJson
<1> QED BY <1>4, <1>5 DEF w

-------------------------------------------------------------------------------
\* The paths of a manifest, told apart by their length and first step.
LEMMA Paths ==
  /\ \A p \in Optional \union {Catalogue("act_type_id"), EntryVersion} :
       Len(p) = 2 /\ p[1] = "catalogue"
  /\ Len(<<>>) = 0
  /\ \A field \in {"title", "claim", "catalogue", "evidence", "recipients"} :
       Len(<<field>>) = 1 /\ <<field>>[1] = field
  /\ EntryVersion \notin Optional /\ Catalogue("act_type_id") \notin Optional
  BY DEF Optional, Pair, Release, Catalogue, EntryVersion, ComputedBy

\* What begins with a path has its first step, and is no shorter.
LEMMA PrefixOf ==
  ASSUME NEW p \in Seq(Steps), NEW q \in Seq(Steps), Prefix(p, q), Len(p) > 0
  PROVE  Len(q) >= Len(p) /\ q[1] = p[1] /\ (Len(q) = Len(p) => q = p)
<1>1. Len(p) \in Nat /\ Len(q) \in Nat /\ Len(p) <= Len(q) /\ SubSeq(q, 1, Len(p)) = p
  BY DEF Prefix
<1>2. SubSeq(q, 1, Len(p))[1] = q[1]
  BY <1>1
<1>3. SubSeq(q, 1, Len(q)) = q
  BY <1>1
<1> QED BY <1>1, <1>2, <1>3

LEMMA FieldPaths ==
  ASSUME NEW d, DOMAIN d \subseteq Seq(Steps), NEW list \in Lists, NEW p \in Items(d, list),
         NEW f \in ItemFields(list)
  PROVE  /\ p \in DOMAIN d /\ Len(p) = 2 /\ p[1] = list
         /\ Len(Append(p, f)) = 3 /\ Append(p, f)[1] = list
<1>1. p \in DOMAIN d /\ Len(p) = 2 /\ p[1] = list
  BY DEF Items, Under
<1>2. p \in Seq(Steps)
  BY <1>1
<1>3. f \in Steps
  BY ManifestAssumption DEF ItemFields, Steps
<1>4. Len(Append(p, f)) = Len(p) + 1 /\ \A i \in 1..Len(p) : Append(p, f)[i] = p[i]
  BY <1>2, <1>3, AppendProperties
<1>5. Len(Append(p, f)) = 3 /\ Append(p, f)[1] = p[1]
  BY <1>1, <1>4
<1> QED BY <1>1, <1>5

\* No optional field is a required one.
LEMMA OptionalIsNotRequired == Optional \intersect Required = {}
<1> SUFFICES ASSUME NEW p \in Optional PROVE p \notin Required
  OBVIOUS
<1>1. Len(p) = 2
  BY Paths
<1>2. Len(<<>>) = 0 /\ Len(<<"title">>) = 1 /\ Len(<<"claim">>) = 1 /\ Len(<<"catalogue">>) = 1
  OBVIOUS
<1>3. p # EntryVersion /\ p # Catalogue("act_type_id")
  BY Paths
<1>4. \A q \in {<<>>, <<"title">>, <<"claim">>, <<"catalogue">>} : Len(q) # 2
  BY <1>2
<1> QED BY <1>1, <1>3, <1>4 DEF Required

\* The paths that are kept with all below them are in the catalogue or in lists.
LEMMA WholePaths ==
  ASSUME NEW d, DOMAIN d \subseteq Seq(Steps),
         NEW p \in {Catalogue("act_type_id")} \union AllFields(d)
  PROVE  /\ p \in Seq(Steps)
         /\ \/ p = Catalogue("act_type_id") /\ Len(p) = 2 /\ p[1] = "catalogue"
            \/ Len(p) = 3 /\ p[1] \in Lists
<1>1. CASE p = Catalogue("act_type_id")
  <2>1. "catalogue" \in Steps /\ "act_type_id" \in Steps
    BY ManifestAssumption DEF Steps
  <2>2. p \in Seq(Steps)
    BY <1>1, <2>1 DEF Catalogue
  <2> QED BY <1>1, <2>2, Paths
<1>2. CASE p \in AllFields(d)
  <2>1. PICK list \in Lists :
          \E r \in Items(d, list), f \in ItemFields(list) : p = Append(r, f)
    BY <1>2 DEF AllFields, FieldsOfItems
  <2>2. PICK r \in Items(d, list), f \in ItemFields(list) : p = Append(r, f)
    BY <2>1
  <2>3. r \in DOMAIN d /\ Len(p) = 3 /\ p[1] = list
    BY <2>2, FieldPaths
  <2>4. r \in Seq(Steps) /\ f \in Steps
    BY <2>3, ManifestAssumption DEF ItemFields, Steps
  <2>5. p \in Seq(Steps)
    BY <2>2, <2>4
  <2> QED BY <2>3, <2>5
<1> QED BY <1>1, <1>2

LEMMA BelowOf ==
  ASSUME NEW d, DOMAIN d \subseteq Seq(Steps),
         NEW q \in Below(d, {Catalogue("act_type_id")} \union AllFields(d))
  PROVE  /\ q \in DOMAIN d
         /\ \/ Len(q) > 1 /\ q[1] = "catalogue"
               /\ (Len(q) = 2 => q = Catalogue("act_type_id"))
            \/ Len(q) > 2 /\ q[1] \in Lists
<1>1. PICK p \in {Catalogue("act_type_id")} \union AllFields(d) : Prefix(p, q)
  BY DEF Below
<1>2. q \in DOMAIN d /\ q \in Seq(Steps) /\ Len(q) \in Nat
  BY DEF Below
<1>3. /\ p \in Seq(Steps)
      /\ \/ p = Catalogue("act_type_id") /\ Len(p) = 2 /\ p[1] = "catalogue"
         \/ Len(p) = 3 /\ p[1] \in Lists
  BY WholePaths
<1>4. Len(q) >= Len(p) /\ q[1] = p[1] /\ (Len(q) = Len(p) => q = p)
  BY <1>1, <1>2, <1>3, PrefixOf
<1>5. CASE p = Catalogue("act_type_id") /\ Len(p) = 2 /\ p[1] = "catalogue"
  <2>1. Len(q) > 1 /\ q[1] = "catalogue"
    BY <1>2, <1>4, <1>5
  <2>2. Len(q) = 2 => q = Catalogue("act_type_id")
    BY <1>4, <1>5, Zenon
  <2> QED BY <1>2, <2>1, <2>2
<1>6. CASE Len(p) = 3 /\ p[1] \in Lists
  <2>1. Len(q) > 2 /\ q[1] \in Lists
    BY <1>2, <1>4, <1>6
  <2> QED BY <1>2, <2>1
<1> QED BY <1>3, <1>5, <1>6

\* An optional field is kept if it is given.
LEMMA KeptOptional ==
  ASSUME NEW d, DOMAIN d \subseteq Seq(Steps), NEW q \in Kept(d), q \in Optional
  PROVE  q \in Given(d)
<1>1. Len(q) = 2 /\ q[1] = "catalogue" /\ q # Catalogue("act_type_id")
  BY Paths
<1>2. q \notin Required
  BY OptionalIsNotRequired
<1>3. q \notin ListPaths
  BY <1>1, Paths DEF ListPaths, Lists
<1>4. q \notin AllItems(d)
  BY <1>1 DEF AllItems, Items, Under, Lists
<1>5. q \notin Under(d, "title") \union Under(d, "claim")
  BY <1>1 DEF Under
<1>6. q \notin Below(d, {Catalogue("act_type_id")} \union AllFields(d))
  BY <1>1, BelowOf DEF Lists
<1> QED BY <1>2, <1>3, <1>4, <1>5, <1>6 DEF Kept

\* A manifest that has both of the package's fields or neither is written whole.
LEMMA WrittenWhole ==
  ASSUME NEW m, IsTree(m), BothOrNeither(m)
  PROVE  ManifestToDict(m) = m
<1>1. Emitted(m) = DOMAIN m
  BY DEF Emitted, BothOrNeither
<1>2. m = [p \in DOMAIN m |-> m[p]]
  BY TreeNodes
<1> QED BY <1>1, <1>2 DEF ManifestToDict

\* The manifests that build_manifest and manifest_from_dict return.
IsManifest(m) ==
  /\ IsTree(m)
  /\ BothOrNeither(m)
  /\ Formed(m)
  /\ \A p \in Given(m) : Text(m[p])

CountsRead(m) == \A p \in DOMAIN m : IsCount(p) => m[p].kind = "int" /\ m[p].n # None

\* No optional field of a manifest is null.
LEMMA GivenOfManifest ==
  ASSUME NEW m, IsTree(m), DOMAIN m = Kept(m)
  PROVE  Given(m) = DOMAIN m \intersect Optional
<1> SUFFICES ASSUME NEW p \in DOMAIN m, p \in Optional PROVE p \in Given(m)
  BY DEF Given
<1> QED BY KeptOptional DEF IsTree

\* The cases of FieldFromDict exclude each other.
LEMMA FieldCases ==
  /\ <<"claim">> \notin ListPaths /\ ~IsCount(<<"claim">>)
  /\ \A list \in Lists : ~IsCount(<<list>>)
<1>1. \A field \in {"claim"} \union Lists : <<field>> # EntryVersion /\ Len(<<field>>) # 3
  BY Paths DEF Lists
<1>2. \A list \in Lists : <<list>> # <<"claim">>
  BY DEF Lists
<1> QED BY <1>1, <1>2 DEF IsCount, ListPaths

\* Read again, a manifest is the same.
LEMMA ReadAgain ==
  ASSUME NEW m, IsManifest(m), CountsRead(m)
  PROVE  ManifestFromDict(m) = m
<1>1. IsTree(m) /\ DOMAIN m = Kept(m)
  BY DEF IsManifest, Formed
<1>2. Required \subseteq DOMAIN m
  BY <1>1 DEF Kept
<1>3. ~HalfPair(Given(m))
  <2>1. Given(m) \intersect Pair = DOMAIN m \intersect Pair
    BY <1>1, GivenOfManifest DEF Optional
  <2> QED BY <2>1 DEF HalfPair, IsManifest, BothOrNeither
<1>4. \A p \in DOMAIN m : IsCount(p) => Convertible(m[p])
  BY DEF CountsRead, Convertible
<1>5. Readable(m)
  <2>1. /\ m[<<>>].kind = "dict" /\ m[<<"catalogue">>].kind = "dict"
        /\ m[<<"claim">>] = Dict
        /\ \A list \in Lists : ReadableList(m, list)
    BY DEF IsManifest, Formed
  <2>2. \A p \in Given(m) : Text(m[p])
    BY DEF IsManifest
  <2>3. m[<<"claim">>].kind = "dict"
    BY <2>1 DEF Dict
  <2> QED BY <1>2, <1>3, <1>4, <2>1, <2>2, <2>3 DEF Readable
<1>6. \A p \in DOMAIN m : FieldFromDict(m, p) = m[p]
  <2> SUFFICES ASSUME NEW p \in DOMAIN m PROVE FieldFromDict(m, p) = m[p]
    OBVIOUS
  <2>1. CASE p = <<"claim">>
    BY <2>1, FieldCases DEF FieldFromDict, IsManifest, Formed
  <2>2. CASE p # <<"claim">> /\ p \in ListPaths
    <3>1. PICK list \in Lists : p = <<list>>
      BY <2>2 DEF ListPaths
    <3>2. m[p] = List
      BY <3>1 DEF IsManifest, Formed
    <3> QED BY <2>2, <3>1, <3>2, FieldCases DEF FieldFromDict
  <2>3. CASE p # <<"claim">> /\ p \notin ListPaths /\ IsCount(p)
    <3>1. m[p] = [kind |-> m[p].kind, n |-> m[p].n]
      BY <1>1, TreeNodes
    <3>2. m[p] = [kind |-> "int", n |-> m[p].n]
      BY <2>3, <3>1 DEF CountsRead
    <3> QED BY <2>3, <3>2 DEF FieldFromDict
  <2>4. CASE p # <<"claim">> /\ p \notin ListPaths /\ ~IsCount(p)
    BY <2>4 DEF FieldFromDict
  <2> QED BY <2>1, <2>2, <2>3, <2>4
<1>7. m = [p \in DOMAIN m |-> m[p]]
  BY <1>1, TreeNodes
<1> QED BY <1>1, <1>5, <1>6, <1>7 DEF ManifestFromDict

\* What can be read has all that is kept of it, but for lists that are not there.
LEMMA KeptIsThere ==
  ASSUME NEW d, Readable(d)
  PROVE  Kept(d) \subseteq DOMAIN d \union ListPaths
<1>1. Required \union Given(d) \subseteq DOMAIN d
  BY DEF Readable, Given
<1>2. Under(d, "title") \union Under(d, "claim") \union AllItems(d) \subseteq DOMAIN d
  BY DEF Under, AllItems, Items
<1>3. Below(d, {Catalogue("act_type_id")} \union AllFields(d)) \subseteq DOMAIN d
  BY DEF Below
<1> QED BY <1>1, <1>2, <1>3 DEF Kept

\* A manifest that was read.
LEMMA ReadType ==
  ASSUME NEW d, IsTree(d), NEW m, m = ManifestFromDict(d), m # None
  PROVE  IsManifest(m) /\ CountsRead(m)
<1>1. Readable(d) /\ m = [p \in Kept(d) |-> FieldFromDict(d, p)]
  BY DEF ManifestFromDict
<1>2. DOMAIN d \subseteq Seq(Steps)
  BY DEF IsTree
<1>3. DOMAIN m = Kept(d) /\ \A p \in DOMAIN m : m[p] = FieldFromDict(d, p)
  BY <1>1
<1>4. DOMAIN m \subseteq DOMAIN d \union ListPaths
  BY <1>1, <1>3, KeptIsThere
<1>5. ListPaths \subseteq Seq(Steps)
  <2>1. \A s \in Steps : <<s>> \in Seq(Steps)
    OBVIOUS
  <2>2. Lists \subseteq Steps
    BY ManifestAssumption DEF Lists, Steps
  <2> QED BY <2>1, <2>2 DEF ListPaths
<1>6. \A p \in DOMAIN m : p # <<"claim">> /\ p \notin ListPaths /\ ~IsCount(p) => m[p] = d[p]
  BY <1>3 DEF FieldFromDict
<1>7. m[<<"claim">>] = Dict
  BY <1>3, FieldCases DEF FieldFromDict, Kept, Required
<1>8. \A p \in ListPaths : p \in DOMAIN m /\ m[p] = List
  <2> SUFFICES ASSUME NEW list \in Lists PROVE <<list>> \in DOMAIN m /\ m[<<list>>] = List
    BY DEF ListPaths
  <2>1. <<list>> \in ListPaths
    BY DEF ListPaths
  <2> QED BY <1>3, <2>1, FieldCases DEF FieldFromDict, Kept
<1>9. \A p \in DOMAIN m : IsCount(p) => m[p] = [kind |-> "int", n |-> d[p].n] /\ p \in DOMAIN d
  <2> SUFFICES ASSUME NEW p \in DOMAIN m, IsCount(p)
               PROVE  m[p] = [kind |-> "int", n |-> d[p].n] /\ p \in DOMAIN d
    OBVIOUS
  <2>1. p # <<"claim">> /\ p \notin ListPaths
    BY FieldCases DEF ListPaths
  <2> QED BY <1>3, <1>4, <2>1 DEF FieldFromDict
<1>10. IsTree(m)
  <2>1. \A p \in DOMAIN d : d[p] \in Nodes
    BY TreeNodes
  <2>2. \A p \in DOMAIN m : m[p] \in Nodes
    <3> SUFFICES ASSUME NEW p \in DOMAIN m PROVE m[p] \in Nodes
      OBVIOUS
    <3>1. CASE p = <<"claim">> \/ p \in ListPaths
      BY <1>7, <1>8, <3>1, FixedNodes
    <3>2. CASE IsCount(p)
      <4>1. Convertible(d[p]) /\ d[p] \in Nodes
        BY <1>1, <1>9, <2>1, <3>2 DEF Readable
      <4>2. d[p].n \in Int
        BY <4>1 DEF Convertible, Nodes, JsonNodes
      <4> QED BY <1>9, <3>2, <4>2 DEF Nodes, JsonNodes
    <3>3. CASE p # <<"claim">> /\ p \notin ListPaths /\ ~IsCount(p)
      BY <1>4, <1>6, <2>1, <3>3
    <3> QED BY <3>1, <3>2, <3>3
  <2>3. m = [p \in DOMAIN m |-> m[p]]
    BY <1>1
  <2> QED BY <1>2, <1>4, <1>5, <2>2, <2>3, TreeOf
<1>11. \A p \in Given(d) : p \in DOMAIN m /\ m[p] = d[p]
  <2> SUFFICES ASSUME NEW p \in Given(d) PROVE p \in DOMAIN m /\ m[p] = d[p]
    OBVIOUS
  <2>1. p \in DOMAIN m
    BY <1>3 DEF Kept
  <2>2. p \in Optional /\ Len(p) = 2 /\ p[1] = "catalogue"
    BY Paths DEF Given
  <2>3. p # <<"claim">> /\ p \notin ListPaths
    BY <2>2, Paths DEF ListPaths, Lists
  <2>4. ~IsCount(p)
    BY <2>2, Paths DEF IsCount
  <2> QED BY <1>6, <2>1, <2>3, <2>4
<1>12. \A list \in Lists : Items(m, list) = Items(d, list)
  <2> SUFFICES ASSUME NEW list \in Lists PROVE Items(m, list) = Items(d, list)
    OBVIOUS
  <2>1. Items(d, list) \subseteq Items(m, list)
    BY <1>3 DEF Items, Under, Kept, AllItems
  <2>2. \A p \in ListPaths : Len(p) = 1
    BY Paths DEF ListPaths, Lists
  <2>3. Items(m, list) \subseteq Items(d, list)
    BY <1>4, <2>2 DEF Items, Under
  <2> QED BY <2>1, <2>3
<1>13. Given(m) = Given(d)
  <2>1. Given(d) \subseteq Given(m)
    BY <1>11 DEF Given
  <2>2. \A p \in DOMAIN m \intersect Optional : p \in Given(d)
    BY <1>2, <1>3, KeptOptional
  <2> QED BY <2>1, <2>2 DEF Given
<1>14. Under(m, "title") \union Under(m, "claim") = Under(d, "title") \union Under(d, "claim")
  <2>1. Under(d, "title") \union Under(d, "claim") \subseteq DOMAIN m
    BY <1>3 DEF Kept
  <2>2. \A p \in ListPaths : p[1] \notin {"title", "claim"}
    BY Paths DEF ListPaths, Lists
  <2> QED BY <1>4, <2>1, <2>2 DEF Under
<1>15. DOMAIN m = Kept(m)
  <2>1. AllItems(m) = AllItems(d) /\ AllFields(m) = AllFields(d)
    BY <1>12 DEF AllItems, AllFields, FieldsOfItems
  <2> DEFINE whole == {Catalogue("act_type_id")} \union AllFields(d)
  <2>2. Below(m, whole) = Below(d, whole)
    <3>1. Below(d, whole) \subseteq Below(m, whole)
      BY <1>3 DEF Below, Kept
    <3>2. ASSUME NEW q \in Below(m, whole) PROVE q \notin ListPaths
      <4>1. DOMAIN m \subseteq Seq(Steps)
        BY <1>10 DEF IsTree
      <4>2. Len(q) > 1
        BY <2>1, <3>2, <4>1, BelowOf
      <4>3. \A p \in ListPaths : Len(p) = 1
        BY Paths DEF ListPaths, Lists
      <4> QED BY <4>2, <4>3
    <3>3. Below(m, whole) \subseteq Below(d, whole)
      BY <1>4, <3>2 DEF Below
    <3> QED BY <3>1, <3>3
  <2> QED BY <1>3, <1>13, <1>14, <2>1, <2>2 DEF Kept
<1>16. BothOrNeither(m)
  <2>1. DOMAIN m \intersect Pair = Given(d) \intersect Pair
    BY <1>10, <1>13, <1>15, GivenOfManifest DEF Optional
  <2>2. Given(d) \intersect Pair \in {{}, Pair}
    BY <1>1 DEF Readable, HalfPair
  <2> QED BY <2>1, <2>2 DEF BothOrNeither
<1>17. m[<<>>].kind = "dict" /\ m[<<"catalogue">>].kind = "dict"
  <2>1. \A p \in {<<>>, <<"catalogue">>} :
          p \in DOMAIN m /\ p # <<"claim">> /\ p \notin ListPaths /\ ~IsCount(p)
    <3>1. \A p \in {<<>>, <<"catalogue">>} : Len(p) < 2 /\ (Len(p) = 1 => p[1] = "catalogue")
      BY Paths
    <3>2. \A p \in {<<>>, <<"catalogue">>} : p \in DOMAIN m
      BY <1>3 DEF Kept, Required
    <3>3. \A p \in ListPaths \union {<<"claim">>} : Len(p) = 1 /\ p[1] # "catalogue"
      BY Paths DEF ListPaths, Lists
    <3>4. Len(EntryVersion) = 2
      BY Paths
    <3> QED BY <3>1, <3>2, <3>3, <3>4 DEF IsCount
  <2>2. m[<<>>] = d[<<>>] /\ m[<<"catalogue">>] = d[<<"catalogue">>]
    BY <1>6, <2>1
  <2> QED BY <1>1, <2>2 DEF Readable
<1>18. \A list \in Lists : ReadableList(m, list)
  <2> SUFFICES ASSUME NEW list \in Lists PROVE ReadableList(m, list)
    OBVIOUS
  <2>1. m[<<list>>].kind = "list"
    BY <1>8 DEF ListPaths, List
  <2>2. ASSUME NEW p \in Items(m, list)
        PROVE  m[p].kind = "dict" /\ \A f \in ItemFields(list) : Append(p, f) \in DOMAIN m
    <3>1. p \in Items(d, list) /\ p \in DOMAIN m /\ Len(p) = 2 /\ p[1] = list
      BY <1>12, <2>2 DEF Items, Under
    <3>2. p # <<"claim">> /\ p \notin ListPaths /\ ~IsCount(p)
      BY <3>1, Paths DEF ListPaths, Lists, IsCount
    <3>3. m[p].kind = "dict"
      BY <1>1, <1>6, <3>1, <3>2 DEF Readable, ReadableList
    <3>4. ASSUME NEW f \in ItemFields(list) PROVE Append(p, f) \in Kept(d)
      <4>1. Append(p, f) \in DOMAIN d /\ Append(p, f) \in AllFields(d)
        <5>1. Append(p, f) \in FieldsOfItems(d, list)
          BY <3>1 DEF FieldsOfItems
        <5>2. ReadableList(d, list)
          BY <1>1 DEF Readable
        <5> QED BY <3>1, <5>1, <5>2 DEF ReadableList, AllFields
      <4>2. Prefix(Append(p, f), Append(p, f))
        <5>1. Append(p, f) \in Seq(Steps)
          BY <1>2, <4>1
        <5> QED BY <5>1 DEF Prefix
      <4> QED BY <4>1, <4>2 DEF Kept, Below
    <3> QED BY <1>3, <3>3, <3>4
  <2> QED BY <2>1, <2>2 DEF ReadableList
<1>19. Formed(m)
  BY <1>7, <1>8, <1>15, <1>17, <1>18 DEF Formed, ListPaths
<1>20. \A p \in Given(m) : Text(m[p])
  BY <1>1, <1>11, <1>13 DEF Readable
<1>21. CountsRead(m)
  BY <1>1, <1>9 DEF CountsRead, Readable, Convertible
<1> QED BY <1>10, <1>16, <1>19, <1>20, <1>21 DEF IsManifest

\* What was read from a text can be written and read again.
LEMMA ReadIsJson ==
  ASSUME NEW d, IsTree(d), IsJson(d), NEW m, m = ManifestFromDict(d), m # None
  PROVE  IsJson(m)
<1>1. /\ Readable(d) /\ DOMAIN m = Kept(d)
      /\ \A p \in DOMAIN m : m[p] = FieldFromDict(d, p)
  BY DEF ManifestFromDict
<1>2. DOMAIN m \subseteq DOMAIN d \union ListPaths
  BY <1>1, KeptIsThere
<1>3. \A p \in ListPaths : \A i \in DOMAIN p : p[i] # NumberKey
  BY ManifestAssumption, CanonicalAssumption DEF ListPaths, Lists
<1>4. \A p \in DOMAIN m : \A i \in DOMAIN p : p[i] # NumberKey
  BY <1>2, <1>3 DEF IsJson
<1>5. ASSUME NEW p \in DOMAIN m PROVE m[p].kind # "tuple"
  <2>1. CASE p = <<"claim">>
    <3>1. m[p] = Dict
      BY <1>1, <2>1, FieldCases DEF FieldFromDict
    <3> QED BY <3>1 DEF Dict
  <2>2. CASE p # <<"claim">> /\ p \in ListPaths
    <3>1. PICK list \in Lists : p = <<list>>
      BY <2>2 DEF ListPaths
    <3>2. m[p] = List
      BY <1>1, <2>2, <3>1, FieldCases DEF FieldFromDict
    <3> QED BY <3>2 DEF List
  <2>3. CASE p # <<"claim">> /\ p \notin ListPaths /\ IsCount(p)
    BY <1>1, <2>3 DEF FieldFromDict
  <2>4. CASE p # <<"claim">> /\ p \notin ListPaths /\ ~IsCount(p)
    BY <1>1, <1>2, <2>4 DEF FieldFromDict, IsJson
  <2> QED BY <2>1, <2>2, <2>3, <2>4
<1> QED BY <1>4, <1>5 DEF IsJson

\* A manifest that was built.
LEMMA BuildType ==
  ASSUME NEW args \in BuildArgs, NEW m, m = BuildManifest(args), m # None
  PROVE  IsManifest(m)
<1>1. IsTree(args) /\ Formed(args)
  BY ReceiptFileAssumption
<1>2. /\ ~HalfPair(DOMAIN args) /\ \A p \in DOMAIN args \intersect Optional : Text(args[p])
      /\ m = [p \in DOMAIN args \union {ComputedBy} |->
                IF p = ComputedBy THEN Version ELSE args[p]]
  BY DEF BuildManifest
<1>3. /\ DOMAIN m = DOMAIN args \union {ComputedBy}
      /\ \A p \in DOMAIN m : m[p] = IF p = ComputedBy THEN Version ELSE args[p]
  BY <1>2
<1>4. /\ ComputedBy \in Optional /\ ComputedBy \notin Pair
      /\ Len(ComputedBy) = 2 /\ ComputedBy[1] = "catalogue"
  BY Paths DEF Optional, Release, Pair, ComputedBy, Catalogue
<1>5. IsTree(m)
  <2>1. ComputedBy \in Seq(Steps)
    <3>1. "catalogue" \in Steps /\ "computed_by" \in Steps
      BY ManifestAssumption DEF Steps
    <3> QED BY <3>1 DEF ComputedBy, Catalogue
  <2>2. \A p \in DOMAIN m : m[p] \in Nodes
    BY <1>1, <1>3, FixedNodes, TreeNodes
  <2>3. m = [p \in DOMAIN m |-> m[p]]
    BY <1>2
  <2>4. DOMAIN args \subseteq Seq(Steps)
    BY <1>1 DEF IsTree
  <2> QED BY <1>3, <2>1, <2>2, <2>3, <2>4, TreeOf
<1>6. BothOrNeither(m)
  BY <1>2, <1>3, <1>4 DEF HalfPair, BothOrNeither
<1>7. DOMAIN args = Kept(args)
  BY <1>1 DEF Formed
<1>8. Given(args) = DOMAIN args \intersect Optional
  BY <1>1, <1>7, GivenOfManifest
<1>9. Given(m) = Given(args) \union {ComputedBy}
  <2>1. m[ComputedBy].kind # "null"
    BY <1>3 DEF Version
  <2> QED BY <1>3, <1>4, <1>8, <2>1 DEF Given
<1>10. \A field \in {"title", "claim"} \union Lists : Under(m, field) = Under(args, field)
  BY <1>3, <1>4 DEF Under, Lists
<1>11. \A list \in Lists : Items(m, list) = Items(args, list)
  BY <1>10 DEF Items
<1>12. DOMAIN m = Kept(m)
  <2>1. AllItems(m) = AllItems(args) /\ AllFields(m) = AllFields(args)
    BY <1>11 DEF AllItems, AllFields, FieldsOfItems
  <2> DEFINE whole == {Catalogue("act_type_id")} \union AllFields(args)
  <2>2. Below(m, whole) = Below(args, whole)
    <3>1. ComputedBy \notin Below(m, whole)
      <4>1. DOMAIN m \subseteq Seq(Steps)
        BY <1>5 DEF IsTree
      <4>2. ComputedBy # Catalogue("act_type_id")
        BY <1>4, Paths
      <4> QED BY <1>4, <2>1, <4>1, <4>2, BelowOf DEF Lists
    <3>2. Below(m, whole) \subseteq Below(args, whole)
      BY <1>3, <3>1 DEF Below
    <3>3. Below(args, whole) \subseteq Below(m, whole)
      BY <1>3 DEF Below
    <3> QED BY <3>2, <3>3
  <2> QED BY <1>3, <1>7, <1>9, <1>10, <2>1, <2>2 DEF Kept
<1>13. \A p \in DOMAIN args : p # ComputedBy => m[p] = args[p]
  BY <1>3
<1>14. \A p \in {<<>>, <<"catalogue">>, <<"claim">>} \union ListPaths :
         p \in DOMAIN m /\ m[p] = args[p]
  <2>1. \A p \in {<<>>, <<"catalogue">>, <<"claim">>} \union ListPaths : Len(p) # 2
    BY Paths DEF ListPaths, Lists
  <2>2. \A p \in {<<>>, <<"catalogue">>, <<"claim">>} \union ListPaths : p \in DOMAIN args
    BY <1>7 DEF Kept, Required
  <2> QED BY <1>3, <1>4, <2>1, <2>2
<1>15. ASSUME NEW list \in Lists
       PROVE  m[<<list>>] = List /\ ReadableList(m, list)
  <2>1. m[<<list>>] = List
    BY <1>1, <1>14 DEF Formed, ListPaths
  <2>2. ASSUME NEW p \in Items(m, list)
        PROVE  m[p].kind = "dict" /\ \A f \in ItemFields(list) : Append(p, f) \in DOMAIN m
    <3>1. p \in Items(args, list) /\ p \in DOMAIN args /\ p[1] = list
      BY <1>11, <2>2 DEF Items, Under
    <3>2. m[p] = args[p]
      BY <1>4, <1>13, <3>1 DEF Lists
    <3>3. args[p].kind = "dict" /\ \A f \in ItemFields(list) : Append(p, f) \in DOMAIN args
      BY <1>1, <3>1 DEF Formed, ReadableList
    <3> QED BY <1>3, <3>2, <3>3
  <2> QED BY <2>1, <2>2 DEF ReadableList, List
<1>16. Formed(m)
  BY <1>1, <1>12, <1>14, <1>15 DEF Formed
<1>17. \A p \in Given(m) : Text(m[p])
  <2>1. Text(m[ComputedBy])
    BY <1>3 DEF Text, Version
  <2> QED BY <1>2, <1>8, <1>9, <1>13, <2>1
<1> QED BY <1>5, <1>6, <1>16, <1>17 DEF IsManifest

\* A manifest whose claim was changed below its outermost dict.
LEMMA ChangeType ==
  ASSUME NEW m, IsManifest(m), NEW p \in Under(m, "claim"), IsShared(p), NEW x \in JsonNodes
  PROVE  IsManifest(With(m, p, x))
<1> DEFINE w == With(m, p, x)
           InClaim(q) == Len(q) > 0 /\ q[1] = "claim"
<1>1. IsTree(m) /\ DOMAIN m = Kept(m) /\ Formed(m)
  BY DEF IsManifest, Formed
<1>2. DOMAIN m \subseteq Seq(Steps)
  BY <1>1 DEF IsTree
<1>3. p \in DOMAIN m /\ p \in Seq(Steps) /\ InClaim(p) /\ Len(p) \in Nat /\ Len(p) > 2
  BY <1>2 DEF Under, IsShared
<1>4. IsTree(w)
  BY <1>1, <1>3, WithType
<1>5. DOMAIN w \subseteq DOMAIN m
  BY <1>3 DEF With, Without
<1>6. \A q \in DOMAIN m : ~Prefix(p, q) => q \in DOMAIN w
  BY DEF With, Without
<1>7. \A q \in DOMAIN w : q # p => w[q] = m[q]
  BY DEF With, Without
<1>8. \A q \in DOMAIN m : Prefix(p, q) => InClaim(q) /\ Len(q) > 2
  <2> SUFFICES ASSUME NEW q \in DOMAIN m, Prefix(p, q) PROVE InClaim(q) /\ Len(q) > 2
    OBVIOUS
  <2>1. q \in Seq(Steps) /\ Len(p) \in Nat /\ Len(q) \in Nat
    BY <1>2, <1>3
  <2>2. Len(p) <= Len(q) /\ SubSeq(q, 1, Len(p)) = p
    BY DEF Prefix
  <2>3. SubSeq(q, 1, Len(p))[1] = q[1]
    BY <1>3, <2>1, <2>2
  <2> QED BY <1>3, <2>1, <2>2, <2>3
<1> HIDE DEF w
<1>9. \A q \in DOMAIN m : ~InClaim(q) => q \in DOMAIN w /\ w[q] = m[q]
  BY <1>3, <1>6, <1>7, <1>8
<1>10. <<"claim">> \in DOMAIN w /\ w[<<"claim">>] = m[<<"claim">>]
  <2> DEFINE c == <<"claim">>
  <2>1. c \in DOMAIN m
    BY <1>1 DEF Kept, Required
  <2>2. Len(c) < 2 /\ Len(c) \in Nat
    OBVIOUS
  <2> HIDE DEF c
  <2>3. ~(Len(c) > 2)
    BY <2>2
  <2>4. ~Prefix(p, c) /\ c # p
    BY <1>3, <1>8, <2>1, <2>3
  <2>5. c \in DOMAIN w /\ w[c] = m[c]
    BY <1>6, <1>7, <2>1, <2>4
  <2> QED BY <2>5 DEF c
<1>11. \A q \in Optional \union AllItems(m) \union AllFields(m) \union ListPaths
              \union (Required \ {<<"claim">>}) : ~InClaim(q)
  <2>1. \A q \in Optional \union ListPaths : ~InClaim(q)
    BY Paths DEF ListPaths, Lists
  <2>2. \A q \in AllItems(m) : ~InClaim(q)
    BY DEF AllItems, Items, Under, Lists
  <2>3. ASSUME NEW q \in AllFields(m) PROVE ~InClaim(q)
    <3>1. PICK list \in Lists : q \in FieldsOfItems(m, list)
      BY <2>3 DEF AllFields
    <3>2. PICK r \in Items(m, list), f \in ItemFields(list) : q = Append(r, f)
      BY <3>1 DEF FieldsOfItems
    <3>3. q[1] = list
      BY <1>2, <3>1, <3>2, FieldPaths
    <3> QED BY <3>1, <3>3 DEF Lists
  <2>4. \A q \in Required \ {<<"claim">>} : ~InClaim(q)
    BY Paths DEF Required
  <2> QED BY <2>1, <2>2, <2>3, <2>4
<1>12. Given(w) = Given(m)
  BY <1>5, <1>9, <1>11 DEF Given
<1>13. \A field \in {"title"} \union Lists : Under(w, field) = Under(m, field)
  BY <1>5, <1>9 DEF Under, Lists
<1>14. \A list \in Lists : Items(w, list) = Items(m, list)
  BY <1>13 DEF Items
<1>15. AllItems(w) = AllItems(m) /\ AllFields(w) = AllFields(m)
  BY <1>14 DEF AllItems, AllFields, FieldsOfItems
<1>16. DOMAIN w = Kept(w)
  <2> DEFINE whole == {Catalogue("act_type_id")} \union AllFields(m)
  <2> HIDE DEF whole
  <2>1. Below(w, whole) = Below(m, whole)
    <3>1. \A q \in Below(m, whole) : ~InClaim(q)
      BY <1>2, BelowOf DEF whole, Lists
    <3> QED BY <1>5, <1>9, <3>1 DEF Below
  <2>2. Kept(w) \subseteq DOMAIN w
    <3>1. Kept(m) \subseteq DOMAIN m
      BY <1>1
    <3>2. Required \subseteq DOMAIN w
      BY <1>1, <1>9, <1>10, <1>11 DEF Kept
    <3>3. Given(w) \union ListPaths \union AllItems(w) \subseteq DOMAIN w
      BY <1>9, <1>11, <1>12, <1>15, <3>1 DEF Kept, Given
    <3>4. Under(w, "title") \union Under(w, "claim") \union Below(w, whole) \subseteq DOMAIN w
      BY DEF Under, Below
    <3> QED BY <1>15, <3>2, <3>3, <3>4 DEF Kept, whole
  <2>3. ASSUME NEW q \in DOMAIN w PROVE q \in Kept(w)
    <3>1. CASE InClaim(q)
      BY <2>3, <3>1 DEF Kept, Under
    <3>2. CASE ~InClaim(q)
      <4>1. q \in Kept(m)
        BY <1>1, <1>5, <2>3
      <4>2. q \notin Under(m, "claim")
        BY <3>2 DEF Under
      <4> QED BY <1>12, <1>13, <1>15, <2>1, <4>1, <4>2 DEF Kept, whole
    <3> QED BY <3>1, <3>2
  <2> QED BY <2>2, <2>3
<1>17. BothOrNeither(w)
  <2>1. Pair \intersect DOMAIN w = Pair \intersect DOMAIN m
    BY <1>5, <1>9, <1>11 DEF Optional
  <2> QED BY <2>1 DEF IsManifest, BothOrNeither
<1>18. \A q \in {<<>>, <<"catalogue">>} \union ListPaths : w[q] = m[q]
  <2>1. \A q \in {<<>>, <<"catalogue">>} \union ListPaths : q \in DOMAIN m
    BY <1>1 DEF Kept, Required
  <2>2. \A q \in {<<>>, <<"catalogue">>} : ~InClaim(q)
    BY Paths
  <2> QED BY <1>9, <1>11, <2>1, <2>2
<1>19. ASSUME NEW list \in Lists
       PROVE  w[<<list>>] = List /\ ReadableList(w, list)
  <2>1. w[<<list>>] = List
    BY <1>1, <1>18 DEF Formed, ListPaths
  <2>2. ASSUME NEW q \in Items(w, list)
        PROVE  w[q].kind = "dict" /\ \A f \in ItemFields(list) : Append(q, f) \in DOMAIN w
    <3>1. q \in Items(m, list) /\ q \in AllItems(m) /\ q \in DOMAIN m
      BY <1>14, <2>2 DEF AllItems, Items, Under
    <3>2. w[q] = m[q]
      BY <1>9, <1>11, <3>1
    <3>3. \A f \in ItemFields(list) : Append(q, f) \in AllFields(m)
      BY <3>1 DEF AllFields, FieldsOfItems
    <3>4. \A f \in ItemFields(list) : Append(q, f) \in DOMAIN m
      BY <1>1, <3>1 DEF Formed, ReadableList
    <3> QED BY <1>1, <1>9, <1>11, <3>1, <3>2, <3>3, <3>4 DEF Formed, ReadableList
  <2> QED BY <2>1, <2>2 DEF ReadableList, List
<1>20. Formed(w)
  BY <1>1, <1>10, <1>16, <1>18, <1>19 DEF Formed
<1>21. \A q \in Given(w) : Text(w[q])
  BY <1>9, <1>11, <1>12 DEF Given, IsManifest
<1>22. IsManifest(w)
  BY <1>4, <1>17, <1>20, <1>21 DEF IsManifest
<1> QED BY <1>22 DEF w

-------------------------------------------------------------------------------
\* The hash of a manifest stands for all of it.
LEMMA HashOfManifest ==
  ASSUME NEW m, IsManifest(m), HashManifest(m) # None
  PROVE  HashManifest(m) = m /\ Strict(m) /\ ManifestToDict(m) = m
<1>1. ManifestToDict(m) = m
  BY WrittenWhole DEF IsManifest
<1> QED BY <1>1 DEF HashManifest, HashCanonical, Canonicalize

\* Counts that strict mode lets pass are numbers.
LEMMA StrictCounts ==
  ASSUME NEW m, Strict(m), CountsAreInts(m)
  PROVE  CountsRead(m)
<1> SUFFICES ASSUME NEW p \in DOMAIN m, IsCount(p)
             PROVE  m[p].kind = "int" /\ m[p].n # None
  BY DEF CountsRead
<1>1. m[p].kind = "int"
  BY DEF CountsAreInts
<1>2. m[p].n \in (-IJSONMaxSafeInt)..IJSONMaxSafeInt
  BY <1>1 DEF Strict, NodeAllowed
<1>3. IJSONMaxSafeInt \in Int
  BY CanonicalAssumption DEF IJSONMaxSafeInt
<1>4. m[p].n \in Int
  BY <1>2, <1>3
<1> QED BY <1>1, <1>4, CanonicalAssumption

-------------------------------------------------------------------------------
(***************************************************************************)
(* The inductive invariant.  From the anchor on, the hash is that of the   *)
(* manifest as it was committed to; what is held is a manifest that can be *)
(* read again, and the file a tree that Python reads; and where nothing    *)
(* was edited or changed, both are the receipt as it was issued.           *)
(***************************************************************************)

Committed ==
  /\ IsManifest(committed)
  /\ anchored = HashManifest(committed)
  /\ anchored # None

Issued ==
  /\ origin = BuildReceipt(origin.manifest, anchored)
  /\ IsManifest(origin.manifest)

Untouched == edits = 0 /\ AsCommitted /\ CountsAreInts(committed)

IInv ==
  /\ TypeOK
  /\ stage \in {"made", "anchored", "issued"} => IsManifest(made)
  /\ stage \in {"anchored", "issued"} => Committed
  /\ stage = "issued" => Issued
  /\ origin # None => stage = "issued"
  /\ held # None => /\ stage = "issued"
                    /\ IsManifest(held.manifest)
                    /\ file = NoFile => held = [origin EXCEPT !.manifest = made]
                    /\ Untouched => held = origin
  /\ file # NoFile => /\ stage = "issued"
                      /\ IsJson(file.manifest)
                      /\ Untouched => file \in {origin, [origin EXCEPT !.on_chain_note = None]}

LEMMA InitInv == Init => IInv
  BY ReceiptFileAssumption DEF Init, IInv, TypeOK, Stages

\* A receipt that was issued and not changed is read as it was issued.
LEMMA OriginReadAgain ==
  ASSUME IInv, stage = "issued", Untouched
  PROVE  /\ Strict(committed) /\ committed = anchored /\ origin.manifest = committed
         /\ ReadBack(ManifestToDict(committed), "python") = committed
         /\ \A d \in {origin, [origin EXCEPT !.on_chain_note = None]} : ReadReceipt(d) = origin
<1>1. Committed /\ Issued
  BY DEF IInv
<1>2. origin.manifest = committed /\ made = committed /\ CountsAreInts(committed)
  BY DEF Untouched, AsCommitted
<1>3. anchored = committed /\ Strict(committed) /\ ManifestToDict(committed) = committed
  BY <1>1, HashOfManifest DEF Committed
<1>4. ReadBack(committed, "python") = committed
  BY <1>1, <1>3, StrictAsWritten DEF Committed, IsManifest, Readers
<1>5. ManifestFromDict(committed) = committed
  BY <1>1, <1>2, <1>3, StrictCounts, ReadAgain DEF Committed
<1>6. origin = [manifest |-> committed, manifest_hash |-> anchored,
                payload |-> Payload(anchored), on_chain_note |-> Note(Payload(anchored))]
  BY <1>1, <1>2 DEF Issued, BuildReceipt, Committed
<1>7. committed # None /\ anchored # None
  BY <1>1, <1>3 DEF Committed
<1>8. Payload(anchored) # Garbled /\ Payload(anchored) # Missing
  BY <1>7 DEF Payload, Garbled, Missing
<1>9. ASSUME NEW d \in {origin, [origin EXCEPT !.on_chain_note = None]}
      PROVE  ReadReceipt(d) = origin
  <2>1. PICK note \in {Note(Payload(anchored)), None} :
          d = [manifest |-> committed, manifest_hash |-> anchored,
               payload |-> Payload(anchored), on_chain_note |-> note]
    BY <1>6
  <2>2. d.on_chain_note = note
    BY <2>1
  <2>3. NoteOfDict(d) = Note(Payload(anchored))
    BY <2>1, <2>2 DEF NoteOfDict
  <2>4. d.manifest = committed /\ d.manifest_hash = anchored /\ d.payload = Payload(anchored)
    BY <2>1
  <2>5. ReadReceipt(d) = [manifest |-> ManifestFromDict(d.manifest),
                          manifest_hash |-> d.manifest_hash,
                          payload |-> d.payload, on_chain_note |-> NoteOfDict(d)]
    BY <1>5, <1>7, <1>8, <2>4 DEF ReadReceipt
  <2> QED BY <1>5, <1>6, <2>3, <2>4, <2>5
<1> QED BY <1>2, <1>3, <1>4, <1>9

-------------------------------------------------------------------------------
\* Nothing is issued, held or written before the last of the issuer's steps.
LEMMA BeforeIssue ==
  ASSUME IInv, stage # "issued"
  PROVE  origin = None /\ held = None /\ file = NoFile
  BY DEF IInv

\* The steps of the issuer and of its caller.
LEMMA StepMake ==
  ASSUME IInv, NEW m, Make(m), m # None => IsManifest(m)
  PROVE  IInv'
<1>1. stage = "start" /\ made' = m /\ stage' \in {"refused", "made"}
      /\ (stage' = "made" => m # None)
      /\ UNCHANGED <<committed, anchored, origin, held, file, edits, text>>
  BY DEF Make, fileVars
<1>2. origin = None /\ held = None /\ file = NoFile
  BY <1>1, BeforeIssue
<1>3. TypeOK'
  BY <1>1, <1>2 DEF IInv, TypeOK, Stages, IsManifest
<1> QED BY <1>1, <1>2, <1>3 DEF IInv

LEMMA StepAnchor == ASSUME IInv, Anchor PROVE IInv'
<1>1. /\ stage = "made" /\ stage' \in {"unhashable", "anchored"}
      /\ (stage' = "anchored" => HashManifest(made) # None)
      /\ anchored' = HashManifest(made) /\ committed' = made
      /\ UNCHANGED <<made, origin, held, file, edits, text>>
  BY DEF Anchor, fileVars
<1>2. IsManifest(made) /\ origin = None /\ held = None /\ file = NoFile
  BY <1>1, BeforeIssue DEF IInv
<1>3. anchored' # None => IsTree(anchored')
  BY <1>1, <1>2, HashOfManifest DEF IsManifest
<1>4. TypeOK'
  BY <1>1, <1>2, <1>3 DEF IInv, TypeOK, Stages, IsManifest
<1>5. stage' = "anchored" => Committed'
  BY <1>1, <1>2 DEF Committed
<1> QED BY <1>1, <1>2, <1>4, <1>5 DEF IInv

LEMMA StepIssue == ASSUME IInv, Issue PROVE IInv'
<1>1. /\ stage = "anchored" /\ IsManifest(made) /\ Committed
      /\ UNCHANGED <<made, committed, anchored, file, edits, text>>
      /\ file = NoFile
  BY BeforeIssue DEF IInv, Issue
<1>2. CASE HashManifest(made) = None
  <2>1. stage' = "unhashable" /\ UNCHANGED <<origin, held>>
    BY <1>2 DEF Issue
  <2>2. origin = None /\ held = None
    BY <1>1 DEF IInv
  <2>3. TypeOK'
    BY <1>1, <2>1 DEF IInv, TypeOK, Stages
  <2> QED BY <1>1, <2>1, <2>2, <2>3 DEF IInv
<1>3. CASE HashManifest(made) # None
  <2>1. /\ stage' = "issued" /\ origin' = BuildReceipt(made, anchored)
        /\ held' = BuildReceipt(made, anchored)
    BY <1>3 DEF Issue
  <2>2. /\ origin' = BuildReceipt(made, anchored)
        /\ origin'.manifest = made /\ IsReceipt(origin')
    BY <1>1, <2>1 DEF BuildReceipt, IsReceipt, IsManifest
  <2>3. TypeOK'
    <3>1. BothOrNeither(made) /\ IsTree(made)
      BY <1>1 DEF IsManifest
    <3> QED BY <1>1, <2>1, <2>2, <3>1 DEF IInv, TypeOK, Stages
  <2>4. Issued'
    BY <1>1, <2>1, <2>2 DEF Issued
  <2>5. Committed'
    BY <1>1 DEF Committed
  <2>6. held' = [origin' EXCEPT !.manifest = made']
    BY <1>1, <2>1 DEF BuildReceipt
  <2> QED BY <1>1, <2>1, <2>2, <2>3, <2>4, <2>5, <2>6 DEF IInv
<1> QED BY <1>2, <1>3

LEMMA StepCallerChangesClaim == ASSUME IInv, CallerChangesClaim PROVE IInv'
<1>1. /\ stage \in {"made", "anchored", "issued"} /\ file = NoFile /\ IsManifest(made)
      /\ UNCHANGED <<stage, committed, anchored, origin, file, edits, text>>
  BY DEF IInv, CallerChangesClaim
<1>2. PICK p \in Under(made, "claim") \ {<<"claim">>}, x \in EditNodes :
        IF IsShared(p)
        THEN /\ made' = With(made, p, x)
             /\ held' = IF held = None THEN None ELSE [held EXCEPT !.manifest = With(made, p, x)]
        ELSE UNCHANGED <<made, held>>
  BY DEF CallerChangesClaim
<1>3. CASE IsShared(p)
  <2>1. x \in JsonNodes
    BY ReceiptFileAssumption
  <2>2. made' = With(made, p, x) /\ IsManifest(made')
    BY <1>1, <1>2, <1>3, <2>1, ChangeType
  <2>3. held' = IF held = None THEN None ELSE [held EXCEPT !.manifest = made']
    BY <1>2, <1>3, <2>2
  <2>4. CASE held = None
    <3>1. held' = None
      BY <2>3, <2>4
    <3>2. TypeOK'
      BY <1>1, <2>2, <3>1 DEF IInv, TypeOK, IsManifest
    <3> QED BY <1>1, <2>2, <3>1, <3>2 DEF IInv, Committed, Issued
  <2>5. CASE held # None
    <3>1. /\ stage = "issued" /\ held = [origin EXCEPT !.manifest = made]
          /\ Issued /\ IsReceipt(held)
      BY <1>1, <2>5 DEF IInv, TypeOK
    <3>2. held' = [origin EXCEPT !.manifest = made']
      BY <2>3, <2>5, <3>1 DEF Issued, BuildReceipt
    <3>3. held'.manifest = made' /\ IsReceipt(held')
      BY <2>2, <3>1, <3>2 DEF Issued, BuildReceipt, IsReceipt, IsManifest
    <3>4. AsCommitted' => made' = origin.manifest
      BY <1>1 DEF AsCommitted
    <3>5. AsCommitted' => held' = origin
      BY <3>1, <3>2, <3>4 DEF Issued, BuildReceipt
    <3>6. TypeOK'
      BY <1>1, <2>2, <3>3 DEF IInv, TypeOK, IsManifest
    <3>7. Committed' /\ Issued'
      BY <1>1, <3>1 DEF IInv, Committed, Issued
    <3> QED BY <1>1, <2>2, <3>1, <3>2, <3>3, <3>5, <3>6, <3>7 DEF IInv, Untouched
  <2> QED BY <2>4, <2>5
<1>4. CASE ~IsShared(p)
  <2>1. UNCHANGED <<made, held>>
    BY <1>2, <1>4
  <2> QED BY <1>1, <2>1 DEF IInv, TypeOK, Committed, Issued, Untouched, AsCommitted
<1> QED BY <1>3, <1>4

-------------------------------------------------------------------------------
\* The steps on the receipt in memory and its file, after it was issued.
LEMMA StepFile ==
  ASSUME IInv, stage = "issued", UNCHANGED <<issuerVars, text>>, edits' \in 0..MaxEdits,
         held' # None =>
           /\ IsReceipt(held') /\ IsManifest(held'.manifest)
           /\ Untouched' => held' = origin,
         file' = NoFile => held' = held /\ file = NoFile,
         file' # NoFile =>
           /\ IsReceipt(file') /\ IsJson(file'.manifest)
           /\ Untouched' => file' \in {origin, [origin EXCEPT !.on_chain_note = None]}
  PROVE  IInv'
<1>1. UNCHANGED <<stage, made, committed, anchored, origin, text>>
  BY DEF issuerVars
<1>2. TypeOK'
  BY <1>1 DEF IInv, TypeOK, IsManifest
<1>3. Committed' /\ Issued'
  BY <1>1 DEF IInv, Committed, Issued
<1>4. IsManifest(made')
  BY <1>1 DEF IInv
<1>5. held' # None =>
        /\ IsManifest(held'.manifest)
        /\ file' = NoFile => held' = [origin' EXCEPT !.manifest = made']
        /\ Untouched' => held' = origin'
  BY <1>1 DEF IInv
<1>6. file' # NoFile =>
        /\ IsJson(file'.manifest)
        /\ Untouched' => file' \in {origin', [origin' EXCEPT !.on_chain_note = None]}
  BY <1>1
<1> QED BY <1>1, <1>2, <1>3, <1>4, <1>5, <1>6 DEF IInv

\* What the steps on the file find.
LEMMA FileType ==
  ASSUME IInv, file # NoFile
  PROVE  /\ stage = "issued" /\ Issued /\ Committed
         /\ IsReceipt(file) /\ IsTree(file.manifest) /\ IsJson(file.manifest)
         /\ Untouched => file \in {origin, [origin EXCEPT !.on_chain_note = None]}
<1>1. /\ stage = "issued" /\ IsJson(file.manifest)
      /\ Untouched => file \in {origin, [origin EXCEPT !.on_chain_note = None]}
  BY DEF IInv
<1>2. IsReceipt(file)
  BY DEF IInv, TypeOK
<1>3. Issued /\ Committed
  BY <1>1 DEF IInv
<1> QED BY <1>1, <1>2, <1>3 DEF IsReceipt

\* A receipt is a file, and stays one when a field is replaced.
LEMMA ReceiptFields ==
  ASSUME NEW r, IsReceipt(r)
  PROVE  /\ r # NoFile
         /\ \A t : IsTree(t) =>
              /\ IsReceipt([r EXCEPT !.manifest = t])
              /\ [r EXCEPT !.manifest = t].manifest = t
         /\ \A h : /\ IsReceipt([r EXCEPT !.manifest_hash = h])
                   /\ [r EXCEPT !.manifest_hash = h].manifest = r.manifest
                   /\ IsReceipt([r EXCEPT !.payload = h])
                   /\ [r EXCEPT !.payload = h].manifest = r.manifest
                   /\ IsReceipt([r EXCEPT !.on_chain_note = h])
                   /\ [r EXCEPT !.on_chain_note = h].manifest = r.manifest
<1>1. PICK m, h, p, n :
        r = [manifest |-> m, manifest_hash |-> h, payload |-> p, on_chain_note |-> n]
  BY DEF IsReceipt
<1>2. IsTree(m)
  BY <1>1 DEF IsReceipt
<1>3. r # NoFile
  <2>1. DOMAIN NoFile = {}
    BY DEF NoFile
  <2>2. "manifest" \in DOMAIN r
    BY <1>1
  <2> QED BY <2>1, <2>2
<1>4. ASSUME NEW t, IsTree(t)
      PROVE  /\ IsReceipt([r EXCEPT !.manifest = t])
             /\ [r EXCEPT !.manifest = t].manifest = t
  BY <1>1, <1>4 DEF IsReceipt
<1>5. ASSUME NEW x
      PROVE  /\ IsReceipt([r EXCEPT !.manifest_hash = x])
             /\ [r EXCEPT !.manifest_hash = x].manifest = r.manifest
             /\ IsReceipt([r EXCEPT !.payload = x])
             /\ [r EXCEPT !.payload = x].manifest = r.manifest
             /\ IsReceipt([r EXCEPT !.on_chain_note = x])
             /\ [r EXCEPT !.on_chain_note = x].manifest = r.manifest
  BY <1>1, <1>2 DEF IsReceipt
<1> QED BY <1>3, <1>4, <1>5

LEMMA StepWrite == ASSUME IInv, Write PROVE IInv'
<1> DEFINE b == ReadBack(ManifestToDict(held.manifest), "python")
<1>1. /\ stage = "issued" /\ IsReceipt(held) /\ IsManifest(held.manifest)
      /\ Untouched => held = origin
      /\ edits \in 0..MaxEdits
  BY DEF IInv, TypeOK, Write
<1>2. ManifestToDict(held.manifest) = held.manifest
  BY <1>1, WrittenWhole DEF IsManifest
<1>3. file' = [held EXCEPT !.manifest = b] /\ UNCHANGED <<issuerVars, held, edits, text>>
  BY DEF Write, WriteReceipt
<1>4. b # None
  BY <1>1, ReceiptFields, ReadBackType, <1>2 DEF Write, WriteReceipt, IsReceipt
<1>5. IsTree(b) /\ IsJson(b)
  BY <1>1, <1>2, <1>4, ReadBackType DEF IsManifest
<1>6. Untouched => file' = origin
  <2> SUFFICES ASSUME Untouched PROVE file' = origin
    OBVIOUS
  <2>1. held = origin /\ b = origin.manifest
    BY <1>1, OriginReadAgain
  <2>2. file' = [origin EXCEPT !.manifest = origin.manifest]
    BY <1>3, <2>1
  <2>3. IsReceipt(origin)
    BY <1>1, <2>1
  <2> QED BY <2>2, <2>3 DEF IsReceipt
<1>7. IsReceipt(file') /\ file' # NoFile /\ file'.manifest = b
  BY <1>1, <1>3, <1>5, ReceiptFields
<1>8. Untouched' => Untouched
  BY <1>3 DEF Untouched, AsCommitted, issuerVars
<1> QED BY <1>1, <1>3, <1>5, <1>6, <1>7, <1>8, StepFile

\* What a file with a tree as its manifest is read as.
LEMMA ReceiptRead ==
  ASSUME NEW d, IsTree(d.manifest), NEW r, r = ReadReceipt(d), r # None
  PROVE  /\ r = [manifest |-> ManifestFromDict(d.manifest), manifest_hash |-> d.manifest_hash,
                 payload |-> d.payload, on_chain_note |-> NoteOfDict(d)]
         /\ d.manifest_hash # None /\ d.payload # Missing
         /\ d.on_chain_note = None => d.payload # Garbled
         /\ IsManifest(r.manifest) /\ CountsRead(r.manifest)
         /\ IsReceipt(r)
<1>1. /\ ManifestFromDict(d.manifest) # None
      /\ d.manifest_hash # None /\ d.payload # Missing
      /\ d.on_chain_note = None => d.payload # Garbled
      /\ r = [manifest |-> ManifestFromDict(d.manifest), manifest_hash |-> d.manifest_hash,
              payload |-> d.payload, on_chain_note |-> NoteOfDict(d)]
  BY DEF ReadReceipt
<1>2. IsManifest(r.manifest) /\ CountsRead(r.manifest)
  BY <1>1, ReadType
<1>3. IsReceipt(r)
  BY <1>1, <1>2 DEF IsReceipt, IsManifest
<1> QED BY <1>1, <1>2, <1>3

LEMMA StepRead == ASSUME IInv, Read PROVE IInv'
<1>1. /\ file # NoFile /\ held' = ReadReceipt(file) /\ ReadReceipt(file) # None
      /\ UNCHANGED <<issuerVars, file, edits, text>>
      /\ edits \in 0..MaxEdits
  BY DEF Read, IInv, TypeOK
<1>2. IsReceipt(held') /\ IsManifest(held'.manifest)
  BY <1>1, FileType, ReceiptRead
<1>3. Untouched => held' = origin
  BY <1>1, FileType, OriginReadAgain
<1>4. Untouched' => Untouched
  BY <1>1 DEF Untouched, AsCommitted, issuerVars
<1>5. /\ stage = "issued" /\ IsReceipt(file) /\ IsJson(file.manifest)
      /\ Untouched => file \in {origin, [origin EXCEPT !.on_chain_note = None]}
  BY <1>1, FileType
<1> QED BY <1>1, <1>2, <1>3, <1>4, <1>5, StepFile

LEMMA HeldType ==
  ASSUME IInv, file # NoFile, held # None
  PROVE  IsReceipt(held) /\ IsManifest(held.manifest) /\ (Untouched => held = origin)
  BY DEF IInv, TypeOK

LEMMA StepPassOn == ASSUME IInv, PassOn PROVE IInv'
<1>1. /\ file # NoFile /\ UNCHANGED <<issuerVars, held, edits, text>>
      /\ edits \in 0..MaxEdits
  BY DEF PassOn, IInv, TypeOK
<1>2. PICK r \in Readers :
        /\ ReadBack(file.manifest, r) # None
        /\ file' = [file EXCEPT !.manifest = ReadBack(file.manifest, r)]
  BY DEF PassOn
<1>3. IsTree(ReadBack(file.manifest, r)) /\ IsJson(ReadBack(file.manifest, r))
  BY <1>1, <1>2, FileType, ReadBackType
<1>4. IsReceipt(file') /\ file' # NoFile /\ IsJson(file'.manifest)
  BY <1>1, <1>2, <1>3, FileType, ReceiptFields
<1>5. Untouched => file' = file
  <2> SUFFICES ASSUME Untouched PROVE file' = file
    OBVIOUS
  <2>1. Strict(committed) /\ origin.manifest = committed
    BY <1>1, FileType, OriginReadAgain
  <2>2. IsReceipt(file) /\ file \in {origin, [origin EXCEPT !.on_chain_note = None]} /\ Issued
    BY <1>1, FileType
  <2>3. file.manifest = origin.manifest
    BY <2>2 DEF Issued, BuildReceipt
  <2>4. ReadBack(file.manifest, r) = file.manifest
    BY <1>1, <2>1, <2>2, <2>3, StrictAsWritten DEF IsReceipt
  <2>5. file' = [file EXCEPT !.manifest = file.manifest]
    BY <1>2, <2>4
  <2> QED BY <2>2, <2>5 DEF IsReceipt
<1>6. Untouched' => Untouched
  BY <1>1 DEF Untouched, AsCommitted, issuerVars
<1> QED BY <1>1, <1>4, <1>5, <1>6, FileType, HeldType, StepFile

LEMMA StepPredate == ASSUME IInv, Predate PROVE IInv'
<1>1. /\ file # NoFile /\ UNCHANGED <<issuerVars, held, edits, text>>
      /\ edits \in 0..MaxEdits
      /\ file' = [file EXCEPT !.on_chain_note = None]
  BY DEF Predate, IInv, TypeOK
<1>2. IsReceipt(file') /\ file' # NoFile /\ IsJson(file'.manifest)
  BY <1>1, FileType, ReceiptFields
<1>3. Untouched => file' = [origin EXCEPT !.on_chain_note = None]
  <2> SUFFICES ASSUME Untouched PROVE file' = [origin EXCEPT !.on_chain_note = None]
    OBVIOUS
  <2>1. /\ file \in {origin, [origin EXCEPT !.on_chain_note = None]}
        /\ origin = BuildReceipt(origin.manifest, anchored)
    BY <1>1, FileType DEF Issued
  <2> QED BY <1>1, <2>1 DEF BuildReceipt
<1>4. Untouched' => Untouched
  BY <1>1 DEF Untouched, AsCommitted, issuerVars
<1> QED BY <1>1, <1>2, <1>3, <1>4, FileType, HeldType, StepFile

LEMMA StepEdit == ASSUME IInv, Edit PROVE IInv'
<1>1. /\ file # NoFile /\ UNCHANGED <<issuerVars, held, text>>
      /\ edits < MaxEdits /\ edits' = edits + 1 /\ edits \in 0..MaxEdits
  BY DEF Edit, IInv, TypeOK
<1>2. edits' \in 0..MaxEdits /\ ~Untouched'
  BY <1>1, ReceiptFileAssumption DEF Untouched
<1>3. IsReceipt(file) /\ IsTree(file.manifest) /\ IsJson(file.manifest) /\ stage = "issued"
  BY <1>1, FileType
<1>4. IsReceipt(file') /\ IsJson(file'.manifest)
  <2>1. ASSUME NEW p \in EditPaths, NEW x \in EditNodes,
               file' = [file EXCEPT !.manifest = With(file.manifest, p, x)]
        PROVE  IsReceipt(file') /\ IsJson(file'.manifest)
    <3>1. p \in Seq(Keys) /\ x \in JsonNodes
      BY ReceiptFileAssumption
    <3>2. p \in Seq(Steps) /\ \A i \in DOMAIN p : p[i] # NumberKey
      BY <3>1, CanonicalAssumption DEF Steps
    <3>3. IsTree(With(file.manifest, p, x)) /\ IsJson(With(file.manifest, p, x))
      BY <1>3, <3>1, <3>2, WithType
    <3> QED BY <1>3, <2>1, <3>3, ReceiptFields
  <2>2. ASSUME NEW p \in EditPaths,
               file' = [file EXCEPT !.manifest = Without(file.manifest, p)]
        PROVE  IsReceipt(file') /\ IsJson(file'.manifest)
    <3>1. IsTree(Without(file.manifest, p)) /\ IsJson(Without(file.manifest, p))
      BY <1>3, WithoutType
    <3> QED BY <1>3, <2>2, <3>1, ReceiptFields
  <2>3. ASSUME NEW x, \/ file' = [file EXCEPT !.manifest_hash = x]
                      \/ file' = [file EXCEPT !.payload = x]
        PROVE  IsReceipt(file') /\ IsJson(file'.manifest)
    <3>1. CASE file' = [file EXCEPT !.manifest_hash = x]
      BY <1>3, <3>1, ReceiptFields
    <3>2. CASE file' = [file EXCEPT !.payload = x]
      BY <1>3, <3>2, ReceiptFields
    <3> QED BY <2>3, <3>1, <3>2
  <2>4. \/ \E p \in EditPaths, x \in EditNodes :
             file' = [file EXCEPT !.manifest = With(file.manifest, p, x)]
        \/ \E p \in EditPaths : file' = [file EXCEPT !.manifest = Without(file.manifest, p)]
        \/ \E x : \/ file' = [file EXCEPT !.manifest_hash = x]
                  \/ file' = [file EXCEPT !.payload = x]
    BY DEF Edit
  <2> QED BY <2>1, <2>2, <2>3, <2>4
<1>5. file' # NoFile
  BY <1>4, ReceiptFields
<1> QED BY <1>1, <1>2, <1>3, <1>4, <1>5, HeldType, StepFile

LEMMA StepRehash == ASSUME IInv, Rehash PROVE IInv'
<1>1. /\ stage = "start" /\ stage' = "rehashed" /\ text' \in Texts
      /\ UNCHANGED <<made, committed, anchored, origin, held, file, edits>>
  BY DEF Rehash, fileVars
<1>2. TypeOK'
  BY <1>1 DEF IInv, TypeOK, Stages
<1>3. origin = None /\ held = None /\ file = NoFile
  BY <1>1, BeforeIssue
<1> QED BY <1>1, <1>2, <1>3 DEF IInv

\* The invariant holds in every state.
THEOREM Invariance == Spec => []IInv
<1>1. ASSUME IInv, [Next]_vars PROVE IInv'
  <2>1. ASSUME Build PROVE IInv'
    <3>1. PICK args \in BuildArgs : Make(BuildManifest(args))
      BY <2>1 DEF Build
    <3> QED BY <1>1, <3>1, BuildType, StepMake
  <2>2. ASSUME Load PROVE IInv'
    <3>1. PICK d \in InputDicts : Make(ManifestFromDict(d))
      BY <2>2 DEF Load
    <3>2. IsTree(d)
      BY ReceiptFileAssumption
    <3> QED BY <1>1, <3>1, <3>2, ReadType, StepMake
  <2>3. CASE UNCHANGED vars
    <3>1. UNCHANGED <<stage, made, committed, anchored, origin, held, file, edits, text>>
      BY <2>3 DEF vars, issuerVars, fileVars
    <3> QED BY <1>1, <3>1 DEF IInv, TypeOK, Committed, Issued, Untouched, AsCommitted
  <2>4. CASE Over
    BY <2>3, <2>4 DEF Over
  <2> QED BY <1>1, <2>1, <2>2, <2>3, <2>4, StepAnchor, StepIssue, StepCallerChangesClaim,
             StepWrite, StepRead, StepPassOn, StepPredate, StepEdit, StepRehash DEF Next
<1> QED BY InitInv, <1>1, PTL DEF Spec

-------------------------------------------------------------------------------
(***************************************************************************)
(* What the runs check.                                                    *)
(***************************************************************************)

\* Every variable has its type, and no manifest one of the package's fields alone.
THEOREM TypeCorrect == Spec => []TypeOK
<1>1. IInv => TypeOK
  BY DEF IInv
<1> QED BY <1>1, Invariance, PTL

\* A receipt that nobody changed reads the same for everybody and has the hash
\* that was anchored, after any number of readers and writers.
THEOREM IssuedSurvives == Spec => []ReceiptSurvives
<1>1. ASSUME IInv PROVE ReceiptSurvives
  <2> SUFFICES ASSUME file # NoFile, edits = 0, AsCommitted, CountsAreInts(origin.manifest)
               PROVE  /\ ReadReceipt(file) = origin
                      /\ HashManifest(origin.manifest) = origin.manifest_hash
                      /\ origin.manifest_hash = anchored
                      /\ HashCanonical(file.manifest) = anchored
    BY DEF ReceiptSurvives
  <2>1. Untouched
    BY DEF Untouched, AsCommitted
  <2>2. /\ Issued /\ Committed /\ stage = "issued"
        /\ file \in {origin, [origin EXCEPT !.on_chain_note = None]}
    BY <1>1, <2>1, FileType
  <2>3. /\ Strict(committed) /\ committed = anchored /\ origin.manifest = committed
        /\ ReadReceipt(file) = origin
    BY <1>1, <2>1, <2>2, OriginReadAgain
  <2>4. /\ origin = BuildReceipt(origin.manifest, anchored)
        /\ HashManifest(committed) = anchored
    BY <2>2 DEF Issued, Committed
  <2>5. origin.manifest_hash = HashManifest(origin.manifest) /\ file.manifest = origin.manifest
    BY <2>2, <2>4 DEF BuildReceipt
  <2> QED BY <2>3, <2>4, <2>5 DEF HashCanonical, Canonicalize
<1> QED BY <1>1, Invariance, PTL

\* A receipt whose hashes fit what was anchored holds the manifest that was
\* committed to, whatever was edited.
THEOREM HashBindsManifest == Spec => []SubstitutionShows
<1>1. ASSUME IInv PROVE SubstitutionShows
  <2> SUFFICES ASSUME file # NoFile, NEW r, r = ReadReceipt(file), r # None,
                      HashManifest(r.manifest) = r.manifest_hash,
                      r.manifest_hash = anchored
               PROVE  r.manifest = committed
    BY DEF SubstitutionShows
  <2>1. Committed /\ IsTree(file.manifest)
    BY <1>1, FileType
  <2>2. IsManifest(r.manifest)
    BY <2>1, ReceiptRead
  <2>3. anchored = committed
    BY <2>1, HashOfManifest DEF Committed
  <2>4. HashManifest(r.manifest) = anchored /\ anchored # None
    BY <2>1 DEF Committed
  <2> QED BY <2>2, <2>3, <2>4, HashOfManifest
<1> QED BY <1>1, Invariance, PTL

\* What was read once is read the same again.
THEOREM ReadingIsStable == Spec => []ReadingSettles
<1>1. ASSUME IInv PROVE ReadingSettles
  <2> SUFFICES ASSUME file # NoFile, NEW r, r = ReadReceipt(file), r # None,
                      WriteReceipt(r).manifest # None
               PROVE  ReadReceipt(WriteReceipt(r)) = r
    BY DEF ReadingSettles
  <2> DEFINE m == r.manifest
  <2>1. IsTree(file.manifest) /\ IsJson(file.manifest)
    BY <1>1, FileType
  <2>2. /\ r = [manifest |-> ManifestFromDict(file.manifest), manifest_hash |-> file.manifest_hash,
                payload |-> file.payload, on_chain_note |-> NoteOfDict(file)]
        /\ file.manifest_hash # None /\ file.payload # Missing
        /\ file.on_chain_note = None => file.payload # Garbled
        /\ IsManifest(m) /\ CountsRead(m) /\ IsReceipt(r)
    BY <2>1, ReceiptRead
  <2>3. ManifestToDict(m) = m /\ ManifestFromDict(m) = m
    BY <2>2, WrittenWhole, ReadAgain DEF IsManifest
  <2>4. WriteReceipt(r).manifest = ReadBack(m, "python")
    BY <2>2, <2>3 DEF WriteReceipt
  <2>5. ReadBack(m, "python") = m
    <3>1. m = ManifestFromDict(file.manifest) /\ m # None
      BY <2>2 DEF ReadReceipt
    <3>2. IsJson(m)
      BY <2>1, <3>1, ReadIsJson
    <3>3. IsTree(m)
      BY <2>2 DEF IsManifest
    <3> QED BY <2>4, <3>2, <3>3, JsonAsWritten
  <2>6. WriteReceipt(r) = r
    BY <2>2, <2>3, <2>5 DEF WriteReceipt
  <2>7. r.manifest_hash # None /\ r.payload # Missing
    BY <2>2
  <2>8. NoteOfDict(r) = r.on_chain_note /\ (r.on_chain_note = None => r.payload # Garbled)
    BY <2>2 DEF NoteOfDict
  <2>9. m # None
    BY <2>2 DEF ReadReceipt
  <2> QED BY <2>2, <2>3, <2>6, <2>7, <2>8, <2>9 DEF ReadReceipt
<1> QED BY <1>1, Invariance, PTL

\* A manifest is refused only if a float is in it or somebody may read it as
\* something else, and hashed only if nobody may; None, which stands for no tree,
\* is taken to be none.
THEOREM StrictIsRight ==
  ASSUME ~IsTree(None)
  PROVE  Spec => []StrictIsExact
<1> DEFINE Refused == stage = "unhashable" => IsTree(made) /\ BothOrNeither(made) /\ ~Strict(made)
<1>1. ASSUME NEW m, IsManifest(m), HashManifest(m) = None
      PROVE  IsTree(m) /\ BothOrNeither(m) /\ ~Strict(m)
  <2>1. IsTree(m) /\ BothOrNeither(m) /\ ManifestToDict(m) = m
    BY <1>1, WrittenWhole DEF IsManifest
  <2>2. m # None
    BY <2>1
  <2> QED BY <1>1, <2>1, <2>2 DEF HashManifest, HashCanonical, Canonicalize
<1>2. Init => Refused
  BY DEF Init
<1>3. ASSUME IInv, Refused, [Next]_vars PROVE Refused'
  <2>1. CASE stage' # "unhashable"
    BY <2>1
  <2>2. CASE stage' = "unhashable"
    <3>1. CASE Anchor
      <4>1. IsManifest(made) /\ HashManifest(made) = None /\ made' = made
        BY <1>3, <2>2, <3>1 DEF IInv, Anchor
      <4> QED BY <1>1, <4>1
    <3>2. CASE Issue
      <4>1. IsManifest(made) /\ HashManifest(made) = None /\ made' = made
        BY <1>3, <2>2, <3>2 DEF IInv, Issue
      <4> QED BY <1>1, <4>1
    <3>3. CASE stage = "unhashable" /\ made' = made
      BY <1>3, <3>3
    <3>4. CASE ~Anchor /\ ~Issue
      <4>1. stage = "unhashable" /\ made' = made
        BY <1>3, <2>2, <3>4 DEF Next, vars, issuerVars, Build, Load, Make, CallerChangesClaim,
             Write, Read, PassOn, Predate, Edit, Rehash, Over
      <4> QED BY <3>3, <4>1
    <3> QED BY <3>1, <3>2, <3>4
  <2> QED BY <2>1, <2>2
<1>4. ASSUME IInv, Refused PROVE StrictIsExact
  <2>1. ASSUME stage = "unhashable"
        PROVE  HasFloat(ManifestToDict(made)) \/ ~Reproducible(ManifestToDict(made))
    <3>1. IsTree(made) /\ ~Strict(made) /\ ManifestToDict(made) = made
      BY <1>4, <2>1, WrittenWhole
    <3> QED BY <3>1, StrictExactly
  <2>2. ASSUME stage \in {"anchored", "issued"} PROVE Reproducible(ManifestToDict(committed))
    <3>1. IsManifest(committed) /\ HashManifest(committed) # None
      BY <1>4, <2>2 DEF IInv, Committed
    <3>2. IsTree(committed) /\ Strict(committed) /\ ManifestToDict(committed) = committed
      BY <3>1, HashOfManifest DEF IsManifest
    <3> QED BY <3>2, StrictExactly
  <2> QED BY <2>1, <2>2 DEF StrictIsExact
<1> HIDE DEF Refused
<1> QED BY <1>2, <1>3, <1>4, Invariance, PTL DEF Spec

\* Where no object repeats a key, every reader takes every member.
LEMMA AllTaken ==
  ASSUME NEW x \in Texts, ~RepeatsKey(x), NEW which
  PROVE  Taken(x, which) = DOMAIN x
<1> SUFFICES ASSUME NEW p \in DOMAIN x, NEW i \in DOMAIN p, NEW s, s = SubSeq(p, 1, i),
                    NEW q \in Siblings(x, s), x[q].key = x[s].key
             PROVE  IF which = "last" THEN q[i] <= p[i] ELSE q[i] >= p[i]
  BY DEF Taken
<1>1. p \in Seq(Nat) /\ s \in DOMAIN x
  BY ReceiptFileAssumption
<1>2. i \in 1..Len(p) /\ Len(p) \in Nat
  BY <1>1
<1>3. Len(s) = i /\ s[i] = p[i] /\ p[i] \in Nat
  <2>1. Len(SubSeq(p, 1, i)) = i
    BY <1>1, <1>2, SubSeqProperties
  <2>2. SubSeq(p, 1, i)[i] = p[i]
    BY <1>1, <1>2, SubSeqProperties
  <2> QED BY <1>1, <1>2, <2>1, <2>2
<1>4. Len(s) > 0
  BY <1>2, <1>3
<1>5. q = s
  <2>1. \A r \in Siblings(x, s) \ {s} : x[s].key # x[r].key
    BY <1>1, <1>4 DEF RepeatsKey
  <2> QED BY <2>1
<1>6. q[i] = p[i]
  BY <1>3, <1>5
<1>7. p[i] <= p[i] /\ p[i] >= p[i]
  BY <1>3
<1> QED BY <1>6, <1>7, Zenon

\* What canonicalize_from_json hashes has one reading.
THEOREM HashedTextsAreClear == Spec => []OneReading
<1>1. ASSUME IInv PROVE OneReading
  <2> SUFFICES ASSUME text # None, CanonicalizeFromJson(text) # None
               PROVE  ReadText(text, "first") = ReadText(text, "last")
    BY DEF OneReading
  <2>1. text \in Texts /\ ~RepeatsKey(text)
    BY <1>1 DEF IInv, TypeOK, CanonicalizeFromJson
  <2>2. Taken(text, "first") = Taken(text, "last")
    BY <2>1, AllTaken
  <2> DEFINE Members(taken) ==
               [k \in {KeyPath(text, p) : p \in taken} |->
                  text[CHOOSE p \in taken : KeyPath(text, p) = k].node]
  <2>3. \A which : ReadText(text, which) = Members(Taken(text, which))
    BY DEF ReadText
  <2> HIDE DEF Members
  <2> QED BY <2>2, <2>3
<1> QED BY <1>1, Invariance, PTL
=============================================================================
