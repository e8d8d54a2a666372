------------------------------ MODULE Canonical ------------------------------
(***************************************************************************)
(* canonical.py.  A Python value is a tree, and a tree is a function: to   *)
(* the path of a node, the keys and list positions that lead to it from    *)
(* the root, it gives the node.  Whatever is strict has one canonical      *)
(* text, which rfc8785 (external) writes: a canonical text, and its hash,  *)
(* is the tree itself.                                                     *)
(***************************************************************************)
EXTENDS Integers, Sequences

CONSTANTS
  Keys,        \* strings as keys; positions in lists are among them
  BrokenKey,   \* a string with a lone surrogate, as a key
  NumberKey,   \* a number as a key
  NumberText,  \* the string that json.dumps makes of that
  Limit,       \* up to here every integer is a double: 2^53
  Scales,      \* the powers of two of a double's exponent
  None         \* no tree: whatever raises

Steps == Keys \union {BrokenKey, NumberKey}

\* n is the value of a number or the number that a string spells.  A float is one
\* that is whole; a fraction is one that is not, with n what int() makes of it; a
\* nan is any that JSON has no number for.  A broken string has a lone surrogate.
JsonNodes ==
  [kind: {"int", "bool", "float", "fraction"}, n: Int]
  \union [kind: {"str"}, n: Int \union {None}]
  \union [kind: {"null", "nan", "broken", "dict", "list"}, n: {None}]
Nodes == JsonNodes \union [kind: {"tuple", "other"}, n: {None}]

ASSUME CanonicalAssumption ==
  /\ Limit \in Nat \ {0} /\ Limit % 2 = 0
  /\ Scales \subseteq Nat \ {0} /\ 1 \in Scales
  /\ \A s \in Scales : s = 1 \/ s % 2 = 0
  /\ NumberText \in Keys
  /\ {BrokenKey, NumberKey} \intersect Keys = {}
  /\ None \notin Int

IsTree(t) ==
  /\ DOMAIN t \subseteq Seq(Steps)
  /\ t \in [DOMAIN t -> Nodes]

-------------------------------------------------------------------------------
(***************************************************************************)
(* _validate_strict, canonicalize and hash_canonical.                      *)
(***************************************************************************)

IJSONMaxSafeInt == Limit - 1

\* Mutated form of NodeAllowed: the ends of the range are refused.
NodeInside(x) ==
  \/ x.kind \in {"bool", "str", "null", "dict", "list"}
  \/ x.kind = "int" /\ x.n \in (-IJSONMaxSafeInt + 1)..(IJSONMaxSafeInt - 1)

\* Mutated form of NodeAllowed: the limit itself is let through.
NodeUpToLimit(x) ==
  \/ x.kind \in {"bool", "str", "null", "dict", "list"}
  \/ x.kind = "int" /\ x.n \in (-Limit)..Limit

NodeAllowed(x) ==
  \/ x.kind \in {"bool", "str", "null", "dict", "list"}
  \/ x.kind = "int" /\ x.n \in (-IJSONMaxSafeInt)..IJSONMaxSafeInt

Strict(t) ==
  \A p \in DOMAIN t : NodeAllowed(t[p]) /\ \A i \in DOMAIN p : p[i] \in Keys

Canonicalize(t) == IF Strict(t) THEN t ELSE None

HashCanonical(t) == Canonicalize(t)

-------------------------------------------------------------------------------
(***************************************************************************)
(* Those who read the text of a tree: json of Python, or another           *)
(* implementation, which has doubles for all its numbers and rounds either *)
(* way.  Only Python's is code of this system: the others are what the     *)
(* strict mode is there for.                                               *)
(***************************************************************************)

Readers == {"python", "down", "up"}

\* The integers that a double can hold.
Doubles == {s * m : s \in Scales, m \in (-Limit)..Limit}

\* The double next to n on one side, if any.
IsNearest(d, n, way) ==
  IF way = "down" THEN d <= n /\ \A k \in Doubles : k <= n => k <= d
                  ELSE d >= n /\ \A k \in Doubles : k >= n => k >= d

Double(n, way) ==
  CASE n \in Doubles -> n
    [] n \notin Doubles /\ \E d \in Doubles : IsNearest(d, n, way) ->
         CHOOSE d \in Doubles : IsNearest(d, n, way)
    [] OTHER -> None

\* A double that is whole is written as an integer, and an infinite one as null; a
\* fraction is a double, which everybody reads and writes as it is.
DoubleNode(d) == [kind |-> IF d = None THEN "null" ELSE "int", n |-> d]

ReadNode(x, r) ==
  CASE x.kind = "tuple" -> [x EXCEPT !.kind = "list"]
    [] x.kind \in {"int", "float"} /\ r # "python" -> DoubleNode(Double(x.n, r))
    [] OTHER -> x

TextStep(s) == IF s = NumberKey THEN NumberText ELSE s
TextPath(p) == [i \in DOMAIN p |-> TextStep(p[i])]

\* json.dumps or the encoding to UTF-8 raises; the others do not know NaN.
Unreadable(t, r) ==
  \E p \in DOMAIN t :
    \/ t[p].kind \in {"other", "broken"}
    \/ t[p].kind = "nan" /\ r # "python"
    \/ \E i \in DOMAIN p : p[i] = BrokenKey

\* What r reads where t was written.
ReadBack(t, r) ==
  IF Unreadable(t, r) THEN None
  ELSE [q \in {TextPath(p) : p \in DOMAIN t} |->
          ReadNode(t[CHOOSE p \in DOMAIN t : TextPath(p) = q], r)]

\* What strict mode refuses beyond what readers disagree on.
HasFloat(t) == \E p \in DOMAIN t : t[p].kind \in {"float", "fraction"}

\* Somebody reads another integer as n.
Confused(n) == \E r \in Readers \ {"python"}, k \in {n - 1, n + 1} : Double(k, r) = n

\* What strict mode is for: everybody reads t where t was written and nowhere else.
Reproducible(t) ==
  /\ \A r \in Readers : ~Unreadable(t, r) /\ ReadBack(t, r) = t
  /\ \A p \in DOMAIN t : t[p].kind = "int" => ~Confused(t[p].n)

-------------------------------------------------------------------------------
(***************************************************************************)
(* canonicalize_from_json.  A JSON text is a function as well, but a path  *)
(* in it is one of positions, and each position has its key beside its     *)
(* node: an object may repeat a key.                                       *)
(***************************************************************************)

Parent(p) == SubSeq(p, 1, Len(p) - 1)
Siblings(x, p) == {q \in DOMAIN x : Len(q) = Len(p) /\ Parent(q) = Parent(p)}

\* Mutated form of RepeatsKey: only the outermost object is looked at.
RepeatsOuterKey(x) ==
  \E p \in DOMAIN x : Len(p) = 1 /\ \E q \in Siblings(x, p) \ {p} : x[p].key = x[q].key

\* _detect_duplicate_keys, which json.loads calls for each object.
RepeatsKey(x) ==
  \E p \in DOMAIN x : Len(p) > 0 /\ \E q \in Siblings(x, p) \ {p} : x[p].key = x[q].key

\* Of the members with one key a reader takes the last, as Python does, or the first.
Taken(x, which) ==
  {p \in DOMAIN x : \A i \in DOMAIN p :
     \A q \in Siblings(x, SubSeq(p, 1, i)) : x[q].key = x[SubSeq(p, 1, i)].key =>
       IF which = "last" THEN q[i] <= p[i] ELSE q[i] >= p[i]}

KeyPath(x, p) == [i \in DOMAIN p |-> x[SubSeq(p, 1, i)].key]

ReadText(x, which) ==
  [k \in {KeyPath(x, p) : p \in Taken(x, which)} |->
     x[CHOOSE p \in Taken(x, which) : KeyPath(x, p) = k].node]

CanonicalizeFromJson(x) ==
  IF RepeatsKey(x) THEN None ELSE Canonicalize(ReadText(x, "last"))
=============================================================================
