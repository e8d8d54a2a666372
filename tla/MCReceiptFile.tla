---------------------------- MODULE MCReceiptFile ----------------------------
(***************************************************************************)
(* An instance of module ReceiptFile for TLC: manifests that differ from   *)
(* a plain one in one thing, or in the groups of optional fields; the     *)
(* doubles are the integers up to 8, and the even ones and the multiples   *)
(* of 4 beyond, up to 32.                                                  *)
(***************************************************************************)
EXTENDS ReceiptFile, TLC

MCKeys ==
  {"catalogue", "act_type_id", "entry_version", "source_package_name",
   "source_package_version", "spec_version", "catalogue_release_digest",
   "pypi_file_sha256", "computed_by", "title", "claim", "evidence", "recipients",
   "sha256", "byte_size", "role", "k", "0", "7"}

Node(kind, n) == [kind |-> kind, n |-> n]
Str == Node("str", None)
Seven == Node("str", 7)
Null == Node("null", None)
Number(n) == Node("int", n)

Plain ==
  <<>> :> Dict @@ <<"title">> :> Str
  @@ <<"catalogue">> :> Dict @@ Catalogue("act_type_id") :> Str @@ EntryVersion :> Number(1)
  @@ <<"claim">> :> Dict @@ <<"claim", "k">> :> List @@ <<"claim", "k", "0">> :> Number(7)
  @@ <<"evidence">> :> List @@ <<"evidence", "0">> :> Dict
  @@ <<"evidence", "0", "sha256">> :> Str @@ <<"evidence", "0", "byte_size">> :> Number(2)
  @@ <<"recipients">> :> List

WithAll(d, paths, x) == [p \in paths |-> x] @@ d

\* What may stand where: numbers at the ends of the range, beyond it
\* and beyond any double, and the rest.
Scalars ==
  {Number(n) : n \in ((-9..9) \ (-6..6)) \union {33}}
  \union {Str, Seven, Null, Node("bool", 1), Node("float", 7),
   Node("fraction", 7)}
MCJsonNodes == Scalars \union {Node("nan", None), Node("broken", None), Dict, List}
PythonNodes == MCJsonNodes \union {Node("tuple", None), Node("other", None)}

Claims(nodes) ==
  {With(Plain, <<"claim", "k">>, x) : x \in nodes}
  \union {With(Plain, <<"claim", "k", "0">>, x) : x \in nodes}

MCBuildArgs ==
  {WithAll(Plain, s, x) : s \in SUBSET (Optional \ {ComputedBy}), x \in {Str}}
  \union {With(Plain, p, x) : p \in Optional \ {ComputedBy}, x \in {Number(1), Node("broken", None)}}
  \union Claims(PythonNodes)
  \union {With(With(Plain, <<"claim", "k">>, Dict), <<"claim", "k", s>>, Number(7)) :
            s \in {BrokenKey, NumberKey}}
  \union {With(Plain, p, x) :
            p \in {EntryVersion, <<"evidence", "0", "byte_size">>},
            x \in {Seven, Node("bool", 1), Node("fraction", 0), Number(8)}}

MCInputDicts ==
  {WithAll(Plain, s, x) : s \in SUBSET Optional, x \in {Str, Null}}
  \union {With(Plain, p, x) : p \in Optional, x \in {Number(1), Dict}}
  \union Claims(MCJsonNodes)
  \union {With(Plain, p, x) :
            p \in (DOMAIN Plain \ {<<>>, <<"claim">>}) \union {<<"k">>, Catalogue("k")},
            x \in {Seven, Node("bool", 1), Node("float", 7), Node("fraction", 0), List, Null}}
  \union {With(With(Plain, p, Dict), Append(p, "k"), Str) :
            p \in {Catalogue("act_type_id"), <<"evidence", "0", "sha256">>}}
  \union {With(Plain, <<"claim">>, x) : x \in {List, Null}}
  \union {With(Plain, <<list>>, x) : list \in Lists, x \in {Dict, List}}
  \union {Without(Plain, p) : p \in DOMAIN Plain \ {<<>>}}

MCEditPaths ==
  Pair \union {Catalogue("spec_version"), EntryVersion, <<"claim", "k">>, <<"evidence">>}
MCEditNodes == {Str, Seven, Null, Node("float", 7)}

\* Texts with one object in another, and up to two members in each.
Member(key, x) == [key |-> key, node |-> x]
MCTexts ==
  {<<>> :> Member(None, Dict) @@ <<1>> :> Member("k", Dict) @@ <<2>> :> Member(a, Str)
   @@ <<1, 1>> :> Member("k", Number(1)) @@ <<1, 2>> :> Member(b, x) :
     a, b \in {"k", "title"}, x \in {Number(1), Number(2), Node("float", 2)}}

IsPlain(m, p) ==
  \/ p \in DOMAIN Plain /\ m[p] = Plain[p]
  \/ p \in Pair \union {ComputedBy, Catalogue("spec_version")}

\* Files are edited where the manifest is the plain one with any of the pair and of
\* two fields of the release, and claims changed after the hash where it is that
\* outside the claim.
FewEdits ==
  /\ edits > 0 => \A p \in DOMAIN origin.manifest : IsPlain(origin.manifest, p)
  /\ stage = "issued" /\ ~AsCommitted =>
       edits = 0 /\ \A p \in DOMAIN made \ Under(made, "claim") : IsPlain(made, p)
=============================================================================
