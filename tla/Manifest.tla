------------------------------- MODULE Manifest -------------------------------
(***************************************************************************)
(* manifest.py.  A manifest is the tree that it is written as, but for an  *)
(* optional field that is None, which has no node.  Fields that are only   *)
(* handed through are reduced to one for each place they can stand in:     *)
(* title, act_type_id, sha256, role.                                       *)
(***************************************************************************)
EXTENDS Canonical

Catalogue(field) == <<"catalogue", field>>
EntryVersion == Catalogue("entry_version")
ComputedBy == Catalogue("computed_by")

Pair == {Catalogue("source_package_name"), Catalogue("source_package_version")}
Release ==
  {Catalogue("spec_version"), Catalogue("catalogue_release_digest"),
   Catalogue("pypi_file_sha256"), ComputedBy}
Optional == Pair \union Release

ASSUME ManifestAssumption ==
  {"catalogue", "act_type_id", "computed_by", "evidence", "recipients", "sha256",
   "byte_size", "role"} \subseteq Keys

Required ==
  {<<>>, <<"title">>, <<"claim">>, <<"catalogue">>, Catalogue("act_type_id"), EntryVersion}

Lists == {"evidence", "recipients"}
ListPaths == {<<list>> : list \in Lists}
ItemFields(list) == IF list = "evidence" THEN {"sha256", "byte_size"} ELSE {"role"}

\* The values of list and of whatever is taken as it is, with all that is in them.
Under(t, field) == {p \in DOMAIN t : Len(p) > 0 /\ p[1] = field}
Prefix(p, q) == Len(p) <= Len(q) /\ SubSeq(q, 1, Len(p)) = p
Below(t, paths) == {q \in DOMAIN t : \E p \in paths : Prefix(p, q)}
Items(t, list) == {p \in Under(t, list) : Len(p) = 2}

IsCount(p) ==
  \/ p = EntryVersion
  \/ Len(p) = 3 /\ p[1] = "evidence" /\ p[3] = "byte_size"

Text(x) == x.kind \in {"str", "broken"}
Empty(t, field) == Under(t, field) = {<<field>>}
Version == [kind |-> "str", n |-> None]
Dict == [kind |-> "dict", n |-> None]
List == [kind |-> "list", n |-> None]

-------------------------------------------------------------------------------
\* Mutated form of HalfPair: one of the two will do.
NoHalfPair(fields) == FALSE

\* One of the package's two fields without the other.
HalfPair(fields) == fields \intersect Pair \notin {{}, Pair}

\* The rest of the fields are not looked at; computed_by is filled in.
BuildManifest(args) ==
  IF HalfPair(DOMAIN args) \/ \E p \in DOMAIN args \intersect Optional : ~Text(args[p])
  THEN None
  ELSE [p \in DOMAIN args \union {ComputedBy} |-> IF p = ComputedBy THEN Version ELSE args[p]]

\* Mutated form of Emitted: the release's fields go with the package's.
EmittedTogether(m) ==
  IF Pair \subseteq DOMAIN m THEN DOMAIN m ELSE DOMAIN m \ Optional

Emitted(m) == IF Pair \subseteq DOMAIN m THEN DOMAIN m ELSE DOMAIN m \ Pair

ManifestToDict(m) == [p \in Emitted(m) |-> m[p]]

HashManifest(m) == HashCanonical(ManifestToDict(m))

-------------------------------------------------------------------------------
\* An optional field that is null is None, as if it were not there.
Given(d) == {p \in DOMAIN d \intersect Optional : d[p].kind # "null"}

\* int() takes it.
Convertible(x) == x.kind \in {"int", "bool", "float", "fraction", "str"} /\ x.n # None

\* The items can be walked through and looked into.  An empty dict has none (nor
\* has an empty string: left out).
ReadableList(d, list) ==
  /\ <<list>> \in DOMAIN d =>
       \/ d[<<list>>].kind = "list"
       \/ d[<<list>>].kind = "dict" /\ Empty(d, list)
  /\ \A p \in Items(d, list) :
       /\ d[p].kind = "dict"
       /\ \A f \in ItemFields(list) : Append(p, f) \in DOMAIN d

\* manifest_from_dict raises nothing.  dict() takes an empty list for an empty
\* claim (and an empty string, and a list of pairs for a claim: left out).
Readable(d) ==
  /\ Required \subseteq DOMAIN d
  /\ d[<<>>].kind = "dict" /\ d[<<"catalogue">>].kind = "dict"
  /\ ~HalfPair(Given(d))
  /\ \A p \in Given(d) : Text(d[p])
  /\ \/ d[<<"claim">>].kind = "dict"
     \/ d[<<"claim">>].kind = "list" /\ Empty(d, "claim")
  /\ \A list \in Lists : ReadableList(d, list)
  /\ \A p \in DOMAIN d : IsCount(p) => Convertible(d[p])

AllItems(d) == UNION {Items(d, list) : list \in Lists}
FieldsOfItems(d, list) == {Append(p, f) : p \in Items(d, list), f \in ItemFields(list)}
AllFields(d) == UNION {FieldsOfItems(d, list) : list \in Lists}

\* Whatever else there is in d gets lost.
Kept(d) ==
  Required \union Given(d) \union ListPaths \union AllItems(d)
  \union Under(d, "title") \union Under(d, "claim")
  \union Below(d, {Catalogue("act_type_id")} \union AllFields(d))

\* A list that is not there is empty.
FieldFromDict(d, p) ==
  CASE p = <<"claim">> -> Dict
    [] p \in ListPaths -> List
    [] IsCount(p) -> [kind |-> "int", n |-> d[p].n]
    [] OTHER -> d[p]

ManifestFromDict(d) == IF Readable(d) THEN [p \in Kept(d) |-> FieldFromDict(d, p)] ELSE None
=============================================================================
