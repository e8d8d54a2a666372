------------------------------ MODULE Validation ------------------------------
(***************************************************************************)
(* validate_manifest (src/actproof/catalogue.py), and the check of         *)
(* verify_receipt that calls it (src/actproof/verify.py): a manifest that  *)
(* one process issues under the catalogue it loaded, held against the one  *)
(* that another process loaded, before, during or after an upgrade.        *)
(***************************************************************************)
EXTENDS CatalogueLoad

VARIABLES
  manifest,  \* the manifest each process issued
  of,        \* whose manifest each process validated or checked
  issues,    \* the codes of the ValidationIssues
  verdict    \* the status of the check

validationVars == <<manifest, of, issues, verdict>>
allVars == <<vars, validationVars>>

\* What a manifest says of its catalogue, its claim and its evidence.
Values == {"given", "blank", "missing"}
Manifests ==
  [type: ActTypes, version: Nat, entry: Texts, schema: SchemaTexts \union {None},
   package: Nat \union {None}, spec: Nat \union {None}, stamp: Digests \union {None},
   claim: [Fields -> Values], labels: SUBSET Labels]

BindingCodes ==
  {"ENTRY_VERSION_MISMATCH", "ENTRY_HASH_MISMATCH", "SCHEMA_HASH_MISMATCH",
   "SOURCE_PACKAGE_VERSION_MISMATCH"}
ContentCodes ==
  {"MISSING_REQUIRED_CLAIM_FIELD", "MISSING_REQUIRED_EVIDENCE_LABEL",
   "UNKNOWN_EVIDENCE_LABEL"}
Codes == {"UNKNOWN_ACT_TYPE"} \union BindingCodes \union ContentCodes

ASSUME ValidationAssumption == None \notin Manifests \union Loaders

-------------------------------------------------------------------------------
\* Mutated form of BindingIssues: hashes are not compared.
VersionIssues(m, l, text) ==
  {c \in {"ENTRY_VERSION_MISMATCH"} : m.version # text.version}

\* Mutated form of BindingIssues: a package that one side does not name differs.
StrictIssues(m, l, text) ==
  {c \in {"ENTRY_VERSION_MISMATCH"} : m.version # text.version}
  \union {c \in {"ENTRY_HASH_MISMATCH"} : m.entry # text}
  \union {c \in {"SCHEMA_HASH_MISMATCH"} : schemaHash[l] \notin {None, m.schema}}
  \union {c \in {"SOURCE_PACKAGE_VERSION_MISMATCH"} : m.package # package[l]}

\* The name of the package is the same wherever there is one.
BindingIssues(m, l, text) ==
  {c \in {"ENTRY_VERSION_MISMATCH"} : m.version # text.version}
  \union {c \in {"ENTRY_HASH_MISMATCH"} : m.entry # text}
  \union {c \in {"SCHEMA_HASH_MISMATCH"} : schemaHash[l] \notin {None, m.schema}}
  \union {c \in {"SOURCE_PACKAGE_VERSION_MISMATCH"} :
            None \notin {m.package, package[l]} /\ m.package # package[l]}

ContentIssues(m, text) ==
  {c \in {"MISSING_REQUIRED_CLAIM_FIELD"} :
     \E f \in text.required : m.claim[f] \in {"blank", "missing"}}
  \union {c \in {"MISSING_REQUIRED_EVIDENCE_LABEL"} : ~(text.labels \subseteq m.labels)}
  \union {c \in {"UNKNOWN_EVIDENCE_LABEL"} :
            ~(m.labels \subseteq text.labels \union text.supports)}

EntriesFor(m, l) == {e \in entries[l] : e.text.type = m.type}

Issues(m, l) ==
  IF EntriesFor(m, l) = {}
  THEN {"UNKNOWN_ACT_TYPE"}
  ELSE UNION {BindingIssues(m, l, e.text) \union ContentIssues(m, e.text) :
                e \in EntriesFor(m, l)}

\* The release's fields, each compared where both sides have it.
StampDiffers(m, l) ==
  \/ None \notin {m.spec, specVersion[l]} /\ m.spec # specVersion[l]
  \/ None \notin {m.stamp, digest[l]} /\ m.stamp # digest[l]

\* Mutated form of Conformance: a spec_version or digest on one side only differs.
StrictConformance(m, l) ==
  IF m.spec # specVersion[l] \/ m.stamp # digest[l] \/ Issues(m, l) # {}
  THEN "FAIL" ELSE "PASS"

\* Mutated form of Conformance: the stamp is not looked at.
UnstampedConformance(m, l) == IF Issues(m, l) # {} THEN "FAIL" ELSE "PASS"

\* _check_catalogue_conformance, where there is a catalogue.
Conformance(m, l) == IF StampDiffers(m, l) \/ Issues(m, l) # {} THEN "FAIL" ELSE "PASS"

-------------------------------------------------------------------------------
ValidationInit ==
  /\ Init
  /\ manifest = [l \in Loaders |-> None]
  /\ of = [l \in Loaders |-> None]
  /\ issues = [l \in Loaders |-> {}]
  /\ verdict = [l \in Loaders |-> None]

Loads == LoadStep /\ UNCHANGED validationVars

\* A manifest bound to an entry of the catalogue, with whatever claim and evidence,
\* and stamped with each of the release's fields or not.
Issue(l) ==
  /\ Go(l, "loaded", "issued")
  /\ \E e \in entries[l], claim \in [Fields -> Values], labels \in SUBSET Labels,
        spec \in {None, specVersion[l]}, stamp \in {None, digest[l]} :
       manifest' = [manifest EXCEPT ![l] =
         [type |-> e.text.type, version |-> e.text.version, entry |-> e.text,
          schema |-> schemaHash[l], package |-> package[l], spec |-> spec,
          stamp |-> stamp, claim |-> claim, labels |-> labels]]
  /\ UNCHANGED <<diskVars, opts, todo, validators, entries, warned, schemaHash,
                 packageVars, digest, still, of, issues, verdict>>

Validate(l) ==
  /\ Go(l, "loaded", "validated")
  /\ \E k \in Loaders :
       /\ manifest[k] # None
       /\ of' = [of EXCEPT ![l] = k]
       /\ issues' = [issues EXCEPT ![l] = Issues(manifest[k], l)]
  /\ UNCHANGED <<diskVars, opts, todo, validators, entries, warned, schemaHash,
                 packageVars, digest, still, manifest, verdict>>

\* A receipt of the manifest is verified with the catalogue.
Check(l) ==
  /\ Go(l, "loaded", "checked")
  /\ \E k \in Loaders :
       /\ manifest[k] # None
       /\ of' = [of EXCEPT ![l] = k]
       /\ verdict' = [verdict EXCEPT ![l] = Conformance(manifest[k], l)]
  /\ UNCHANGED <<diskVars, opts, todo, validators, entries, warned, schemaHash,
                 packageVars, digest, still, manifest, issues>>

\* Nothing is loading and no upgrade is under way.
AllEnded ==
  /\ \A l \in Loaders : at[l] \notin Loading \union {"idle"}
  /\ UpgradeIsOver
  /\ UNCHANGED allVars

Next ==
  \/ Loads
  \/ \E l \in Loaders : Issue(l) \/ Validate(l) \/ Check(l)
  \/ AllEnded

Spec == ValidationInit /\ [][Next]_allVars

-------------------------------------------------------------------------------
(***************************************************************************)
(* Properties.                                                             *)
(***************************************************************************)

\* Every variable has its type.
TypeOK ==
  /\ LoadTypeOK
  /\ manifest \in [Loaders -> Manifests \union {None}]
  /\ of \in [Loaders -> Loaders \union {None}]
  /\ issues \in [Loaders -> SUBSET Codes]
  /\ verdict \in [Loaders -> {"PASS", "FAIL", None}]

\* What the entry that the manifest cites asks of it.
Satisfies(m) ==
  /\ \A f \in m.entry.required : m.claim[f] = "given"
  /\ m.entry.labels \subseteq m.labels
  /\ m.labels \subseteq m.entry.labels \union m.entry.supports

\* Of `actproof validate', with a manifest that can be read.
ExitCode(l) == IF at[l] = "failed" \/ issues[l] # {} THEN 1 ELSE 0

\* The command exits with 0, or the check passes.
Approved(l) ==
  \/ at[l] = "validated" /\ ExitCode(l) = 0
  \/ at[l] = "checked" /\ verdict[l] = "PASS"

\* A manifest in which nothing is found satisfies the very entry it was issued
\* under, even where that was loaded from another release, or from a mixture of two.
\* And where it was checked by the digest it is stamped with, that entry is one of
\* the files of the stamped release, whatever the issuer had loaded, if no file
\* changed while the verifier's catalogue was loaded (validate_manifest,
\* _check_catalogue_conformance).
ValidMeansSatisfied ==
  \A l \in Loaders : (of[l] # None /\ Approved(l)) =>
    LET m == manifest[of[l]] IN
    /\ Satisfies(m)
    /\ (at[l] = "checked" /\ still[l] # None /\ None \notin {m.stamp, digest[l]}) =>
         \E row \in m.stamp.rows : row.text = m.entry

\* The spec_version recorded with the files, if any, is that of their release.
ModuleIsCurrent(l) == specVersion[l] \in {None, still[l].spec}

\* No false alarm: where both loads found the same files and neither changed or was
\* warned of, and the same schema was asked for, the only issues are what the
\* manifest lacks by its own entry, wherever the package's version was recorded; and
\* a check fails for such an issue only, wherever a spec_version or a digest was.
\* Excepted from the latter are catalogues with the spec_version of a module that
\* their process imported before an upgrade put another in its place
\* (_read_packaged_release_metadata): such a check fails although the files agree.
NoFalseAlarm ==
  \A l \in Loaders : of[l] # None =>
    LET k == of[l]
        own == ContentIssues(manifest[k], manifest[k].entry)
    IN
    (/\ still[l] # None /\ still[l] = still[k]
     /\ warned[l] = {}
     /\ opts[l].schema = opts[k].schema)
    => /\ at[l] = "validated" => issues[l] = own
       /\ at[l] = "checked" /\ ModuleIsCurrent(l) /\ ModuleIsCurrent(k) =>
            verdict[l] = (IF own = {} THEN "PASS" ELSE "FAIL")
=============================================================================
