----------------------------- MODULE CatalogueLoad -----------------------------
(***************************************************************************)
(* load_catalogue (src/actproof/catalogue.py): any number of processes     *)
(* read a catalogue's files one after the other while an upgrade replaces  *)
(* them, one after the other as well.  A text stands for the bytes of a    *)
(* file and for their hash.  One action per read.                          *)
(***************************************************************************)
EXTENDS Integers

CONSTANTS
  Loaders,      \* the processes that load the catalogue
  Files,        \* the JSON files below acts/, numbered in the order of a scan
  Skipped,      \* those under _deprecated or named *.test_vectors.json
  Texts,        \* what is in them: see Text
  ActTypes, Fields, Labels,  \* act_type_ids, claim fields and evidence labels
  SchemaTexts,  \* what is in the schema files
  Releases,     \* the releases of the catalogue: see Release
  Absent,       \* in place of a text: no such file
  None

\* _SCHEMA_RELATIVE_PATHS, one name and place for each version.
Versions == {"v2", "v3"}

\* What json.loads and _parse_entry make of a text: no JSON; JSON of something
\* else; an entry, which _parse_entry takes; or none of these, which raises.
\* schemas are the schema texts that an entry conforms to.
Forms == {"malformed", "other", "entry", "broken"}
Text ==
  [form: Forms, schema: Versions, schemas: SUBSET SchemaTexts,
   type: ActTypes, version: Nat, required: SUBSET Fields,
   labels: SUBSET Labels, supports: SUBSET Labels]

Contents == Texts \union {Absent}
SchemaContents == SchemaTexts \union {Absent}

\* version is that of the distribution's metadata; spec is the __spec_version__ of
\* the package's module, None where it is too old to have one.
Release ==
  [acts: [Files -> Contents], schemas: [Versions -> SchemaContents], version: Nat,
   spec: Nat \union {None}]

Modules == Nat \union {None, Absent}
Disks ==
  [acts: [Files -> Contents], schemas: [Versions -> SchemaContents],
   version: Nat \union {Absent}, spec: Modules]

\* packaged: no acts_path is given, nor a directory by the environment, and the
\* installed package has the files.
\* schema is what is in the file that schema_path names, None if it is not given.
Options == [packaged: BOOLEAN, validate: BOOLEAN, schema: SchemaContents \union {None}]

ASSUME CatalogueAssumption ==
  /\ Files \subseteq Nat /\ Skipped \subseteq Files
  /\ Texts \subseteq Text /\ Releases \subseteq Release
  /\ Absent \notin Texts \union SchemaTexts \union Nat \union {None}
  /\ None \notin SchemaContents \union Nat \union Options
  /\ None \notin [rows: SUBSET [file: Files, text: Texts]]
  /\ None \notin Disks

VARIABLES
  acts, schemas,  \* the files on disk
  metadata,    \* the distribution's version, or Absent
  module,      \* the module of the package: its __spec_version__, or Absent
  target,      \* the release that is on disk, or that is being put there
  at,          \* where each process is
  opts,        \* the arguments of load_catalogue
  todo,        \* the files it has listed and not read yet
  validators,  \* the schema text it validates each version with
  entries,     \* the entries it has, each with its file
  warned,      \* the files it warned of
  schemaHash,  \* of which text, None for the empty string
  imported,    \* the __spec_version__ of the module it imported, Absent before that
  package,     \* source_package_version; the name is set when it is
  specVersion, \* spec_version of the catalogue
  digest,      \* the rows of catalogue_release_digest, while it is made and after
  still        \* history: the files as they stood throughout the load, None if one changed

diskVars == <<acts, schemas, metadata, module, target>>
packageVars == <<imported, package, specVersion>>
loadVars == <<at, opts, todo, validators, entries, warned, schemaHash, packageVars,
              digest, still>>
vars == <<diskVars, loadVars>>

Entries == [file: Files, text: Texts]
Digests == [rows: SUBSET Entries]

Loading == {"resolve", "schemas", "list", "scan", "packaged", "digest list", "digest"}

-------------------------------------------------------------------------------
Init ==
  /\ target \in Releases
  /\ acts = target.acts
  /\ schemas = target.schemas
  /\ metadata = target.version
  /\ module = target.spec
  /\ at = [l \in Loaders |-> "idle"]
  /\ opts = [l \in Loaders |-> None]
  /\ todo = [l \in Loaders |-> {}]
  /\ validators = [l \in Loaders |-> [v \in Versions |-> None]]
  /\ entries = [l \in Loaders |-> {}]
  /\ warned = [l \in Loaders |-> {}]
  /\ schemaHash = [l \in Loaders |-> None]
  /\ imported = [l \in Loaders |-> Absent]
  /\ package = [l \in Loaders |-> None]
  /\ specVersion = [l \in Loaders |-> None]
  /\ digest = [l \in Loaders |-> None]
  /\ still = [l \in Loaders |-> None]

(***************************************************************************)
(* An upgrade: what is not as in the new release is removed or replaced,   *)
(* in any order.                                                           *)
(***************************************************************************)

Disturb == still' = [l \in Loaders |-> IF at[l] \in Loading THEN None ELSE still[l]]

UpgradeIsOver ==
  /\ acts = target.acts /\ schemas = target.schemas
  /\ metadata = target.version /\ module = target.spec

StartUpgrade ==
  /\ UpgradeIsOver
  /\ \E r \in Releases : r.version > target.version /\ target' = r
  /\ UNCHANGED <<acts, schemas, metadata, module, loadVars>>

Upgrade ==
  /\ \/ /\ \E f \in Files : \E x \in {Absent, target.acts[f]} \ {acts[f]} :
             acts[f] # target.acts[f] /\ acts' = [acts EXCEPT ![f] = x]
        /\ UNCHANGED <<schemas, metadata, module>>
     \/ /\ \E v \in Versions : \E x \in {Absent, target.schemas[v]} \ {schemas[v]} :
             schemas[v] # target.schemas[v] /\ schemas' = [schemas EXCEPT ![v] = x]
        /\ UNCHANGED <<acts, metadata, module>>
     \/ /\ metadata # target.version
        /\ metadata' \in {Absent, target.version} \ {metadata}
        /\ UNCHANGED <<acts, schemas, module>>
     \/ /\ module # target.spec
        /\ module' \in {Absent, target.spec} \ {module}
        /\ UNCHANGED <<acts, schemas, metadata>>
  /\ Disturb
  /\ UNCHANGED <<target, at, opts, todo, validators, entries, warned, schemaHash,
                 packageVars, digest>>

-------------------------------------------------------------------------------
(***************************************************************************)
(* A load.                                                                 *)
(***************************************************************************)

Go(l, from, to) == at[l] = from /\ at' = [at EXCEPT ![l] = to]

\* The file that is read next.
IsNext(l, f) == f \in todo[l] /\ \A g \in todo[l] : f <= g
Done(l, f) == todo' = [todo EXCEPT ![l] = @ \ {f}]

Disk == [acts |-> acts, schemas |-> schemas, version |-> metadata, spec |-> module]

\* An earlier use of the package has the process import it; once is for ever.
Import(l) ==
  /\ at[l] = "idle" /\ imported[l] = Absent /\ module # Absent
  /\ imported' = [imported EXCEPT ![l] = module]
  /\ UNCHANGED <<diskVars, at, opts, todo, validators, entries, warned, schemaHash,
                 package, specVersion, digest, still>>

Listing == {f \in Files \ Skipped : acts[f] # Absent}

Load(l) ==
  /\ Go(l, "idle", "resolve")
  /\ \E o \in Options : opts' = [opts EXCEPT ![l] = o]
  /\ still' = [still EXCEPT ![l] = Disk]
  /\ UNCHANGED <<diskVars, todo, validators, entries, warned, schemaHash, packageVars,
                 digest>>

\* Something raises: no directory, no schema file or one that cannot be read or
\* used, or no jsonschema.
Fail(l) ==
  /\ at[l] \in {"resolve", "schemas"}
  /\ at' = [at EXCEPT ![l] = "failed"]
  /\ UNCHANGED <<diskVars, opts, todo, validators, entries, warned, schemaHash,
                 packageVars, digest, still>>

\* _resolve_acts_path, which imports the package.
Resolve(l) ==
  /\ Go(l, "resolve", IF opts[l].validate THEN "schemas" ELSE "list")
  /\ IF opts[l].packaged /\ imported[l] = Absent
     THEN module # Absent /\ imported' = [imported EXCEPT ![l] = module]
     ELSE UNCHANGED imported
  /\ UNCHANGED <<diskVars, opts, todo, validators, entries, warned, schemaHash,
                 package, specVersion, digest, still>>

\* _resolve_schema_paths and _build_schema_validators: the schema file of one
\* version is found and read, or is not there.
ReadSchema(l) ==
  /\ at[l] = "schemas"
  /\ \E v \in Versions :
       /\ validators[l][v] = None
       /\ validators' = [validators EXCEPT ![l][v] = schemas[v]]
  /\ UNCHANGED <<diskVars, at, opts, todo, entries, warned, schemaHash, packageVars,
                 digest, still>>

HaveSchemas(l) ==
  /\ Go(l, "schemas", "list")
  /\ \A v \in Versions : validators[l][v] # None
  /\ \E v \in Versions : validators[l][v] # Absent
  /\ UNCHANGED <<diskVars, opts, todo, validators, entries, warned, schemaHash,
                 packageVars, digest, still>>

(***************************************************************************)
(* _scan_acts_directory.                                                   *)
(***************************************************************************)

List(l) ==
  /\ Go(l, "list", "scan")
  /\ todo' = [todo EXCEPT ![l] = Listing]
  /\ UNCHANGED <<diskVars, opts, validators, entries, warned, schemaHash, packageVars,
                 digest, still>>

Conforms(l, text) ==
  opts[l].validate => validators[l][text.schema] \in text.schemas

\* No entry of that act type yet.
Fresh(l, text) == \A e \in entries[l] : e.text.type # text.type

\* A text that was read is an entry.
TakeEntry(l) ==
  /\ at[l] = "scan"
  /\ \E f \in todo[l] :
       /\ IsNext(l, f) /\ Done(l, f)
       /\ acts[f] # Absent /\ acts[f].form = "entry"
       /\ Conforms(l, acts[f]) /\ Fresh(l, acts[f])
       /\ entries' = [entries EXCEPT ![l] = @ \union {[file |-> f, text |-> acts[f]]}]
  /\ UNCHANGED <<diskVars, at, opts, validators, warned, schemaHash, packageVars,
                 digest, still>>

\* A README in JSON, say: passed over in silence.
PassOver(l) ==
  /\ at[l] = "scan"
  /\ \E f \in todo[l] :
       /\ IsNext(l, f) /\ Done(l, f)
       /\ acts[f] # Absent /\ acts[f].form = "other"
  /\ UNCHANGED <<diskVars, at, opts, validators, entries, warned, schemaHash,
                 packageVars, digest, still>>

\* Mutated form of WarnOf: the scan ends at a file it cannot read.
StopScanning(l) ==
  /\ at[l] = "scan"
  /\ \E f \in todo[l] :
       /\ IsNext(l, f)
       /\ todo' = [todo EXCEPT ![l] = {}]
       /\ warned' = [warned EXCEPT ![l] = @ \union {f}]
  /\ UNCHANGED <<diskVars, at, opts, validators, entries, schemaHash, packageVars,
                 digest, still>>

\* A file that cannot be read (it may be gone by now), or is no JSON.
WarnOf(l) ==
  /\ at[l] = "scan"
  /\ \E f \in todo[l] :
       /\ IsNext(l, f) /\ Done(l, f)
       /\ warned' = [warned EXCEPT ![l] = @ \union {f}]
  /\ UNCHANGED <<diskVars, at, opts, validators, entries, schemaHash, packageVars,
                 digest, still>>

\* No entry that can be taken: one that does not conform or has no validator, a
\* second one of its act type, or a text that json.loads or _parse_entry raises for.
Refuse(l) ==
  /\ Go(l, "scan", "failed")
  /\ \E f \in todo[l] :
       /\ IsNext(l, f) /\ acts[f] # Absent
       /\ \/ acts[f].form = "entry" /\ ~(Conforms(l, acts[f]) /\ Fresh(l, acts[f]))
          \/ acts[f].form = "broken"
  /\ todo' = [todo EXCEPT ![l] = {}]
  /\ UNCHANGED <<diskVars, opts, validators, entries, warned, schemaHash,
                 packageVars, digest, still>>

(***************************************************************************)
(* What is recorded beside the entries.                                    *)
(***************************************************************************)

\* Mutated form of SchemaFound: the file of v3 is taken to be there.
SchemaUnchecked == schemas["v3"]

\* _resolve_schema_path: v3 comes first, whatever the entries were held against.
SchemaFound ==
  CASE schemas["v3"] # Absent -> schemas["v3"]
    [] schemas["v3"] = Absent /\ schemas["v2"] # Absent -> schemas["v2"]
    [] OTHER -> None

HashSchema(l) ==
  /\ at[l] = "scan" /\ todo[l] = {}
  /\ opts[l].schema # Absent
  /\ at' = [at EXCEPT ![l] = IF opts[l].packaged THEN "packaged" ELSE "loaded"]
  /\ schemaHash' = [schemaHash EXCEPT ![l] =
       IF opts[l].schema = None THEN SchemaFound ELSE opts[l].schema]
  /\ UNCHANGED <<diskVars, opts, todo, validators, entries, warned, packageVars, digest,
                 still>>

\* schema_path is not a file, or the file found cannot be read.
HashSchemaFails(l) ==
  /\ Go(l, "scan", "failed") /\ todo[l] = {}
  /\ UNCHANGED <<diskVars, opts, todo, validators, entries, warned, schemaHash,
                 packageVars, digest, still>>

\* The version of the installed distribution, if there is one; and the one of the
\* specification, which is not read from the disk again.
ReadVersion(l) ==
  /\ Go(l, "packaged", "digest list")
  /\ package' = [package EXCEPT ![l] = IF metadata = Absent THEN None ELSE metadata]
  /\ specVersion' = [specVersion EXCEPT ![l] = imported[l]]
  /\ UNCHANGED <<diskVars, opts, todo, validators, entries, warned, schemaHash,
                 imported, digest, still>>

\* list_catalogue_entries of the package, which is external.
ListForDigest(l) ==
  /\ Go(l, "digest list", "digest")
  /\ todo' = [todo EXCEPT ![l] = Listing]
  /\ digest' = [digest EXCEPT ![l] = [rows |-> {}]]
  /\ UNCHANGED <<diskVars, opts, validators, entries, warned, schemaHash, packageVars,
                 still>>

\* _digest_catalogue_files reads every file anew.
DigestFile(l) ==
  /\ at[l] = "digest"
  /\ \E f \in todo[l] :
       /\ IsNext(l, f) /\ Done(l, f)
       /\ acts[f] # Absent
       /\ digest' = [digest EXCEPT ![l].rows = @ \union {[file |-> f, text |-> acts[f]]}]
  /\ UNCHANGED <<diskVars, at, opts, validators, entries, warned, schemaHash,
                 packageVars, still>>

\* Mutated form of NoDigest: a file that cannot be read is left out of it.
DigestWithout(l) ==
  /\ at[l] = "digest"
  /\ \E f \in todo[l] : IsNext(l, f) /\ Done(l, f)
  /\ UNCHANGED <<diskVars, at, opts, validators, entries, warned, schemaHash,
                 packageVars, digest, still>>

\* The package is not found again or has no list, or a file cannot be read.
NoDigest(l) ==
  /\ at[l] \in {"packaged", "digest list", "digest"}
  /\ at' = [at EXCEPT ![l] = "loaded"]
  /\ digest' = [digest EXCEPT ![l] = None]
  /\ todo' = [todo EXCEPT ![l] = {}]
  /\ UNCHANGED <<diskVars, opts, validators, entries, warned, schemaHash,
                 packageVars, still>>

HaveDigest(l) ==
  /\ Go(l, "digest", "loaded") /\ todo[l] = {}
  /\ UNCHANGED <<diskVars, opts, todo, validators, entries, warned, schemaHash,
                 packageVars, digest, still>>

Progress(l) ==
  \/ Fail(l) \/ Resolve(l) \/ ReadSchema(l) \/ HaveSchemas(l)
  \/ List(l) \/ TakeEntry(l) \/ PassOver(l) \/ WarnOf(l) \/ Refuse(l)
  \/ HashSchema(l) \/ HashSchemaFails(l)
  \/ ReadVersion(l) \/ ListForDigest(l) \/ DigestFile(l) \/ NoDigest(l) \/ HaveDigest(l)

LoadStep ==
  \/ StartUpgrade \/ Upgrade
  \/ \E l \in Loaders : Import(l) \/ Load(l) \/ Progress(l)

-------------------------------------------------------------------------------
(***************************************************************************)
(* Properties.                                                             *)
(***************************************************************************)

\* Every variable of a load has its type.
LoadTypeOK ==
  /\ target \in Releases
  /\ acts \in [Files -> Contents]
  /\ schemas \in [Versions -> SchemaContents]
  /\ metadata \in Nat \union {Absent}
  /\ module \in Modules
  /\ at \in [Loaders -> Loading \union {"idle", "loaded", "failed", "issued", "validated", "checked"}]
  /\ opts \in [Loaders -> Options \union {None}]
  /\ todo \in [Loaders -> SUBSET Files]
  /\ validators \in [Loaders -> [Versions -> SchemaContents \union {None}]]
  /\ entries \in [Loaders -> SUBSET Entries]
  /\ warned \in [Loaders -> SUBSET Files]
  /\ schemaHash \in [Loaders -> SchemaTexts \union {None}]
  /\ imported \in [Loaders -> Modules]
  /\ package \in [Loaders -> Nat \union {None}]
  /\ specVersion \in [Loaders -> Nat \union {None}]
  /\ digest \in [Loaders -> Digests \union {None}]
  /\ still \in [Loaders -> Disks \union {None}]

Loaded(l) == at[l] \in {"loaded", "issued", "validated", "checked"}

IsEntry(text) == text # Absent /\ text.form = "entry"

\* A catalogue that was loaded while no file changed is all that is there: every
\* entry but those that were warned of, no deprecated one, no two of one act type
\* (_scan_acts_directory).
CatalogueIsWhole ==
  \A l \in Loaders : (Loaded(l) /\ still[l] # None) =>
    /\ entries[l] = {[file |-> f, text |-> still[l].acts[f]] :
                       f \in {g \in Files \ (Skipped \union warned[l]) :
                               IsEntry(still[l].acts[g])}}
    /\ \A e, f \in entries[l] : e.text.type = f.text.type => e = f

\* A release digest that is recorded is over every entry that was loaded, byte for
\* byte, although it reads the files again: unless one was changed in between
\* (_read_packaged_release_metadata, which never raises).
DigestCoversEntries ==
  \A l \in Loaders : (Loaded(l) /\ still[l] # None /\ digest[l] # None) =>
    entries[l] \subseteq digest[l].rows
=============================================================================
