--------------------------- MODULE ValidationProofs ---------------------------
(***************************************************************************)
(* Proofs about modules CatalogueLoad and Validation, for any number of    *)
(* processes, any files and any releases.  The invariant says of a load,   *)
(* at each point and as long as no file has changed, how what it has read  *)
(* relates to what is on disk; of a manifest, which entry it was issued    *)
(* under; and of a validation, what its outcome means.                     *)
(***************************************************************************)
EXTENDS Validation, TLAPS

\* Only the name of a tuple.
USE DEF packageVars

\* Where a process is before it has read an entry, where it has found the files, and
\* where it has read all.
Early == {"idle", "resolve", "schemas", "list"}
Resolved == {"schemas", "list", "scan", "packaged"}
Scanned == {"packaged", "digest list", "digest", "loaded", "issued", "validated", "checked"}

Unique(l) == \A e, f \in entries[l] : e.text.type = f.text.type => e = f

\* The entries in some files, as they stand.
EntriesIn(disk, files) ==
  {[file |-> f, text |-> disk.acts[f]] : f \in {g \in files : IsEntry(disk.acts[g])}}

\* The rows of a digest over some files, as they stand.
RowsOf(disk, files) ==
  {[file |-> f, text |-> disk.acts[f]] : f \in {g \in files : disk.acts[g] # Absent}}

\* The schema that load_catalogue finds there.
FoundIn(disk) ==
  CASE disk.schemas["v3"] # Absent -> disk.schemas["v3"]
    [] disk.schemas["v3"] = Absent /\ disk.schemas["v2"] # Absent -> disk.schemas["v2"]
    [] OTHER -> None

HashFor(disk, o) == IF o.schema = None THEN FoundIn(disk) ELSE o.schema

\* What a load has, if no file has changed since it began.
Undisturbed(l) ==
  /\ at[l] \in Loading => still[l] = Disk
  /\ at[l] = "scan" =>
       entries[l] = EntriesIn(still[l], Files \ (Skipped \union warned[l] \union todo[l]))
  /\ at[l] \in Scanned =>
       /\ entries[l] = EntriesIn(still[l], Files \ (Skipped \union warned[l]))
       /\ schemaHash[l] = HashFor(still[l], opts[l])
  /\ package[l] \in {None, still[l].version}
  /\ at[l] = "digest" =>
       digest[l] = [rows |-> RowsOf(still[l], Files \ (Skipped \union todo[l]))]
  /\ Loaded(l) /\ digest[l] # None =>
       digest[l] = [rows |-> RowsOf(still[l], Files \ Skipped)]

LoaderOK(l) ==
  /\ at[l] \in Early => entries[l] = {} /\ warned[l] = {} /\ package[l] = None
  /\ at[l] \in Early \union {"scan", "packaged", "digest list"} => digest[l] = None
  /\ at[l] = "scan" => todo[l] \subseteq Files \ (Skipped \union warned[l])
  /\ at[l] = "digest" => todo[l] \subseteq Files \ Skipped
  /\ at[l] # "idle" => opts[l] \in Options
  /\ at[l] \in Resolved /\ opts[l].packaged => imported[l] # Absent
  /\ at[l] = "packaged" => opts[l].packaged
  /\ at[l] = "digest" => digest[l] # None
  /\ Unique(l)
  /\ still[l] # None => Undisturbed(l)

\* The manifest is bound to an entry that its issuer loaded.
Bound(l) ==
  \E e \in entries[l] :
    /\ manifest[l].type = e.text.type /\ manifest[l].version = e.text.version
    /\ manifest[l].entry = e.text
    /\ manifest[l].schema = schemaHash[l] /\ manifest[l].package = package[l]
    /\ manifest[l].spec \in {None, specVersion[l]}
    /\ manifest[l].stamp \in {None, digest[l]}

\* The entry that m cites is one of the files that l's catalogue has a digest of.
Stamped(m, l) ==
  (at[l] = "checked" /\ still[l] # None /\ None \notin {m.stamp, digest[l]}) =>
    \E row \in m.stamp.rows : row.text = m.entry

NoFalseAlarmOf(l) ==
  LET k == of[l]
      own == ContentIssues(manifest[k], manifest[k].entry)
  IN
  (/\ still[l] # None /\ still[l] = still[k]
   /\ warned[l] = {}
   /\ opts[l].schema = opts[k].schema)
  => /\ at[l] = "validated" => issues[l] = own
     /\ at[l] = "checked" /\ ModuleIsCurrent(l) /\ ModuleIsCurrent(k) =>
          verdict[l] = (IF own = {} THEN "PASS" ELSE "FAIL")

ValidationOK(l) ==
  /\ manifest[l] # None => at[l] = "issued" /\ Bound(l)
  /\ of[l] # None =>
       /\ at[l] \in {"validated", "checked"}
       /\ manifest[of[l]] # None
       /\ Approved(l) => Satisfies(manifest[of[l]]) /\ Stamped(manifest[of[l]], l)
       /\ NoFalseAlarmOf(l)

IInv ==
  /\ TypeOK
  /\ \A l \in Loaders : LoaderOK(l)
  /\ \A l \in Loaders : ValidationOK(l)

-------------------------------------------------------------------------------
\* A process that does not step, on the disk or in its load, keeps what it has.
Same(l) ==
  /\ at'[l] = at[l] /\ opts'[l] = opts[l] /\ todo'[l] = todo[l]
  /\ entries'[l] = entries[l] /\ warned'[l] = warned[l]
  /\ schemaHash'[l] = schemaHash[l]
  /\ imported'[l] = imported[l] /\ package'[l] = package[l]
  /\ specVersion'[l] = specVersion[l]
  /\ digest'[l] = digest[l] /\ still'[l] = still[l]

LEMMA KeepsLoad ==
  ASSUME NEW l \in Loaders, LoaderOK(l), Same(l),
         UNCHANGED diskVars \/ at[l] \notin Loading
  PROVE  LoaderOK(l)'
<1>1. Unique(l)'
  BY DEF LoaderOK, Same, Unique
<1>2. Undisturbed(l)' <=> Undisturbed(l)
  <2>1. at[l] \in Loading => Disk' = Disk
    BY DEF Disk, diskVars
  <2> QED BY <2>1 DEF Same, Undisturbed, Loaded
<1> QED BY <1>1, <1>2 DEF LoaderOK, Same

\* A process that issued a manifest or validated one keeps both.
LEMMA KeepsValidation ==
  ASSUME IInv, UNCHANGED validationVars,
         \A l \in Loaders : at[l] \in {"issued", "validated", "checked"} => Same(l)
  PROVE  \A l \in Loaders : ValidationOK(l)'
<1> SUFFICES ASSUME NEW l \in Loaders
             PROVE  ValidationOK(l)'
  OBVIOUS
<1>1. ValidationOK(l) /\ TypeOK
  BY DEF IInv
<1>2. manifest[l] # None => at'[l] = "issued" /\ Bound(l)'
  BY <1>1 DEF ValidationOK, Bound, Same, validationVars
<1>3. ASSUME of[l] # None
      PROVE  /\ at'[l] \in {"validated", "checked"} /\ manifest'[of'[l]] # None
             /\ Approved(l)' => Satisfies(manifest'[of'[l]]) /\ Stamped(manifest[of[l]], l)'
             /\ NoFalseAlarmOf(l)'
  <2>1. /\ of[l] \in Loaders /\ at[l] \in {"validated", "checked"}
        /\ manifest[of[l]] # None
    BY <1>1, <1>3 DEF TypeOK, ValidationOK
  <2>2. at[of[l]] = "issued"
    BY <2>1 DEF IInv, ValidationOK
  <2>3. Same(l) /\ Same(of[l])
    BY <2>1, <2>2
  <2>4. NoFalseAlarmOf(l)'
    BY <1>1, <1>3, <2>3 DEF ValidationOK, NoFalseAlarmOf, ModuleIsCurrent, Same, validationVars
  <2> QED BY <1>1, <1>3, <2>1, <2>3, <2>4
      DEF ValidationOK, Same, validationVars, Approved, ExitCode, Stamped
<1> QED BY <1>2, <1>3 DEF ValidationOK, validationVars, Stamped

\* A step of one load preserves the invariant if it preserves what the invariant
\* says of that load, and the types.
LEMMA OneLoads ==
  ASSUME IInv, NEW l \in Loaders, at[l] \in Loading \union {"idle"},
         UNCHANGED diskVars, UNCHANGED validationVars,
         LoadTypeOK', LoaderOK(l)', \A k \in Loaders \ {l} : Same(k)
  PROVE  IInv'
<1>1. \A k \in Loaders : LoaderOK(k)'
  BY KeepsLoad DEF IInv
<1>2. \A k \in Loaders : ValidationOK(k)'
  BY KeepsValidation DEF Loading
<1>3. TypeOK'
  BY DEF IInv, TypeOK, validationVars
<1> QED BY <1>1, <1>2, <1>3 DEF IInv

LEMMA InitInv == ValidationInit => IInv
<1> SUFFICES ASSUME ValidationInit PROVE IInv
  OBVIOUS
<1>1. target \in Release
  BY CatalogueAssumption DEF ValidationInit, Init
<1>2. LoadTypeOK
  BY <1>1 DEF ValidationInit, Init, LoadTypeOK, Release, Contents, SchemaContents, Modules
<1>3. TypeOK
  BY <1>2 DEF ValidationInit, Init, TypeOK
<1>4. \A l \in Loaders : LoaderOK(l)
  BY DEF ValidationInit, Init, LoaderOK, Unique, Resolved
<1>5. \A l \in Loaders : ValidationOK(l)
  BY DEF ValidationInit, Init, ValidationOK
<1> QED BY <1>3, <1>4, <1>5 DEF IInv

-------------------------------------------------------------------------------
\* An upgrade preserves the invariant: it leaves no load undisturbed.
LEMMA UpgradeStep ==
  ASSUME IInv, StartUpgrade \/ Upgrade, UNCHANGED validationVars
  PROVE  IInv'
<1> USE DEF diskVars, loadVars
<1>0. TypeOK /\ LoadTypeOK /\ target \in Release
  BY CatalogueAssumption DEF IInv, TypeOK, LoadTypeOK
<1>1. CASE StartUpgrade
  <2>1. LoadTypeOK'
    BY <1>0, <1>1 DEF StartUpgrade, LoadTypeOK
  <2>2. \A l \in Loaders : Same(l)
    BY <1>1 DEF StartUpgrade, Same
  <2>3. \A l \in Loaders : LoaderOK(l)'
    <3> SUFFICES ASSUME NEW l \in Loaders PROVE LoaderOK(l)'
      OBVIOUS
    <3>1. Disk' = Disk
      BY <1>1 DEF StartUpgrade, Disk
    <3>2. Undisturbed(l)' <=> Undisturbed(l)
      BY <2>2, <3>1 DEF Same, Undisturbed, Loaded
    <3>3. Unique(l)' /\ LoaderOK(l)
      BY <2>2 DEF IInv, LoaderOK, Same, Unique
    <3> QED BY <2>2, <3>2, <3>3 DEF LoaderOK, Same
  <2>4. \A l \in Loaders : ValidationOK(l)'
    BY <2>2, KeepsValidation
  <2> QED BY <1>0, <2>1, <2>3, <2>4 DEF IInv, TypeOK, validationVars
<1>2. CASE Upgrade
  <2>1. LoadTypeOK'
    <3>1. acts' \in [Files -> Contents]
      BY <1>0, <1>2 DEF Upgrade, LoadTypeOK, Release, Contents
    <3>2. schemas' \in [Versions -> SchemaContents]
      BY <1>0, <1>2 DEF Upgrade, LoadTypeOK, Release, SchemaContents
    <3>3. metadata' \in Nat \union {Absent}
      BY <1>0, <1>2 DEF Upgrade, LoadTypeOK, Release
    <3>4. module' \in Modules
      BY <1>0, <1>2 DEF Upgrade, LoadTypeOK, Release, Modules
    <3>5. still' \in [Loaders -> Disks \union {None}]
      BY <1>0, <1>2 DEF Upgrade, LoadTypeOK, Disturb
    <3> QED BY <1>0, <1>2, <3>1, <3>2, <3>3, <3>4, <3>5 DEF Upgrade, LoadTypeOK
  <2>2. \A l \in Loaders : at[l] \notin Loading => Same(l)
    BY <1>2 DEF Upgrade, Same, Disturb
  <2>3. ASSUME NEW l \in Loaders PROVE LoaderOK(l)'
    <3>1. CASE at[l] \in Loading
      <4>1. still'[l] = None
        BY <1>2, <3>1 DEF Upgrade, Disturb
      <4> QED BY <1>2, <4>1 DEF Upgrade, IInv, LoaderOK, Unique
    <3>2. CASE at[l] \notin Loading
      BY <2>2, <3>2, KeepsLoad DEF IInv
    <3> QED BY <3>1, <3>2
  <2>4. \A l \in Loaders : ValidationOK(l)'
    BY <2>2, KeepsValidation DEF Loading
  <2> QED BY <1>0, <2>1, <2>3, <2>4 DEF IInv, TypeOK, validationVars
<1> QED BY <1>1, <1>2

-------------------------------------------------------------------------------
\* The steps before the scan preserve the invariant.
LEMMA ImportStep ==
  ASSUME IInv, NEW l \in Loaders, Import(l), UNCHANGED validationVars
  PROVE  IInv'
<1>1. LoadTypeOK /\ LoaderOK(l) /\ at[l] = "idle"
  BY DEF IInv, TypeOK, Import
<1>2. UNCHANGED <<diskVars, at, opts, todo, validators, entries, warned, schemaHash,
                  package, specVersion, digest, still>>
  BY DEF Import
<1>3. LoadTypeOK'
  <2>1. imported' \in [Loaders -> Modules]
    BY <1>1 DEF Import, LoadTypeOK
  <2> QED BY <1>1, <1>2, <2>1 DEF LoadTypeOK, diskVars
<1>4. LoaderOK(l)'
  <2>1. Disk' = Disk
    BY <1>2 DEF Disk, diskVars
  <2>2. Undisturbed(l)' <=> Undisturbed(l)
    BY <1>2, <2>1 DEF Undisturbed, Loaded
  <2> QED BY <1>1, <1>2, <2>2 DEF LoaderOK, Unique, Resolved
<1>5. \A k \in Loaders \ {l} : Same(k)
  BY <1>1, <1>2 DEF Import, LoadTypeOK, Same
<1> QED BY <1>1, <1>2, <1>3, <1>4, <1>5, OneLoads

LEMMA LoadBegins ==
  ASSUME IInv, NEW l \in Loaders, Load(l), UNCHANGED validationVars
  PROVE  IInv'
<1> USE DEF Go
<1>1. LoadTypeOK /\ LoaderOK(l)
  BY DEF IInv, TypeOK
<1>2. Disk \in Disks
  BY <1>1 DEF Disk, Disks, LoadTypeOK, SchemaContents
<1>3. /\ at' = [at EXCEPT ![l] = "resolve"] /\ still'[l] = Disk
      /\ still' \in [Loaders -> Disks \union {None}]
  BY <1>1, <1>2 DEF Load, LoadTypeOK, Disk
<1>4. LoadTypeOK'
  <2>1. opts' \in [Loaders -> Options \union {None}]
    BY <1>1 DEF Load, LoadTypeOK
  <2>2. at' \in [Loaders -> Loading \union {"idle", "loaded", "failed", "issued", "validated", "checked"}]
    BY <1>1, <1>3 DEF LoadTypeOK, Loading
  <2> QED BY <1>1, <1>3, <2>1, <2>2 DEF Load, LoadTypeOK, diskVars
<1>5. LoaderOK(l)'
  <2>1. entries'[l] = {} /\ warned'[l] = {} /\ package'[l] = None /\ digest'[l] = None
    BY <1>1 DEF Load, LoaderOK, Early
  <2>2. at'[l] = "resolve" /\ opts'[l] \in Options
    BY <1>1 DEF Load, LoadTypeOK
  <2>3. Disk' = Disk
    BY DEF Load, Disk, diskVars
  <2>4. Undisturbed(l)'
    BY <1>3, <2>1, <2>2, <2>3 DEF Undisturbed, Scanned, Loaded
  <2> QED BY <2>1, <2>2, <2>4 DEF LoaderOK, Unique, Resolved
<1>6. \A k \in Loaders \ {l} : Same(k)
  BY <1>1 DEF Load, LoadTypeOK, Same
<1> QED BY <1>4, <1>5, <1>6, OneLoads DEF Load

LEMMA SchemaSteps ==
  ASSUME IInv, NEW l \in Loaders, UNCHANGED validationVars,
         Fail(l) \/ Resolve(l) \/ ReadSchema(l) \/ HaveSchemas(l)
  PROVE  IInv'
<1> USE DEF Go
<1>1. LoadTypeOK /\ LoaderOK(l)
  BY DEF IInv, TypeOK
<1>2. /\ at[l] \in {"resolve", "schemas"}
      /\ at' \in [Loaders -> Loading \union {"idle", "loaded", "failed", "issued", "validated", "checked"}]
      /\ at'[l] \in {"schemas", "list", "failed"}
      /\ \A k \in Loaders \ {l} : at'[k] = at[k]
  BY <1>1 DEF LoadTypeOK, Fail, Resolve, ReadSchema, HaveSchemas, Loading
<1>3. validators' \in [Loaders -> [Versions -> SchemaContents \union {None}]]
  <2>1. CASE ReadSchema(l)
    <3>1. PICK v \in Versions : validators' = [validators EXCEPT ![l][v] = schemas[v]]
      BY <2>1 DEF ReadSchema
    <3>2. schemas[v] \in SchemaContents /\ validators[l] \in [Versions -> SchemaContents \union {None}]
      BY <1>1 DEF LoadTypeOK
    <3>3. [validators[l] EXCEPT ![v] = schemas[v]] \in [Versions -> SchemaContents \union {None}]
      BY <3>2
    <3> QED BY <1>1, <3>1, <3>3 DEF LoadTypeOK
  <2>2. CASE ~ReadSchema(l)
    BY <1>1, <2>2 DEF LoadTypeOK, Fail, Resolve, HaveSchemas
  <2> QED BY <2>1, <2>2
<1>4. UNCHANGED <<diskVars, opts, todo, entries, warned, schemaHash, package, specVersion,
                  digest, still>>
  BY DEF Fail, Resolve, ReadSchema, HaveSchemas
<1>5. /\ imported' \in [Loaders -> Modules]
      /\ \A k \in Loaders \ {l} : imported'[k] = imported[k]
      /\ opts[l].packaged => imported'[l] # Absent \/ at'[l] = "failed"
  <2>1. CASE Resolve(l)
    BY <1>1, <2>1 DEF LoadTypeOK, Resolve
  <2>2. CASE ~Resolve(l)
    <3>1. imported' = imported
      BY <2>2 DEF Fail, ReadSchema, HaveSchemas
    <3>2. at[l] = "schemas" \/ at'[l] = "failed"
      BY <1>1, <2>2 DEF Fail, ReadSchema, HaveSchemas, LoadTypeOK
    <3> QED BY <1>1, <3>1, <3>2 DEF LoadTypeOK, LoaderOK, Resolved
  <2> QED BY <2>1, <2>2
<1>6. LoadTypeOK'
  BY <1>1, <1>2, <1>3, <1>4, <1>5 DEF LoadTypeOK, diskVars
<1>7. LoaderOK(l)'
  <2>1. Disk' = Disk
    BY <1>4 DEF Disk, diskVars
  <2>2. still[l] # None => Undisturbed(l)'
    BY <1>1, <1>2, <1>4, <2>1 DEF LoaderOK, Undisturbed, Loading, Early, Scanned, Loaded
  <2> QED BY <1>1, <1>2, <1>4, <1>5, <2>2 DEF LoaderOK, Unique, Early, Resolved
<1>8. \A k \in Loaders \ {l} : Same(k)
  BY <1>2, <1>4, <1>5 DEF Same
<1> QED BY <1>2, <1>4, <1>6, <1>7, <1>8, OneLoads DEF Loading

\* Listing the files begins the scan: all entries are yet to be read.
LEMMA ListStep ==
  ASSUME IInv, NEW l \in Loaders, List(l), UNCHANGED validationVars
  PROVE  IInv'
<1> USE DEF Go
<1>1. LoadTypeOK /\ LoaderOK(l)
  BY DEF IInv, TypeOK
<1>2. /\ at[l] = "list" /\ at' = [at EXCEPT ![l] = "scan"] /\ todo'[l] = Listing
      /\ UNCHANGED <<diskVars, opts, validators, entries, warned, schemaHash, packageVars, digest, still>>
  BY <1>1 DEF List, LoadTypeOK
<1>3. LoadTypeOK'
  BY <1>1, <1>2 DEF List, LoadTypeOK, Loading, Listing, diskVars
<1>4. LoaderOK(l)'
  <2>1. entries[l] = {} /\ warned[l] = {} /\ package[l] = None /\ digest[l] = None
    BY <1>1, <1>2 DEF LoaderOK, Early, Resolved
  <2>2. at'[l] = "scan"
    BY <1>1, <1>2 DEF LoadTypeOK
  <2>3. ASSUME still[l] # None PROVE Undisturbed(l)'
    <3>1. still[l] = Disk /\ Disk' = Disk
      BY <1>1, <1>2, <2>3 DEF LoaderOK, Undisturbed, Loading, Disk, diskVars
    <3>2. EntriesIn(still[l], Files \ (Skipped \union warned[l] \union Listing)) = {}
      BY <2>1, <3>1 DEF EntriesIn, Listing, Disk, IsEntry
    <3> QED BY <1>2, <2>1, <2>2, <3>1, <3>2 DEF Undisturbed, Scanned, Loaded
  <2> QED BY <1>1, <1>2, <2>1, <2>2, <2>3 DEF LoaderOK, Unique, Early, Resolved, Listing
<1>5. \A k \in Loaders \ {l} : Same(k)
  BY <1>1 DEF List, LoadTypeOK, Same
<1> QED BY <1>2, <1>3, <1>4, <1>5, OneLoads DEF Loading

-------------------------------------------------------------------------------
\* The scan: what has been read and is an entry is there, but for what was warned of.
LEMMA TakeEntryStep ==
  ASSUME IInv, NEW l \in Loaders, TakeEntry(l), UNCHANGED validationVars
  PROVE  IInv'
<1>1. LoadTypeOK /\ LoaderOK(l) /\ at[l] = "scan"
  BY DEF IInv, TypeOK, TakeEntry
<1>2. PICK f \in todo[l] :
        /\ todo' = [todo EXCEPT ![l] = @ \ {f}]
        /\ acts[f] # Absent /\ acts[f].form = "entry" /\ Fresh(l, acts[f])
        /\ entries' = [entries EXCEPT ![l] = @ \union {[file |-> f, text |-> acts[f]]}]
  BY DEF TakeEntry, Done
<1>3. UNCHANGED <<diskVars, at, opts, validators, warned, schemaHash, packageVars, digest, still>>
  BY DEF TakeEntry
<1>4. f \in Files \ (Skipped \union warned[l]) /\ acts[f] \in Texts
  BY <1>1, <1>2 DEF LoadTypeOK, LoaderOK, Contents
<1>5. /\ todo'[l] = todo[l] \ {f}
      /\ entries'[l] = entries[l] \union {[file |-> f, text |-> acts[f]]}
  BY <1>1, <1>2 DEF LoadTypeOK
<1>6. LoadTypeOK'
  <2>1. [file |-> f, text |-> acts[f]] \in Entries
    BY <1>4 DEF Entries
  <2>2. entries' \in [Loaders -> SUBSET Entries] /\ todo' \in [Loaders -> SUBSET Files]
    BY <1>1, <1>2, <2>1 DEF LoadTypeOK
  <2> QED BY <1>1, <1>3, <2>2 DEF LoadTypeOK, diskVars
<1>7. LoaderOK(l)'
  <2>1. Unique(l)'
    BY <1>1, <1>2, <1>5 DEF LoaderOK, Unique, Fresh
  <2>2. ASSUME still[l] # None PROVE Undisturbed(l)'
    <3>1. still[l] = Disk /\ Disk' = Disk
      BY <1>1, <1>3, <2>2 DEF LoaderOK, Undisturbed, Loading, Disk, diskVars
    <3>2. entries[l] = EntriesIn(still[l], Files \ (Skipped \union warned[l] \union todo[l]))
      BY <1>1, <2>2 DEF LoaderOK, Undisturbed
    <3>3. still[l].acts[f] = acts[f] /\ IsEntry(acts[f])
      BY <1>2, <3>1 DEF Disk, IsEntry
    <3>4. entries'[l] = EntriesIn(still[l], Files \ (Skipped \union warned[l] \union todo'[l]))
      BY <1>2, <1>4, <1>5, <3>2, <3>3 DEF EntriesIn
    <3>5. package[l] \in {None, still[l].version}
      BY <1>1, <2>2 DEF LoaderOK, Undisturbed
    <3> QED BY <1>1, <1>3, <3>1, <3>4, <3>5 DEF Undisturbed, Scanned, Loaded
  <2> QED BY <1>1, <1>3, <1>5, <2>1, <2>2 DEF LoaderOK, Early, Resolved
<1>8. \A k \in Loaders \ {l} : Same(k)
  BY <1>1, <1>2, <1>3 DEF LoadTypeOK, Same
<1> QED BY <1>1, <1>3, <1>6, <1>7, <1>8, OneLoads DEF Loading

LEMMA PassOverStep ==
  ASSUME IInv, NEW l \in Loaders, PassOver(l) \/ WarnOf(l), UNCHANGED validationVars
  PROVE  IInv'
<1>1. LoadTypeOK /\ LoaderOK(l) /\ at[l] = "scan"
  BY DEF IInv, TypeOK, PassOver, WarnOf
<1>2. PICK f \in todo[l] :
        /\ todo' = [todo EXCEPT ![l] = @ \ {f}]
        /\ \/ acts[f] # Absent /\ acts[f].form = "other" /\ warned' = warned
           \/ warned' = [warned EXCEPT ![l] = @ \union {f}]
  BY DEF PassOver, WarnOf, Done
<1>3. UNCHANGED <<diskVars, at, opts, validators, entries, schemaHash, packageVars, digest, still>>
  BY DEF PassOver, WarnOf
<1>4. f \in Files \ (Skipped \union warned[l])
  BY <1>1, <1>2 DEF LoadTypeOK, LoaderOK
<1>5. /\ todo'[l] = todo[l] \ {f}
      /\ \/ acts[f].form = "other" /\ warned'[l] = warned[l]
         \/ warned'[l] = warned[l] \union {f}
  BY <1>1, <1>2 DEF LoadTypeOK
<1>6. LoadTypeOK'
  <2>1. todo' \in [Loaders -> SUBSET Files]
    BY <1>1, <1>2 DEF LoadTypeOK
  <2>2. warned[l] \union {f} \in SUBSET Files /\ warned \in [Loaders -> SUBSET Files]
    BY <1>1, <1>4 DEF LoadTypeOK
  <2>3. warned' \in [Loaders -> SUBSET Files]
    BY <1>2, <2>2
  <2> QED BY <1>1, <1>3, <2>1, <2>3 DEF LoadTypeOK, diskVars
<1>7. LoaderOK(l)'
  <2>1. ASSUME still[l] # None PROVE Undisturbed(l)'
    <3>1. still[l] = Disk /\ Disk' = Disk
      BY <1>1, <1>3, <2>1 DEF LoaderOK, Undisturbed, Loading, Disk, diskVars
    <3>2. entries[l] = EntriesIn(still[l], Files \ (Skipped \union warned[l] \union todo[l]))
      BY <1>1, <2>1 DEF LoaderOK, Undisturbed
    <3>3. still[l].acts[f] = acts[f]
      BY <3>1 DEF Disk
    <3>4. entries[l] = EntriesIn(still[l], Files \ (Skipped \union warned'[l] \union todo'[l]))
      BY <1>4, <1>5, <3>2, <3>3 DEF EntriesIn, IsEntry
    <3>5. package[l] \in {None, still[l].version}
      BY <1>1, <2>1 DEF LoaderOK, Undisturbed
    <3> QED BY <1>1, <1>3, <3>1, <3>4, <3>5 DEF Undisturbed, Scanned, Loaded
  <2> QED BY <1>1, <1>3, <1>5, <2>1 DEF LoaderOK, Early, Resolved, Unique
<1>8. \A k \in Loaders \ {l} : Same(k)
  BY <1>1, <1>2, <1>3 DEF LoadTypeOK, Same
<1> QED BY <1>1, <1>3, <1>6, <1>7, <1>8, OneLoads DEF Loading

\* A load that fails has nothing to show.
LEMMA FailureSteps ==
  ASSUME IInv, NEW l \in Loaders, Refuse(l) \/ HashSchemaFails(l), UNCHANGED validationVars
  PROVE  IInv'
<1> USE DEF Go
<1>1. LoadTypeOK /\ LoaderOK(l) /\ at[l] = "scan"
  BY DEF IInv, TypeOK, Refuse, HashSchemaFails
<1>2. /\ at' = [at EXCEPT ![l] = "failed"]
      /\ UNCHANGED <<diskVars, opts, validators, entries, warned, schemaHash, packageVars, digest, still>>
  BY DEF Refuse, HashSchemaFails
<1>3. /\ todo' \in [Loaders -> SUBSET Files]
      /\ \A k \in Loaders \ {l} : todo'[k] = todo[k]
  BY <1>1 DEF Refuse, HashSchemaFails, LoadTypeOK
<1>4. at'[l] = "failed"
  BY <1>1, <1>2 DEF LoadTypeOK
<1>5. LoadTypeOK'
  BY <1>1, <1>2, <1>3 DEF LoadTypeOK, diskVars
<1>6. LoaderOK(l)'
  BY <1>1, <1>2, <1>4 DEF LoaderOK, Undisturbed, Loading, Early, Resolved, Scanned, Loaded, Unique
<1>7. \A k \in Loaders \ {l} : Same(k)
  BY <1>1, <1>2, <1>3 DEF LoadTypeOK, Same
<1> QED BY <1>1, <1>2, <1>5, <1>6, <1>7, OneLoads DEF Loading

-------------------------------------------------------------------------------
\* When nothing is left to read the catalogue is whole, and the schema is hashed.
LEMMA HashSchemaStep ==
  ASSUME IInv, NEW l \in Loaders, HashSchema(l), UNCHANGED validationVars
  PROVE  IInv'
<1>1. LoadTypeOK /\ LoaderOK(l) /\ at[l] = "scan" /\ todo[l] = {}
  BY DEF IInv, TypeOK, HashSchema
<1>2. opts[l] \in Options /\ digest[l] = None
  BY <1>1 DEF LoaderOK
<1>3. /\ at' = [at EXCEPT ![l] = IF opts[l].packaged THEN "packaged" ELSE "loaded"]
      /\ schemaHash' = [schemaHash EXCEPT ![l] =
           IF opts[l].schema = None THEN SchemaFound ELSE opts[l].schema]
      /\ UNCHANGED <<diskVars, opts, todo, validators, entries, warned, packageVars, digest, still>>
  BY DEF HashSchema
<1>4. schemaHash'[l] \in SchemaTexts \union {None}
  <2>1. opts[l].schema \in SchemaTexts \union {None}
    BY <1>2 DEF HashSchema, Options, SchemaContents
  <2>2. SchemaFound \in SchemaTexts \union {None}
    BY <1>1 DEF LoadTypeOK, SchemaFound, SchemaContents, Versions
  <2> QED BY <1>1, <1>3, <2>1, <2>2 DEF LoadTypeOK
<1>5. at'[l] = (IF opts[l].packaged THEN "packaged" ELSE "loaded")
  BY <1>1, <1>3 DEF LoadTypeOK
<1>6. LoadTypeOK'
  <2>1. at' \in [Loaders -> Loading \union {"idle", "loaded", "failed", "issued", "validated", "checked"}]
    BY <1>1, <1>3 DEF LoadTypeOK, Loading
  <2>2. schemaHash' \in [Loaders -> SchemaTexts \union {None}]
    BY <1>1, <1>3, <1>4 DEF LoadTypeOK
  <2> QED BY <1>1, <1>3, <2>1, <2>2 DEF LoadTypeOK, diskVars
<1>7. LoaderOK(l)'
  <2>1. ASSUME still[l] # None PROVE Undisturbed(l)'
    <3>1. still[l] = Disk /\ Disk' = Disk
      BY <1>1, <1>3, <2>1 DEF LoaderOK, Undisturbed, Loading, Disk, diskVars
    <3>2. entries[l] = EntriesIn(still[l], Files \ (Skipped \union warned[l]))
      <4>1. Skipped \union warned[l] \union todo[l] = Skipped \union warned[l]
        BY <1>1
      <4> QED BY <1>1, <2>1, <4>1 DEF LoaderOK, Undisturbed
    <3>3. schemaHash'[l] = HashFor(still[l], opts[l])
      <4>1. still[l].schemas = schemas
        BY <3>1 DEF Disk
      <4> QED BY <1>1, <1>3, <4>1 DEF LoadTypeOK, HashFor, FoundIn, SchemaFound
    <3>4. package[l] \in {None, still[l].version}
      BY <1>1, <2>1 DEF LoaderOK, Undisturbed
    <3> QED BY <1>2, <1>3, <1>5, <3>1, <3>2, <3>3, <3>4 DEF Undisturbed
  <2>2. at'[l] = "packaged" => opts[l].packaged /\ imported[l] # Absent
    BY <1>1, <1>5 DEF LoaderOK, Resolved
  <2>3. at'[l] \in {"packaged", "loaded"}
    BY <1>5
  <2> QED BY <1>1, <1>2, <1>3, <2>1, <2>2, <2>3 DEF LoaderOK, Early, Resolved, Unique
<1>8. \A k \in Loaders \ {l} : Same(k)
  BY <1>1, <1>3 DEF LoadTypeOK, Same
<1> QED BY <1>1, <1>3, <1>6, <1>7, <1>8, OneLoads DEF Loading

LEMMA ReadVersionStep ==
  ASSUME IInv, NEW l \in Loaders, ReadVersion(l), UNCHANGED validationVars
  PROVE  IInv'
<1> USE DEF Go
<1>1. LoadTypeOK /\ LoaderOK(l) /\ at[l] = "packaged"
  BY DEF IInv, TypeOK, ReadVersion
<1>2. /\ at' = [at EXCEPT ![l] = "digest list"]
      /\ package' = [package EXCEPT ![l] = IF metadata = Absent THEN None ELSE metadata]
      /\ specVersion' = [specVersion EXCEPT ![l] = imported[l]]
      /\ UNCHANGED <<diskVars, opts, todo, validators, entries, warned, schemaHash,
                     imported, digest, still>>
  BY DEF ReadVersion
<1>3. /\ at'[l] = "digest list"
      /\ package'[l] = IF metadata = Absent THEN None ELSE metadata
  BY <1>1, <1>2 DEF LoadTypeOK
<1>4. LoadTypeOK'
  <2>1. at' \in [Loaders -> Loading \union {"idle", "loaded", "failed", "issued", "validated", "checked"}]
    BY <1>1, <1>2 DEF LoadTypeOK, Loading
  <2>2. package' \in [Loaders -> Nat \union {None}]
    BY <1>1, <1>2 DEF LoadTypeOK
  <2>3. imported[l] \in Nat \union {None}
    BY <1>1 DEF LoadTypeOK, LoaderOK, Modules, Resolved
  <2>4. specVersion' \in [Loaders -> Nat \union {None}]
    BY <1>1, <1>2, <2>3 DEF LoadTypeOK
  <2> QED BY <1>1, <1>2, <2>1, <2>2, <2>4 DEF LoadTypeOK, diskVars
<1>5. LoaderOK(l)'
  <2>1. ASSUME still[l] # None PROVE Undisturbed(l)'
    <3>1. still[l] = Disk /\ Disk' = Disk
      BY <1>1, <1>2, <2>1 DEF LoaderOK, Undisturbed, Loading, Disk, diskVars
    <3>2. still[l].version = metadata
      BY <3>1 DEF Disk
    <3> QED BY <1>1, <1>2, <1>3, <2>1, <3>1, <3>2 DEF LoaderOK, Undisturbed, Scanned, Loaded
  <2> QED BY <1>1, <1>2, <1>3, <2>1 DEF LoaderOK, Early, Resolved, Unique
<1>6. \A k \in Loaders \ {l} : Same(k)
  BY <1>1, <1>2 DEF LoadTypeOK, Same
<1> QED BY <1>1, <1>2, <1>4, <1>5, <1>6, OneLoads DEF Loading

\* While the digest is made it has a row of every file but those still to be read.
LEMMA ListForDigestStep ==
  ASSUME IInv, NEW l \in Loaders, ListForDigest(l), UNCHANGED validationVars
  PROVE  IInv'
<1> USE DEF Go
<1>1. LoadTypeOK /\ LoaderOK(l) /\ at[l] = "digest list"
  BY DEF IInv, TypeOK, ListForDigest
<1>2. /\ at' = [at EXCEPT ![l] = "digest"]
      /\ todo' = [todo EXCEPT ![l] = Listing]
      /\ digest' = [digest EXCEPT ![l] = [rows |-> {}]]
      /\ UNCHANGED <<diskVars, opts, validators, entries, warned, schemaHash, packageVars, still>>
  BY DEF ListForDigest
<1>3. at'[l] = "digest" /\ todo'[l] = Listing /\ digest'[l] = [rows |-> {}]
  BY <1>1, <1>2 DEF LoadTypeOK
<1>4. [rows |-> {}] \in Digests /\ None \notin Digests
  BY CatalogueAssumption DEF Digests, Entries
<1>5. LoadTypeOK'
  <2>1. at' \in [Loaders -> Loading \union {"idle", "loaded", "failed", "issued", "validated", "checked"}]
    BY <1>1, <1>2 DEF LoadTypeOK, Loading
  <2>2. digest' \in [Loaders -> Digests \union {None}] /\ todo' \in [Loaders -> SUBSET Files]
    BY <1>1, <1>2, <1>4 DEF LoadTypeOK, Listing
  <2> QED BY <1>1, <1>2, <2>1, <2>2 DEF LoadTypeOK, diskVars
<1>6. LoaderOK(l)'
  <2>1. ASSUME still[l] # None PROVE Undisturbed(l)'
    <3>1. still[l] = Disk /\ Disk' = Disk
      BY <1>1, <1>2, <2>1 DEF LoaderOK, Undisturbed, Loading, Disk, diskVars
    <3>2. entries[l] = EntriesIn(still[l], Files \ (Skipped \union warned[l]))
      BY <1>1, <2>1 DEF LoaderOK, Undisturbed, Scanned
    <3>3. RowsOf(still[l], Files \ (Skipped \union Listing)) = {}
      BY <3>1 DEF RowsOf, Listing, Disk
    <3> QED BY <1>1, <1>2, <1>3, <2>1, <3>1, <3>2, <3>3
        DEF LoaderOK, Undisturbed, Scanned, Loaded
  <2>2. Listing \subseteq Files \ Skipped
    BY DEF Listing
  <2> QED BY <1>1, <1>2, <1>3, <1>4, <2>1, <2>2 DEF LoaderOK, Early, Resolved, Unique
<1>7. \A k \in Loaders \ {l} : Same(k)
  BY <1>1, <1>2 DEF LoadTypeOK, Same
<1> QED BY <1>1, <1>2, <1>5, <1>6, <1>7, OneLoads DEF Loading

LEMMA DigestFileStep ==
  ASSUME IInv, NEW l \in Loaders, DigestFile(l), UNCHANGED validationVars
  PROVE  IInv'
<1>1. LoadTypeOK /\ LoaderOK(l) /\ at[l] = "digest"
  BY DEF IInv, TypeOK, DigestFile
<1>2. PICK f \in todo[l] :
        /\ todo' = [todo EXCEPT ![l] = @ \ {f}]
        /\ acts[f] # Absent
        /\ digest' = [digest EXCEPT ![l].rows = @ \union {[file |-> f, text |-> acts[f]]}]
  BY DEF DigestFile, Done
<1>3. UNCHANGED <<diskVars, at, opts, validators, entries, warned, schemaHash, packageVars, still>>
  BY DEF DigestFile
<1>4. digest[l] \in Digests /\ None \notin Digests
  BY <1>1, CatalogueAssumption DEF LoadTypeOK, LoaderOK, Digests, Entries
<1>5. [file |-> f, text |-> acts[f]] \in Entries
  BY <1>1, <1>2 DEF LoadTypeOK, Contents, Entries
<1>6. /\ todo'[l] = todo[l] \ {f}
      /\ digest'[l] = [rows |-> digest[l].rows \union {[file |-> f, text |-> acts[f]]}]
      /\ digest'[l] \in Digests
  <2>1. digest'[l] = [digest[l] EXCEPT !.rows = @ \union {[file |-> f, text |-> acts[f]]}]
    BY <1>1, <1>2 DEF LoadTypeOK
  <2>2. digest'[l] = [rows |-> digest[l].rows \union {[file |-> f, text |-> acts[f]]}]
    BY <2>1, <1>4 DEF Digests
  <2> QED BY <1>1, <1>2, <1>4, <1>5, <2>2 DEF LoadTypeOK, Digests
<1>7. /\ digest' \in [Loaders -> Digests \union {None}]
      /\ \A k \in Loaders \ {l} : digest'[k] = digest[k]
  BY <1>1, <1>2, <1>6 DEF LoadTypeOK
<1>8. LoadTypeOK'
  <2>1. todo' \in [Loaders -> SUBSET Files]
    BY <1>1, <1>2 DEF LoadTypeOK
  <2> QED BY <1>1, <1>3, <1>7, <2>1 DEF LoadTypeOK, diskVars
<1>9. LoaderOK(l)'
  <2>1. ASSUME still[l] # None PROVE Undisturbed(l)'
    <3>1. still[l] = Disk /\ Disk' = Disk
      BY <1>1, <1>3, <2>1 DEF LoaderOK, Undisturbed, Loading, Disk, diskVars
    <3>2. entries[l] = EntriesIn(still[l], Files \ (Skipped \union warned[l]))
      BY <1>1, <2>1 DEF LoaderOK, Undisturbed, Scanned
    <3>3. digest[l].rows = RowsOf(still[l], Files \ (Skipped \union todo[l]))
      <4>1. Undisturbed(l)
        BY <1>1, <2>1 DEF LoaderOK
      <4>2. digest[l] = [rows |-> RowsOf(still[l], Files \ (Skipped \union todo[l]))]
        BY <1>1, <4>1 DEF Undisturbed
      <4> QED BY <4>2
    <3>4. f \in Files \ Skipped /\ still[l].acts[f] = acts[f]
      BY <1>1, <1>2, <3>1 DEF LoaderOK, Disk
    <3>5. Files \ (Skipped \union todo'[l]) = (Files \ (Skipped \union todo[l])) \union {f}
      BY <1>6, <3>4
    <3>6. RowsOf(still[l], Files \ (Skipped \union todo'[l]))
            = RowsOf(still[l], Files \ (Skipped \union todo[l]))
                \union {[file |-> f, text |-> acts[f]]}
      BY <1>2, <3>4, <3>5 DEF RowsOf
    <3>7. digest'[l] = [rows |-> RowsOf(still[l], Files \ (Skipped \union todo'[l]))]
      BY <1>6, <3>3, <3>6
    <3> QED BY <1>1, <1>3, <2>1, <3>1, <3>2, <3>7 DEF LoaderOK, Undisturbed, Scanned, Loaded
  <2> QED BY <1>1, <1>3, <1>4, <1>6, <2>1 DEF LoaderOK, Early, Resolved, Unique
<1>10. \A k \in Loaders \ {l} : Same(k)
  BY <1>1, <1>2, <1>3, <1>7 DEF LoadTypeOK, Same
<1> QED BY <1>1, <1>3, <1>8, <1>9, <1>10, OneLoads DEF Loading

LEMMA DigestEnds ==
  ASSUME IInv, NEW l \in Loaders, NoDigest(l) \/ HaveDigest(l), UNCHANGED validationVars
  PROVE  IInv'
<1> USE DEF Go
<1>1. LoadTypeOK /\ LoaderOK(l) /\ at[l] \in {"packaged", "digest list", "digest"}
  BY DEF IInv, TypeOK, NoDigest, HaveDigest
<1>2. /\ at' = [at EXCEPT ![l] = "loaded"]
      /\ UNCHANGED <<diskVars, opts, validators, entries, warned, schemaHash, packageVars, still>>
  BY DEF NoDigest, HaveDigest
<1>3. /\ at'[l] = "loaded"
      /\ \/ digest'[l] = None
         \/ at[l] = "digest" /\ todo[l] = {} /\ digest'[l] = digest[l]
  BY <1>1, <1>2 DEF LoadTypeOK, NoDigest, HaveDigest
<1>4. /\ todo' \in [Loaders -> SUBSET Files]
      /\ digest' \in [Loaders -> Digests \union {None}]
      /\ \A k \in Loaders \ {l} : todo'[k] = todo[k] /\ digest'[k] = digest[k]
  BY <1>1 DEF LoadTypeOK, NoDigest, HaveDigest
<1>5. LoadTypeOK'
  BY <1>1, <1>2, <1>4 DEF LoadTypeOK, diskVars
<1>6. LoaderOK(l)'
  <2>1. ASSUME still[l] # None PROVE Undisturbed(l)'
    BY <1>1, <1>2, <1>3, <2>1 DEF LoaderOK, Undisturbed, Scanned, Loaded, Loading
  <2> QED BY <1>1, <1>2, <1>3, <2>1 DEF LoaderOK, Early, Resolved, Unique
<1>7. \A k \in Loaders \ {l} : Same(k)
  BY <1>1, <1>2, <1>4 DEF LoadTypeOK, Same
<1> QED BY <1>1, <1>2, <1>5, <1>6, <1>7, OneLoads DEF Loading

-------------------------------------------------------------------------------
\* Issuing and validating change no load.
LEMMA KeepsLoads ==
  ASSUME IInv, NEW l \in Loaders, at[l] = "loaded", NEW to \in {"issued", "validated", "checked"},
         at' = [at EXCEPT ![l] = to],
         UNCHANGED <<diskVars, opts, todo, validators, entries, warned, schemaHash,
                     packageVars, digest, still>>
  PROVE  /\ LoadTypeOK' /\ \A k \in Loaders : LoaderOK(k)'
         /\ at'[l] = to /\ \A k \in Loaders \ {l} : Same(k)
<1>1. LoadTypeOK /\ LoaderOK(l)
  BY DEF IInv, TypeOK
<1>2. at'[l] = to /\ \A k \in Loaders \ {l} : at'[k] = at[k]
  BY <1>1 DEF LoadTypeOK
<1>3. LoadTypeOK'
  BY <1>1 DEF LoadTypeOK, diskVars
<1>4. LoaderOK(l)'
  <2>1. ASSUME still[l] # None PROVE Undisturbed(l)'
    BY <1>1, <1>2, <2>1 DEF LoaderOK, Undisturbed, Scanned, Loaded, Loading
  <2> QED BY <1>1, <1>2, <2>1 DEF LoaderOK, Early, Resolved, Unique
<1>5. \A k \in Loaders \ {l} : Same(k)
  BY <1>2 DEF Same
<1>6. \A k \in Loaders \ {l} : LoaderOK(k)'
  BY <1>5, KeepsLoad DEF IInv
<1> QED BY <1>2, <1>3, <1>4, <1>5, <1>6

\* What holds of a manifest and of a validation elsewhere stays.
LEMMA KeepsOther ==
  ASSUME IInv, NEW l \in Loaders, NEW k \in Loaders \ {l}, at[l] = "loaded",
         \A j \in Loaders \ {l} :
           /\ Same(j)
           /\ manifest'[j] = manifest[j] /\ of'[j] = of[j]
           /\ issues'[j] = issues[j] /\ verdict'[j] = verdict[j]
  PROVE  ValidationOK(k)'
<1>1. ValidationOK(k) /\ ValidationOK(l) /\ TypeOK
  BY DEF IInv
<1>2. manifest'[k] # None => at'[k] = "issued" /\ Bound(k)'
  BY <1>1 DEF ValidationOK, Bound, Same
<1>3. ASSUME of[k] # None
      PROVE  /\ at'[k] \in {"validated", "checked"} /\ manifest'[of'[k]] # None
             /\ Approved(k)' => Satisfies(manifest'[of'[k]]) /\ Stamped(manifest[of[k]], k)'
             /\ NoFalseAlarmOf(k)'
  <2>1. /\ of[k] \in Loaders /\ at[k] \in {"validated", "checked"}
        /\ manifest[of[k]] # None
    BY <1>1, <1>3 DEF TypeOK, ValidationOK
  <2>2. of[k] # l
    BY <1>1, <2>1 DEF ValidationOK
  <2>3. Same(k) /\ Same(of[k]) /\ manifest'[of[k]] = manifest[of[k]] /\ of'[k] = of[k]
        /\ issues'[k] = issues[k] /\ verdict'[k] = verdict[k]
    BY <2>1, <2>2
  <2>4. NoFalseAlarmOf(k)'
    <3>1. manifest'[of'[k]] = manifest[of[k]]
      BY <2>3
    <3>2. /\ still'[k] = still[k] /\ still'[of'[k]] = still[of[k]]
          /\ opts'[k] = opts[k] /\ opts'[of'[k]] = opts[of[k]]
          /\ specVersion'[k] = specVersion[k] /\ specVersion'[of'[k]] = specVersion[of[k]]
          /\ warned'[k] = warned[k] /\ at'[k] = at[k]
      BY <2>3 DEF Same
    <3>3. NoFalseAlarmOf(k)
      BY <1>1, <1>3 DEF ValidationOK
    <3> QED BY <2>3, <3>1, <3>2, <3>3 DEF NoFalseAlarmOf, ModuleIsCurrent
  <2> QED BY <1>1, <1>3, <2>1, <2>3, <2>4 DEF ValidationOK, Same, Approved, ExitCode, Stamped
<1> QED BY <1>2, <1>3 DEF ValidationOK, Stamped

LEMMA IssueStep ==
  ASSUME IInv, NEW l \in Loaders, Issue(l)
  PROVE  IInv'
<1> USE DEF Go
<1>1. TypeOK /\ LoadTypeOK /\ ValidationOK(l)
  BY DEF IInv, TypeOK
<1>2. PICK e \in entries[l], claim \in [Fields -> Values], labels \in SUBSET Labels,
             spec \in {None, specVersion[l]}, stamp \in {None, digest[l]} :
        manifest' = [manifest EXCEPT ![l] =
          [type |-> e.text.type, version |-> e.text.version, entry |-> e.text,
           schema |-> schemaHash[l], package |-> package[l], spec |-> spec,
           stamp |-> stamp, claim |-> claim, labels |-> labels]]
  BY DEF Issue
<1>3. /\ at[l] = "loaded" /\ at' = [at EXCEPT ![l] = "issued"]
      /\ UNCHANGED <<diskVars, opts, todo, validators, entries, warned, schemaHash,
                     packageVars, digest, still, of, issues, verdict>>
  BY DEF Issue
<1>4. /\ LoadTypeOK' /\ \A k \in Loaders : LoaderOK(k)'
      /\ at'[l] = "issued" /\ \A k \in Loaders \ {l} : Same(k)
  BY <1>3, KeepsLoads
<1>5. manifest'[l] =
        [type |-> e.text.type, version |-> e.text.version, entry |-> e.text,
         schema |-> schemaHash[l], package |-> package[l], spec |-> spec,
         stamp |-> stamp, claim |-> claim, labels |-> labels]
  BY <1>1, <1>2 DEF TypeOK
<1>6. manifest'[l] \in Manifests
  <2>1. e.text \in Texts
    BY <1>1 DEF LoadTypeOK, Entries
  <2>2. e.text.type \in ActTypes /\ e.text.version \in Nat
    BY <2>1, CatalogueAssumption DEF Text
  <2>3. schemaHash[l] \in SchemaTexts \union {None} /\ package[l] \in Nat \union {None}
        /\ spec \in Nat \union {None} /\ stamp \in Digests \union {None}
    BY <1>1 DEF LoadTypeOK
  <2> QED BY <1>5, <2>1, <2>2, <2>3 DEF Manifests
<1>7. TypeOK'
  <2>1. manifest' \in [Loaders -> Manifests \union {None}]
    BY <1>1, <1>2, <1>5, <1>6 DEF TypeOK
  <2> QED BY <1>1, <1>3, <1>4, <2>1 DEF TypeOK
<1>8. ValidationOK(l)'
  <2>1. of[l] = None
    BY <1>1, <1>3 DEF ValidationOK
  <2>2. Bound(l)'
    BY <1>3, <1>5 DEF Bound
  <2> QED BY <1>3, <1>4, <2>1, <2>2 DEF ValidationOK
<1>9. \A k \in Loaders \ {l} : ValidationOK(k)'
  <2>1. \A k \in Loaders \ {l} :
          /\ manifest'[k] = manifest[k] /\ of'[k] = of[k]
          /\ issues'[k] = issues[k] /\ verdict'[k] = verdict[k]
    BY <1>1, <1>2, <1>3 DEF TypeOK
  <2> QED BY <1>3, <1>4, <2>1, KeepsOther
<1> QED BY <1>4, <1>7, <1>8, <1>9 DEF IInv

-------------------------------------------------------------------------------
\* Without an issue the entry that is loaded is the one that is cited.
LEMMA NoIssues ==
  ASSUME NEW l \in Loaders, NEW m \in Manifests, Issues(m, l) = {}
  PROVE  Satisfies(m) /\ \E e \in entries[l] : e.text = m.entry
<1>1. PICK e \in EntriesFor(m, l) : BindingIssues(m, l, e.text) = {}
                                    /\ ContentIssues(m, e.text) = {}
  BY DEF Issues
<1>2. m.entry = e.text
  BY <1>1 DEF BindingIssues
<1>3. ContentIssues(m, m.entry) = {}
  BY <1>1, <1>2
<1>4. ~(\E f \in m.entry.required : m.claim[f] \in {"blank", "missing"})
  BY <1>3 DEF ContentIssues
<1>5. m.entry.labels \subseteq m.labels /\ m.labels \subseteq m.entry.labels \union m.entry.supports
  BY <1>3 DEF ContentIssues
<1>6. m.claim \in [Fields -> Values] /\ m.entry.required \subseteq Fields
  BY CatalogueAssumption DEF Manifests, Text
<1>7. \A f \in m.entry.required : m.claim[f] = "given"
  BY <1>4, <1>6 DEF Values
<1> QED BY <1>1, <1>2, <1>5, <1>7 DEF Satisfies, EntriesFor

\* A digest that two sides share has the entry that the verifier found.
LEMMA SharedDigest ==
  ASSUME IInv, NEW l \in Loaders, NEW m \in Manifests, at[l] = "loaded", still[l] # None,
         None \notin {m.stamp, digest[l]}, Conformance(m, l) = "PASS"
  PROVE  \E row \in m.stamp.rows : row.text = m.entry
<1>1. m.stamp = digest[l] /\ Issues(m, l) = {}
  BY DEF Conformance, StampDiffers
<1>2. PICK e \in entries[l] : e.text = m.entry
  BY <1>1, NoIssues
<1>3. Undisturbed(l)
  BY DEF IInv, LoaderOK
<1>4. entries[l] \subseteq RowsOf(still[l], Files \ Skipped)
  BY <1>3 DEF Undisturbed, Scanned, EntriesIn, RowsOf, IsEntry
<1>5. digest[l].rows = RowsOf(still[l], Files \ Skipped)
  <2>1. digest[l] # None
    OBVIOUS
  <2> QED BY <1>3, <2>1 DEF Undisturbed, Loaded
<1> QED BY <1>1, <1>2, <1>4, <1>5

\* Two loads of the same files differ in nothing that a validation looks at.
LEMMA SameFilesNoAlarm ==
  ASSUME IInv, NEW l \in Loaders, NEW k \in Loaders, at[l] = "loaded", manifest[k] # None,
         still[l] # None, still[l] = still[k], warned[l] = {}, opts[l].schema = opts[k].schema
  PROVE  /\ Issues(manifest[k], l) = ContentIssues(manifest[k], manifest[k].entry)
         /\ ModuleIsCurrent(l) /\ ModuleIsCurrent(k) => ~StampDiffers(manifest[k], l)
<1> DEFINE m == manifest[k]
<1>1. /\ LoaderOK(l) /\ Undisturbed(l) /\ LoaderOK(k) /\ Undisturbed(k)
      /\ at[k] = "issued" /\ Bound(k)
  BY DEF IInv, LoaderOK, ValidationOK
<1>2. PICK e \in entries[k] :
        /\ m.type = e.text.type /\ m.version = e.text.version /\ m.entry = e.text
        /\ m.schema = schemaHash[k] /\ m.package = package[k]
        /\ m.spec \in {None, specVersion[k]} /\ m.stamp \in {None, digest[k]}
  BY <1>1 DEF Bound
<1>3. entries[k] = EntriesIn(still[k], Files \ (Skipped \union warned[k]))
  BY <1>1 DEF Undisturbed, Scanned
<1>4. entries[l] = EntriesIn(still[k], Files \ (Skipped \union warned[l]))
  BY <1>1 DEF Undisturbed, Scanned
<1>5. e \in entries[l]
  BY <1>3, <1>4 DEF EntriesIn
<1>6. EntriesFor(m, l) = {e}
  <2>1. \A f \in entries[l] : f.text.type = m.type => f = e
    BY <1>1, <1>2, <1>5 DEF LoaderOK, Unique
  <2>2. e.text.type = m.type
    BY <1>2
  <2> QED BY <1>5, <2>1, <2>2 DEF EntriesFor
<1>7. m.schema = schemaHash[l]
  BY <1>1, <1>2 DEF Undisturbed, Scanned, HashFor
<1>8. None \in {m.package, package[l]} \/ m.package = package[l]
  BY <1>1, <1>2 DEF Undisturbed
<1>9. BindingIssues(m, l, e.text) = {}
  BY <1>2, <1>7, <1>8 DEF BindingIssues
<1>10. Issues(m, l) = BindingIssues(m, l, e.text) \union ContentIssues(m, e.text)
  BY <1>6 DEF Issues
<1>11. ModuleIsCurrent(l) /\ ModuleIsCurrent(k) => ~StampDiffers(m, l)
  BY <1>1, <1>2 DEF StampDiffers, ModuleIsCurrent, Undisturbed, Loaded
<1> QED BY <1>2, <1>9, <1>10, <1>11

LEMMA IssuesAreCodes ==
  ASSUME NEW m, NEW l \in Loaders
  PROVE  Issues(m, l) \subseteq Codes
<1>1. \A text : BindingIssues(m, l, text) \subseteq Codes
  BY DEF BindingIssues, Codes, BindingCodes
<1>2. \A text : ContentIssues(m, text) \subseteq Codes
  BY DEF ContentIssues, Codes, ContentCodes
<1> QED BY <1>1, <1>2 DEF Issues, Codes

LEMMA ValidateStep ==
  ASSUME IInv, NEW l \in Loaders, Validate(l)
  PROVE  IInv'
<1> USE DEF Go
<1>1. TypeOK /\ LoadTypeOK /\ ValidationOK(l)
  BY DEF IInv, TypeOK
<1>2. PICK k \in Loaders :
        /\ manifest[k] # None
        /\ of' = [of EXCEPT ![l] = k]
        /\ issues' = [issues EXCEPT ![l] = Issues(manifest[k], l)]
  BY DEF Validate
<1>3. /\ at[l] = "loaded" /\ at' = [at EXCEPT ![l] = "validated"]
      /\ UNCHANGED <<diskVars, opts, todo, validators, entries, warned, schemaHash,
                     packageVars, digest, still, manifest, verdict>>
  BY DEF Validate
<1>4. /\ LoadTypeOK' /\ \A j \in Loaders : LoaderOK(j)'
      /\ at'[l] = "validated" /\ \A j \in Loaders \ {l} : Same(j)
  BY <1>3, KeepsLoads
<1>5. of'[l] = k /\ issues'[l] = Issues(manifest[k], l) /\ manifest[k] \in Manifests
  BY <1>1, <1>2 DEF TypeOK
<1>6. TypeOK'
  <2>1. issues' \in [Loaders -> SUBSET Codes]
    BY <1>1, <1>2, IssuesAreCodes DEF TypeOK
  <2>2. of' \in [Loaders -> Loaders \union {None}]
    BY <1>1, <1>2 DEF TypeOK
  <2> QED BY <1>1, <1>3, <1>4, <2>1, <2>2 DEF TypeOK
<1>7. ValidationOK(l)'
  <2>1. manifest'[l] = None
    BY <1>1, <1>3 DEF ValidationOK
  <2>2. Approved(l)' => Satisfies(manifest'[of'[l]])
    BY <1>3, <1>4, <1>5, NoIssues DEF Approved, ExitCode
  <2>3. NoFalseAlarmOf(l)'
    BY <1>2, <1>3, <1>4, <1>5, SameFilesNoAlarm DEF NoFalseAlarmOf
  <2>4. Stamped(manifest[k], l)'
    BY <1>4 DEF Stamped
  <2> QED BY <1>2, <1>3, <1>4, <1>5, <2>1, <2>2, <2>3, <2>4 DEF ValidationOK, Stamped
<1>8. \A j \in Loaders \ {l} : ValidationOK(j)'
  <2>1. \A j \in Loaders \ {l} :
          /\ manifest'[j] = manifest[j] /\ of'[j] = of[j]
          /\ issues'[j] = issues[j] /\ verdict'[j] = verdict[j]
    BY <1>1, <1>2, <1>3 DEF TypeOK
  <2> QED BY <1>3, <1>4, <2>1, KeepsOther
<1> QED BY <1>4, <1>6, <1>7, <1>8 DEF IInv

LEMMA CheckStep ==
  ASSUME IInv, NEW l \in Loaders, Check(l)
  PROVE  IInv'
<1> USE DEF Go
<1>1. TypeOK /\ LoadTypeOK /\ ValidationOK(l)
  BY DEF IInv, TypeOK
<1>2. PICK k \in Loaders :
        /\ manifest[k] # None
        /\ of' = [of EXCEPT ![l] = k]
        /\ verdict' = [verdict EXCEPT ![l] = Conformance(manifest[k], l)]
  BY DEF Check
<1>3. /\ at[l] = "loaded" /\ at' = [at EXCEPT ![l] = "checked"]
      /\ UNCHANGED <<diskVars, opts, todo, validators, entries, warned, schemaHash,
                     packageVars, digest, still, manifest, issues>>
  BY DEF Check
<1>4. /\ LoadTypeOK' /\ \A j \in Loaders : LoaderOK(j)'
      /\ at'[l] = "checked" /\ \A j \in Loaders \ {l} : Same(j)
  BY <1>3, KeepsLoads
<1>5. /\ of'[l] = k /\ verdict'[l] = Conformance(manifest[k], l)
      /\ manifest[k] \in Manifests
  BY <1>1, <1>2 DEF TypeOK
<1>6. TypeOK'
  <2>1. verdict' \in [Loaders -> {"PASS", "FAIL", None}]
    BY <1>1, <1>2 DEF TypeOK, Conformance
  <2>2. of' \in [Loaders -> Loaders \union {None}]
    BY <1>1, <1>2 DEF TypeOK
  <2> QED BY <1>1, <1>3, <1>4, <2>1, <2>2 DEF TypeOK
<1>7. ValidationOK(l)'
  <2>1. manifest'[l] = None
    BY <1>1, <1>3 DEF ValidationOK
  <2>2. ASSUME Approved(l)' PROVE Satisfies(manifest[k]) /\ Stamped(manifest[k], l)'
    <3>1. Conformance(manifest[k], l) = "PASS" /\ Issues(manifest[k], l) = {}
      BY <1>4, <1>5, <2>2 DEF Approved, ExitCode, Conformance
    <3>2. Satisfies(manifest[k])
      BY <1>5, <3>1, NoIssues
    <3>3. Stamped(manifest[k], l)'
      BY <1>3, <1>5, <3>1, SharedDigest DEF Stamped
    <3> QED BY <3>2, <3>3
  <2>3. NoFalseAlarmOf(l)'
    <3> DEFINE own == ContentIssues(manifest[k], manifest[k].entry)
    <3> SUFFICES ASSUME still[l] # None, still[l] = still[k], warned[l] = {},
                        opts[l].schema = opts[k].schema,
                        ModuleIsCurrent(l), ModuleIsCurrent(k)
                 PROVE  verdict'[l] = (IF own = {} THEN "PASS" ELSE "FAIL")
      BY <1>3, <1>4, <1>5 DEF NoFalseAlarmOf, ModuleIsCurrent
    <3>1. Issues(manifest[k], l) = own /\ ~StampDiffers(manifest[k], l)
      BY <1>2, <1>3, SameFilesNoAlarm
    <3> QED BY <1>5, <3>1 DEF Conformance
  <2> QED BY <1>2, <1>3, <1>4, <1>5, <2>1, <2>2, <2>3 DEF ValidationOK, Stamped
<1>8. \A j \in Loaders \ {l} : ValidationOK(j)'
  <2>1. \A j \in Loaders \ {l} :
          /\ manifest'[j] = manifest[j] /\ of'[j] = of[j]
          /\ issues'[j] = issues[j] /\ verdict'[j] = verdict[j]
    BY <1>1, <1>2, <1>3 DEF TypeOK
  <2> QED BY <1>3, <1>4, <2>1, KeepsOther
<1> QED BY <1>4, <1>6, <1>7, <1>8 DEF IInv

-------------------------------------------------------------------------------
LEMMA StutterStep == IInv /\ UNCHANGED allVars => IInv'
<1> SUFFICES ASSUME IInv, UNCHANGED allVars PROVE IInv'
  OBVIOUS
<1> USE DEF allVars, vars, loadVars
<1>1. \A l \in Loaders : Same(l)
  BY DEF Same
<1>2. \A l \in Loaders : LoaderOK(l)'
  BY <1>1, KeepsLoad DEF IInv
<1>3. \A l \in Loaders : ValidationOK(l)'
  BY <1>1, KeepsValidation
<1>4. TypeOK'
  BY DEF IInv, TypeOK, LoadTypeOK, diskVars, validationVars
<1> QED BY <1>2, <1>3, <1>4 DEF IInv

\* The invariant is inductive: a load that no upgrade touches knows the disk.
THEOREM Invariance == Spec => []IInv
<1>1. ASSUME IInv, Loads PROVE IInv'
  <2>1. LoadStep /\ UNCHANGED validationVars
    BY <1>1 DEF Loads
  <2>2. CASE StartUpgrade \/ Upgrade
    BY <1>1, <2>1, <2>2, UpgradeStep
  <2>3. CASE \E l \in Loaders : Import(l) \/ Load(l) \/ Progress(l)
    BY <1>1, <2>1, <2>3, ImportStep, LoadBegins, SchemaSteps, ListStep, TakeEntryStep, PassOverStep,
       FailureSteps, HashSchemaStep, ReadVersionStep, ListForDigestStep, DigestFileStep,
       DigestEnds DEF Progress
  <2> QED BY <2>1, <2>2, <2>3 DEF LoadStep
<1>2. IInv /\ [Next]_allVars => IInv'
  BY <1>1, IssueStep, ValidateStep, CheckStep, StutterStep DEF Next, AllEnded
<1> QED BY InitInv, <1>2, PTL DEF Spec

\* Every variable of the load and of the validation has its type.
THEOREM TypeCorrect == Spec => []TypeOK
<1>1. IInv => TypeOK
  BY DEF IInv
<1> QED BY <1>1, Invariance, PTL

\* A catalogue that was loaded undisturbed is all that is there.
THEOREM WholeCatalogue == Spec => []CatalogueIsWhole
<1>1. IInv => CatalogueIsWhole
  <2> SUFFICES ASSUME IInv, NEW l \in Loaders, Loaded(l), still[l] # None
               PROVE  /\ entries[l] = EntriesIn(still[l], Files \ (Skipped \union warned[l]))
                      /\ Unique(l)
    BY DEF CatalogueIsWhole, EntriesIn, Unique
  <2> QED BY DEF IInv, LoaderOK, Undisturbed, Loaded, Scanned
<1> QED BY <1>1, Invariance, PTL

\* A release digest that was recorded undisturbed is over every loaded entry.
THEOREM DigestCovers == Spec => []DigestCoversEntries
<1>1. IInv => DigestCoversEntries
  <2> SUFFICES ASSUME IInv, NEW l \in Loaders, Loaded(l), still[l] # None, digest[l] # None
               PROVE  entries[l] \subseteq digest[l].rows
    BY DEF DigestCoversEntries
  <2>1. Undisturbed(l)
    BY DEF IInv, LoaderOK
  <2>2. entries[l] = EntriesIn(still[l], Files \ (Skipped \union warned[l]))
    BY <2>1 DEF Undisturbed, Loaded, Scanned
  <2>3. digest[l] = [rows |-> RowsOf(still[l], Files \ Skipped)]
    BY <2>1 DEF Undisturbed
  <2> QED BY <2>2, <2>3 DEF EntriesIn, RowsOf, IsEntry
<1> QED BY <1>1, Invariance, PTL

\* A manifest without an issue satisfies the entry it was issued under.
THEOREM ValidIsSatisfied == Spec => []ValidMeansSatisfied
<1>1. IInv => ValidMeansSatisfied
  BY DEF IInv, ValidationOK, Stamped, ValidMeansSatisfied
<1> QED BY <1>1, Invariance, PTL

\* Between loads of the same files there is no false alarm.
THEOREM FalseAlarmFree == Spec => []NoFalseAlarm
<1>1. IInv => NoFalseAlarm
  BY DEF IInv, ValidationOK, NoFalseAlarmOf, NoFalseAlarm
<1> QED BY <1>1, Invariance, PTL
=============================================================================
