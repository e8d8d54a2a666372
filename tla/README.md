# A verification of actproof-py

`actproof` issues and verifies receipts of signed acts. An issuer builds a
manifest, hashes its canonical JSON, has the hash stamped by an RFC 3161
authority (TSA), commits to it in the note of an Algorand transaction, and
writes a receipt that holds all of it. Anyone can verify the receipt later,
against the manifest, the chain and the TSA's signature.

This directory holds TLA+ models of that program, the TLC configurations that
check them on small instances, and theorems about them that TLAPS proves for
every value of the constants. Paths below are those of `src/actproof/`.

Contents: 1 the system, 2 the modules, 3 the runs, 4 fairness, 5 the proofs,
6 where the code and its documentation differ, 7 what is not modelled,
8 the plan.

## 1. The system

| Part | State it keeps | Operations | Talks to |
|---|---|---|---|
| `canonical.py` | none | canonicalise, strict parse | `rfc8785` library |
| `manifest.py` | none (values) | build, to/from dict, hash, shape check | canonical |
| `catalogue.py` | none (values) | `load_catalogue`, `validate_manifest` | the installed catalogue package's files |
| `timestamp.py` | the attempts of a call | `acquire_timestamp_token` | TSAs, over HTTP |
| `anchor.py` | per call: params, transaction, txid, deadline | `anchor_manifest`, `_wait_for_confirmation` | algod, a signer |
| `signers/` | KMS: a cached public key and address | `address`, `sign_transaction`, `validate_transaction` | Google KMS, or nobody (mnemonic) |
| `receipt.py` | none (values); the receipt file | `build_receipt`, `read_receipt`, `write_receipt` | disk |
| `verify.py` | the statuses of the checks so far | `verify_receipt` and its six checks | an indexer, `tsp_client`, catalogue |
| `cli.py` | the progress of one run; its exit code | `anchor`, `verify`, `validate` | all of the above |

How they interact: `actproof anchor` reads the manifest and builds a signer,
calls `acquire_timestamp_token`, then `anchor_manifest`, then `build_receipt`
and `write_receipt`, in that order. `anchor_manifest` calls algod for suggested
params, the signer for its address and for a signature, and algod again to
submit and to poll. There are no threads inside the library; what runs
concurrently is the callers (several runs of the command, several threads with
one signer, several verifications), the networks, the TSAs and the KMS.
`verify_receipt` reads what `write_receipt` wrote, later and somewhere else.

What is hard about it, and the properties that make each part correct:

- **Anchoring.** Algod's answer to a submission can be lost after it took
  effect; a transaction can be evicted by one node and confirmed by another; it
  can be confirmed after the deadline; a poll can fail. A caller must never be
  told more than is so, must be able to find what it paid for, and must get an
  end. A transaction must never be paid for twice in one call.
- **Timestamping.** TSAs fail in turn, answers are crossed or late. The first
  success wins, a token is over the imprint asked for, the call gives up exactly
  after the last TSA, and it ends.
- **The command.** It can be killed between any two steps, its receipt file can
  be overwritten by another run, the disk can be full after the transaction is
  paid. What is on disk is true, and verifies; what is paid for is not lost
  without a reason; nothing is paid before the timestamp; exit code 0 means a
  receipt.
- **Verification.** It runs while the chain grows and indexers lag, on receipts
  of which any fields were changed. `ok` must bind the manifest to the chain and
  the token; verdicts must not contradict each other; a good receipt must not be
  failed.
- **Signing.** Threads race to fill a cache, requests and answers are garbled or
  are for another key. Only this key's address and signature come back, and only
  for transactions that move nothing.
- **The catalogue.** A load reads some dozen files one after the other, twice
  over for the digest, while an upgrade of the package may replace them; files
  that cannot be read are skipped. A load nobody disturbs has every entry; a
  manifest that is validated without an issue satisfies the entry it was issued
  under, whatever became of the package in between.
- **Manifests and receipt files.** A manifest is hashed twice, written, read and
  written again, passed through other implementations of JSON and edited, and
  its caller keeps a hold on part of it. Whatever was anchored reads the same for
  everybody; a substitute shows; what reading loses, it loses at once; and the
  strict mode refuses what may be read differently and nothing else, integers at
  the ends of the I-JSON range and repeated keys included.

`PROJECT.json` lists the hazards one by one at their lines, each with the
properties that would catch it.

## 2. The modules

Every action is the code from one call to the outside (network, disk, lock-free
read of shared state) up to and including the next one, with all its state
changes, early returns and error paths. Data is reduced to what the properties
tell apart: a hash, a key or a profile is a model value or a number, a
signature or a token is a record of what it is over.

### Anchoring: `Algod`, `Anchor`, `Commitment`, `AnchorCommitment`

`Algod` is the environment, external to the repository: two networks, each
with a round, the transactions accepted, those a node reports a pool error for,
and a ledger of entries. It can produce blocks that contain any subset of what
is valid (`NewRound`), and evict (`Evict`). A transaction is identified by its
contents, as an Algorand txid is, so two calls with equal contents in one round
build the same transaction.

`Anchor` is `anchor_manifest`. Each of any number of `Calls` has a program
counter, its arguments `req`, the `first` valid round it was given, `txn` as
built, `txid` as answered, whether its deadline is `late`, and the `record` or
`error` it ended with.

| Action | Code |
|---|---|
| `Call` | the caller's arguments |
| `RefuseNote`, `ReturnDraft`, `StartSubmission` | `build_note_bytes`, the DRAFT early return, the clients |
| `ParamsAnswer`, `ParamsFail` | `suggested_params` |
| `BuildTransaction`, `AddressFails` | `signer.address` and the `PaymentTxn` |
| `Sign`, `SignFails` | `signer.sign_transaction` |
| `Send`, `SendFails`, `SendAnswerLost` | `send_transaction`: done, refused, or done with the answer lost |
| `PollConfirmed`, `PollRejected`, `PollTimesOut`, `PollAgain`, `PollFails` | the ways through one iteration of `_wait_for_confirmation`, in its order: a round, a pool error, the deadline |
| `DeadlinePasses` | `time.monotonic()` |

A note's length is 95 bytes and the profile's; the instances have a profile of
905 (exactly 1000 bytes) and 906 (one too many).

`Commitment` is the abstract specification: callers ask, blocks come to hold
commitments that were asked for, one per caller, and each caller is answered at
most once and truthfully. `AnchorCommitment` maps `Anchor` to it (`askedBar`,
`chainBar`, `answerBar`); `KeepsPromise` is the refinement.

### The command: `Issuer`

`Issuer` extends `Anchor`: run `c` makes call `c`. It adds where the run is
(`cli`), its options, the `stamp` it holds, exit code, the txid `said` on the
terminal, and the one `file` all runs write to. `CallAnchor`, `Anchoring`,
`PollRaises` and `Clock` are Anchor's own actions, taken while the run stands in
that call. `OpenOutput` (which truncates) and `WriteOutput` are two steps of
`write_text`, so that other runs and a kill come between them; `Kill` also has
the case that the process dies while algod's answer is on its way. Acquiring
the timestamp is one step with the two outcomes of `Acquisition`: a token over
the hash, or a failure.

### Timestamps: `Timestamp`, `Acquisition`

`acquire_timestamp_token`: `_validate_imprint`, `_digest_enum` and the empty
chain (`RefuseArguments`), the loop (`Ask`, `Accept`, `AttemptFails`) and its
end (`Exhaust`). `sent` and `issued` are what reached the TSAs and what they
signed: a TSA may sign a request that was given up, and an answer may be any
token of that TSA, so that answers cross between calls. `ReadMore` is one more
piece of a response, within the read timeout.

`Acquisition` is the abstract specification: TSAs sign only imprints that were
asked for, and each caller is answered at most once, by a signed token over its
imprint from a TSA of its chain, with that TSA and that imprint named beside it,
or by a failure. `Timestamp` maps to it (`askedBar`, `answerBar`, and `issued`
for what was signed); `KeepsPromise` is the refinement. A chain is a set there:
that it is gone through in its order, and to its end, is left to
`FirstSuccessWins` and `GivesUpAtTheEnd`.

### Verification: `ReceiptChecks`, `Verify`, `Lifecycle`

`ReceiptChecks` has the six checks of `verify_receipt` as functions of a receipt,
of the options and of the entries that an indexer has seen: `ProfileStatus`,
`ManifestHashStatus`, `NoteStatus`, `AnchorStatuses`, `TokenStatus`; the outcome
of the catalogue check is left open (`CatalogueStatuses`).

`Verify` is `verify_receipt`, over a chain that grows (`Confirm`) and indexers
that lag (`Index`). A receipt starts as one that a correct issuer writes
(`Issued`) and has any of its fields changed, any number of times (`Change`), or
is the one that another verifier holds (`Hold`). `CheckLocally` runs the four
checks that read nothing outside, `CheckAnchor` and `CheckTimestamp` the others,
with every exception turned into a status as the code does. A missing
`tsp_client` is the stub that `timestamp.py` defines.

`Lifecycle` joins the two ends. It extends `Issuer`, and gives what its runs have
left at `--output` to the checks: `AsRead` is what `read_receipt` makes of the
file, `Indexable` what an indexer can come to say of the blocks. In every state
anyone may verify, with any options and any part of the blocks indexed
(`WrittenReceiptVerifies` quantifies over all of them). The answer is that
nothing FAILs but the timestamp, and that one exactly where it is a placeholder
or `tsp_client` is missing.

### Signing: `SignerPolicy`, `KmsSigner`

`SignerPolicy` has `Conforms`, which is `validate_transaction` with all its
checks, and beside it what a payment does by the protocol: the balances after it
(`BalanceAfter`) and who may sign afterwards (`SignerAfter`). The two are
written independently, one from the code and one from the protocol, so that
`SentMovesNothing` compares the policy with its effect and not with itself.

`KmsSigner` is a signer that threads share. `address` is cut where a thread
reads or writes the cache or waits for the KMS (`HaveAddress`, `HaveKey`,
`FetchKey`, `GetKey`, `Derive`, `ReturnAddress`), signing where it validates
and asks (`RefuseType`, `Refuse`, `AskToSign`, `Sign`). Every field of a KMS
answer can be garbled, and the answer can be for another key version; the code's
name, checksum, algorithm and `verified_data_crc32c` checks are `KeyAccepted`
and `SignatureAccepted`. A checksum is taken to be that of one value only. The
mnemonic signer is the same module with `backend = "mnemonic"`, whose address
is there from the start.

### The catalogue: `CatalogueLoad`, `Validation`

`CatalogueLoad` is `load_catalogue`, run by any number of processes. On disk are
the files below `acts/`, the schema file of each version, the distribution's
version and the package's module, of which `__spec_version__` matters;
`StartUpgrade` picks a later release and `Upgrade` removes or replaces one file
at a time, in any order. A process imports the module once, in a load (`Resolve`)
or before it (`Import`), and keeps it whatever is upgraded. A load is cut at
every read:

| Action | Code |
|---|---|
| `Load`, `Resolve`, `Fail` | the arguments, `_resolve_acts_path` with its import, and whatever raises before the scan |
| `ReadSchema`, `HaveSchemas` | `_resolve_schema_paths`, `_build_schema_validators` |
| `List`, `TakeEntry`, `PassOver`, `WarnOf`, `Refuse` | `_scan_acts_directory`: the listing, and for each file in its order the four ways it can go |
| `HashSchema`, `HashSchemaFails` | `schema_hash`: v3 before v2, whichever the entries were held against |
| `ReadVersion` | `importlib.metadata.version`, and `__spec_version__` of the imported module |
| `ListForDigest`, `DigestFile`, `NoDigest`, `HaveDigest` | `_read_packaged_release_metadata`, which reads the files anew and never raises |

A text stands for the bytes of a file and for their hash. It says what
`json.loads` and `_parse_entry` make of them (`Forms`), which schemas it
conforms to, and the fields that `validate_manifest` reads. `still` is the one
history variable: the disk as it stood, as long as nothing has changed since the
load began. What `list_catalogue_entries` of the package lists is external and
taken to be what a scan lists.

`Validation` lets a process that has loaded a catalogue issue a manifest under
it (`Issue`: `build_manifest` with any claim and evidence, stamped with
`spec_version` or not and with the release digest or not), validate one that
another process issued (`Validate`), or check it as `verify_receipt` does
(`Check`). `BindingIssues` and `ContentIssues` are the checks of
`validate_manifest`, in two groups; `Conformance` is
`_check_catalogue_conformance`, which compares the two fields of the stamp
first, each where both sides have it (`StampDiffers`); `ExitCode` is that of
`actproof validate`.

### Manifests and receipt files: `Canonical`, `Manifest`, `ReceiptFile`

A Python or JSON value is a tree, and a tree is a function from paths (the keys
and positions that lead from the root to a node) to nodes. A canonical text and
its hash are identified with the tree: two strict trees have one text only if
they are equal, which is what RFC 8785 and its library promise and not the code.

`Canonical` has `_validate_strict` (`Strict`, `NodeAllowed`), `hash_canonical`
and `canonicalize_from_json` with its detection of repeated keys (`RepeatsKey`),
and beside them what the readers of a text make of it (`ReadBack`): Python's
`json`, which keeps integers, turns tuples into lists and number keys into
strings, and implementations that have doubles for all numbers and round one way
or the other. A float is one that is whole (`"float"`), which other readers
write as an integer, or one that is not (`"fraction"`, of which the part before
the point is kept), which everybody reads as written. Of the readers, only
Python's `json` is used by this system. A JSON text that may repeat keys is a
tree of positions, each with its key.

`Manifest` has `build_manifest`, `manifest_to_dict` (`Emitted`),
`manifest_from_dict` (`Readable`, `Kept`, `FieldFromDict`) and `hash_manifest`.
Fields that the code only hands through are reduced to one for each place they
can stand in; the optional fields of the catalogue binding are all there.

`ReceiptFile` follows one manifest:

| Action | Code |
|---|---|
| `Build`, `Load` | `build_manifest` and `manifest_from_dict`, with their refusals |
| `Anchor` | `hash_manifest` for the note |
| `Issue` | `build_receipt`, which hashes the manifest again |
| `CallerChangesClaim` | the caller's claim, of which `dict(claim)` copies the outermost dict only |
| `Write`, `Read` | `write_receipt`; `read_receipt`, which makes up the note of an older receipt |
| `PassOn`, `Predate`, `Edit` | external: another implementation reads and writes the file, an older version wrote it, somebody edits it or makes a hash fit |
| `Rehash` | `canonicalize_from_json` on a text |

### Mutated forms

A definition whose comment begins "Mutated form of", or that ends in
`\* mutated`, is a plausible bug of the code and is not used by the
specification. Put in place of the definition it names, it violates the
property that `PROJECT.json` lists with it; this shows that the property and the
bounds of its run can tell.

## 3. The runs

`tlc -workers 2 -config X.cfg M` for each line. State counts are distinct states.

| Config / module | States | Instance | Checks |
|---|---|---|---|
| `AnchorSafety` / `MCAnchor` | 374k | 2 calls, 2 hashes, notes of 1000 and 1001 bytes, 3 rounds, validity 2 | `RecordIsHonest`, `WaitedRecordIsConfirmed`, `SubmissionIsNamed`, `DefaultClientRightNetwork`, `KeepsPromise` |
| `AnchorNetworkLabel` / `MCAnchor` | violated | 1 call, any client | `RecordNamesItsNetwork` |
| `Timestamp` / `MCTimestamp` | 126k | 2 calls, 2 imprints, 2 TSAs, chains of 0, 2 and the default | `FirstSuccessWins`, `GivesUpAtTheEnd`, `KeepsPromise`, `AcquisitionEnds` |
| `TimestampStall` / `MCTimestamp` | violated | 1 call, 2 TSAs, weaker fairness | `AcquisitionEnds` |
| `IssuerSafety` / `MCIssuer` | 585k | 2 runs, 2 hashes, DRAFT and DEMO, killed anywhere | `ReceiptOnDiskIsTrue`, `NoAnchorWithoutTimestamp`, `SuccessMeansReceipt`, `OrphansAreExplained`, `WrittenReceiptVerifies`, `UsesAnchorOnce` |
| `IssuerLive` / `MCIssuer` | 95k | 2 runs, DEMO, waiting or not | `RunEnds` |
| `IssuerEvidence` / `MCIssuer` | violated | 1 run | `EvidenceIsWritten` |
| `Verify` / `MCVerify` | 528k | 2 verifiers, 2 hashes, up to 2 changed fields | `OkMeansBound`, `VerdictsAgree`, `IssuedNeverFails` |
| `VerifyRound` / `MCVerify` | violated | 1 verifier, 2 rounds, nothing changed | `RoundIsConfirmed` |
| `KmsSigner` / `MCKmsSigner` | 78k | 2 threads, 2 keys, 16 transactions, both backends | `AddressIsTheKeys`, `SignatureFits`, `SentMovesNothing`, `AddressStays`, `UseEnds` |
| `Validation` / `MCValidation` | 419k | 2 processes, 3 files (1 deprecated), 7 old releases and 2 new ones, all options | `CatalogueIsWhole`, `DigestCoversEntries`, `ValidMeansSatisfied`, `NoFalseAlarm` |
| `ReceiptFile` / `MCReceiptFile` | 38k | 268 manifests, doubles up to 32, up to 2 edits, 12 texts | `ReceiptSurvives`, `SubstitutionShows`, `ReadingSettles`, `StrictIsExact`, `OneReading` |

Every passing safety run also checks the type invariant.

**Two actors** are enough for the interleavings that matter here: the actors
meet only in shared sets (accepted transactions, issued tokens), in one file and
in one cache, and every property speaks of one actor or of two. The theorems
hold for any number.

**Rounds.** Three rounds with a validity of two let a transaction be confirmed
in its first valid round, in its last, expire and be built again with a new
first round. `FewRounds` leaves out only that both networks run through all.
`MaxRound` bounds the networks; nothing in the code counts.

**Constraints.** A state outside a CONSTRAINT is not explored further, so each
is one that can only become false in a step that picks an input, or in one that
concerns a network nobody uses:

- `FewClients`, `NoEvidenceOption`, `FewRequests`, `FewChanges`,
  `OneReceipt`, `FewOptions` are about arguments, options and changes: they cut
  `Call`, `Start`, `Hold`, `Change` and `CheckLocally` steps. They leave out
  combinations of inputs that repeat others (`--evidence-output` is read
  nowhere; of the imprints that are refused one of each kind is kept; a
  catalogue check that is SKIP counts as PASS does).
- `StampedRuns`: the runs of `IssuerLive` acquire a timestamp, which is the
  longer of the two ways to the same end.
- `OneNetwork`: the runs of `Issuer` there are all DRAFT or DEMO, which use
  testnet only.
- `LocalFirst`: what `verify_receipt` does before it asks for the anchor reads
  nothing of the chain, so that those steps commute with its growth and are
  taken first.

In `Verify` one verifier alone has all options and up to two changes; two side
by side have one receipt as issued, and the options that leave the question
about its anchor open, which is the case that `VerdictsAgree` is about. Two
changes are enough to break each pair of fields that `OkMeansBound` relates (for
instance `manifest` and `declared`, which the mutated form `BelieveDeclared` is
caught with); `OkBinds` is the theorem for any number.

In `KmsSigner` the transactions are the anchoring one and fifteen that differ
from it in one thing (one in two), at and beyond both ends of the fee and the
note's length. The policy is a conjunction, so that one difference at a time
shows each conjunct.

In `Validation` one load alone has all the options and all the releases: the
second file of the old one is an entry, a second entry of the same act type, no
JSON, other JSON, an entry that does not parse, or absent. The new release
changes the text of an act type's entry and leaves its version, which is what
`ValidMeansSatisfied` is about. The cuts there:

- `FewOptions`: what is done before the scan (validators), and after it for a
  `schema_path` and for a package, read different files and meet nowhere.
- `TwoLoads`: two processes come one after the other (they share nothing but the
  files, which they only read) and have one file each that can be read. Either
  makes a digest, or fails to, before an upgrade or after it, or before it is
  disturbed by one: so an issuer may stamp a manifest with the digest of one
  release under an entry of another.
- `IssueLast`: issuing and validating read no file, so that they commute with
  loads and upgrades and come last; and one of the two processes issues, the
  other validates.
- `EarlyImport`: importing the package before the load is told apart from
  importing it in the load only where the module was upgraded in between, and is
  explored in the releases of two loads.
- `UpgradeIsSeen` (of the ACTION_CONSTRAINT `Upgrades`): an upgrade that no load
  is left to see does not begin.
- `UpgradeInOrder`: the upgrade is one of releases whose files are entries, the
  second one in both or in neither, and puts the module in place last. Loads read
  the module once, so that where it stands among the other files only decides
  which loads have the old one; `EarlyImport` gives the old one to any.

The theorems about `Validation` hold without any of them.

In `ReceiptFile` the manifests are a plain one and those that differ from it in
one thing: each optional field, each group of them (given or null), each field
missing or of another type, each kind of value in the claim at two depths. The
code treats a field by itself but for the optional ones, of which all
combinations are there. `Limit` stands for 2^53 and `Scales` for the powers of
two of a double's exponent: with 8 and {1, 2, 4} every integer up to 8 is a
double, every second one up to 16, every fourth up to 32 and none beyond. The
integers of the manifests are those within -9..9 and outside -6..6, with the
ends of the I-JSON range (7), the limit itself and the first that no double
holds (9), and 33, which is beyond all doubles. Two edits are what it takes to
change a manifest and make a hash fit it; `SubstitutionShows` then depends on
the other hash. `FewEdits` keeps edits and late changes of the claim to the
manifests that are plain but for the package's fields, `spec_version` and
`computed_by`: an edit replaces or removes a node whatever else there is.
`HashBindsManifest` is the theorem for any number of edits of any manifest.

**Symmetry** of calls, runs, hashes and verifiers is used in the safety runs
only.

**Deadlock** is checked in all runs: `AllEnded`, `AllOver` and `AllDone` are the
steps that stutter when all work is done.

## 4. Fairness

The specifications assume as little as the code gives:

- The steps of a call, run or thread are weakly fair (`Progress`, `Run`): the
  process is scheduled and a request to algod, a signer or the KMS ends in an
  answer or an error. algosdk's and the KMS client's requests have timeouts of
  their own. Which of the two it is stays open.
- Time passes (`DeadlinePasses`, `Clock`).
- A poll is never *required* to fail (`PollFails` is in no fairness condition),
  and a network is never required to confirm or to evict anything: that the wait
  for a confirmation ends, of which `RunEnds` makes sure, is due to the deadline
  alone.
- `Timestamp` has two: `FairSpec` is what the (connect, read) timeouts of
  `_build_transport` give, where every single read ends but a response may come
  in pieces for ever; `FiniteResponses` adds that a response does not, by strong
  fairness of `ResponseEnds`, since `ReadMore` can be taken in between. Under
  the first `AcquisitionEnds` is violated, under the second it holds.
- `RunEnds` (`Issuer`) speaks of runs that are not killed or end by it; nothing
  makes a kill happen.

## 5. The proofs

`tlapm M.tla` for each `*Proofs` module; each extends the module it is about.

| Module | Theorems |
|---|---|
| `AnchorProofs` | `Invariance`, `TypeCorrect`, `HonestRecords`, `WaitedRecords`, `SubmissionsHaveCalls`, `SubmissionsAreNamed`, `RightNetwork`, `CallsOnlyAdvance` |
| `AnchorCommitmentProofs` | `PromiseKept`: `Spec => KeepsPromise` |
| `IssuerProofs` | `AnchorUsedOnce`, `RunsKeepPromise`, `IssuerIsSafe` and one theorem per safety property, `WrittenVerifies`, `RunsOnlyAdvance` |
| `TimestampProofs` | `Invariance`, `TypeCorrect`, `FirstSuccess`, `TokensMatch`, `ChainExhausted`, `PromiseKept`: `Spec => KeepsPromise`, `CallsOnlyAdvance` |
| `VerifyProofs` | `Invariance`, `TypeCorrect`, `OkBinds`, `NoContradiction`, `IssuedAccepted` |
| `KmsSignerProofs` | `Invariance`, `TypeCorrect`, `OwnAddress`, `OwnSignature`, `OnlyAnchorsSent`, `AddressKept`, `UsesOnlyAdvance` |
| `ValidationProofs` | `Invariance`, `TypeCorrect`, `WholeCatalogue`, `DigestCovers`, `ValidIsSatisfied`, `FalseAlarmFree` |
| `ReceiptFileProofs` | `Invariance`, `TypeCorrect`, `IssuedSurvives`, `HashBindsManifest`, `ReadingIsStable`, `HashedTextsAreClear`, `StrictAsWritten`, `StrictExactly`, `StrictIsRight` |

Together they are every invariant, every action property and both refinements
that the passing runs check, for any sets of calls, hashes, TSAs, chains, keys,
threads, files, releases, manifests and texts, and doubles of any precision.
Assumptions are the named ASSUMEs of the modules: that absent values differ from
present ones (`CommitmentAssumption`, `AcquisitionAssumption` and
`LifecycleAssumption` say so of what their instances are given), that lengths and
rounds are numbers, that chains are sequences, that the default chain is not
empty (it is a constant of the code), that the limit of exact integers is even
and the scales of a double are 1 and even numbers (`CanonicalAssumption`; they
are 2^53 and the powers of two), that the arguments of `build_manifest` are trees
with the declared fields (`ReceiptFileAssumption`) and, for the policy, what
`SignerPolicy` requires of its constructor's arguments. TLC evaluates them in
every run. `StrictIsRight` has one hypothesis of its own, that `None` is no tree.

The argument in each case is an inductive invariant that says, for each point of
the code, what has been established there:

- **Anchor** (`IInv`). `SubmissionIsNamed` is not inductive: that a poll's error
  names the transaction needs that the `txid` it polls is the `txn` that was
  submitted, which needs that a polling call has one. `CallInv` has these facts
  per program counter, `LedgerInv` that a block holds only what was accepted and
  each transaction once. The network's steps only add to `accepted` and
  `ledger`, so that what a call relies on stays.
- **AnchorCommitment**. Under the refinement a network's block maps to `Commit`,
  a call to `Ask`, its last step to `Answer` and everything else to a stutter.
  The hard part is that every commitment is `Owed` to a call of its own: two
  calls can build one transaction, and `EverySubmissionHasACall` with
  `LedgerInv` gives an owner of each entry that owns no other, a call having one
  transaction.
- **Issuer**. `AnchorUsedOnce` shows that every behaviour of the command is one
  of `Anchor`, so that its theorems carry over: `RunsKeepPromise` follows with
  `PromiseKept`. `IssuerInv` adds `RunInv`, what a run knows of its call and its
  stamp at each point, and `FileInv`: from the moment a run has opened the file,
  its contents are what the run put there unless another run has returned from
  anchoring.
- **Lifecycle** (`WrittenVerifies`) follows from `ReceiptOnDiskIsTrue`, which had
  to say more for it than that a receipt's hash is the one anchored: the
  transaction it names carries the very note of the receipt, on the receipt's
  network. Whatever an indexer returns for that id is this transaction
  (`FoundIsTheTransaction`), so that the comparison of payloads cannot fail.
- **Timestamp** (`IInv`). The attempts of a call are the failed TSAs before the
  current one. `FirstFailed` is stated by position, so that it is preserved by
  `Append`; chains have any length. Under the refinement `Issue` maps to `Sign`,
  a call to `Ask`, `Accept` to `Succeed`, `RefuseArguments` and `Exhaust` to
  `Fail` and everything else to a stutter. A token may be signed after the
  request for it was given up, so that `Sign` needs what the type of `sent` does
  not say: whatever has reached a TSA some call has asked for, with valid
  arguments and that TSA in its chain (`SentWasAsked`, a conjunct of `IInv`).
- **Verify** (`IInv`). Every status is tied to what it was computed from: a PASS
  of the anchor to an entry of `indexed`, which is within `onChain` and only
  grows. `OkBinds` then chains three comparisons, each of a different pair of
  fields. `NoContradiction` rests on ids being used once.
- **KmsSigner** (`IInv`). `ThreadOK` says what a thread may rely on where it is:
  in `derive` its `raw` is the signer's key; in `addressed` the cached address
  is, since no step ever clears it; in `signing` its transaction conforms to it.
  `OnlyAnchorsSent` then computes `BalanceAfter` from `Conforms`.
- **Validation** (`IInv`). `Undisturbed` says, at each point of a load that no
  upgrade has touched, how `entries` and the rows of the digest relate to the
  files still to be read. `NoFalseAlarm` needs it of two loads at once: the entry
  that one of them cites is, by `Unique`, the only one that the other finds, two
  digests of the same files are the same, and so are two `spec_version`s if both
  are that of the files (`ModuleIsCurrent`). `ValidMeansSatisfied` needs it of
  the verifier's load only (`SharedDigest`): the issuer's may be a mixture of two
  releases.
- **ReceiptFile** (`IInv`). What an issuer holds is a manifest that `build` or
  `read` returned and whose claim alone its caller changed, and these three keep
  what makes a tree a manifest (no half pair, every field in its place): so
  `manifest_from_dict` undoes `manifest_to_dict` for it, but for counts that are
  no int. What was hashed is strict, and a strict tree reads as it was written
  for every reader (`StrictAsWritten`), whence an issued file stays as it is
  however often it is passed on. `HashBindsManifest` goes the other way: equal
  hashes are equal dicts, `manifest_to_dict` is one to one on manifests, and
  `committed` is the manifest whose dict was hashed. `StrictExactly` says of
  every tree that the strict mode takes it if and only if it has no float and
  all readers get back what was written. That it takes no more: an integer in
  the range is a double, so that no reader rounds it. That it refuses no more
  but floats: beyond the range every double is even, `Limit` included, so that
  the odd neighbour on the far side of an integer there is no double and some
  reader takes it for the same number.
- **Ranks** (`CallsOnlyAdvance` twice, `RunsOnlyAdvance`, `UsesOnlyAdvance`). Of
  liveness the part that needs no fairness is proved: every change of a call, a
  run or a use of the signer decreases a number, which the type invariant bounds
  (8 for a call of `anchor_manifest`, 62 for a run with its call, 3 for each TSA
  of a chain and 3 more for an acquisition, 6 for a use). So nothing is tried
  again without bound, and no call or run that has ended changes, for sets and
  chains of any size. What is left to TLC of the liveness properties is that what
  has not ended is never stuck, and that the fairness of section 4 makes it go on.
  What may repeat changes nothing: a poll that finds its transaction pending, and
  the pieces of a response.

Only model-checked: the liveness properties `AcquisitionEnds`, `RunEnds` and
`UseEnds`, as the prover has neither fairness nor ENABLED. Only proved, and not
among the properties of the runs: the four rank properties, and
`EverySubmissionHasACall` and `TokenIsOverImprint`, which the two refinements
rest on or imply.

## 6. Where the code and its documentation differ

Each of these is shown by a run in which TLC finds the violation.

1. `AnchorNetworkLabel`: `anchor_manifest` records the network of the mode, and
   submits to that of `algod_client` or `algod_url` (`anchor.py:406`, `524`). A
   DEMO call with a mainnet client records `algorand-testnet`.
   `receipt.py:235-237` says the record looks up "the right network".
2. `TimestampStall`: `_build_transport` bounds single reads; "a misbehaving TSA"
   can stall the chain all the same (`timestamp.py:370-377`).
3. `IssuerEvidence`: `--evidence-output` is accepted and never used
   (`cli.py:407-436`).
4. `VerifyRound`: the indexer's round is never compared with the receipt's
   (`verify.py:543`; `verify.py:79-80` says it is).

Noted while reading, and without a run of their own:

- `verify.py:48-51` says that the timestamp check is SKIP where `tsp_client` is
  missing. `timestamp.py` defines stubs in that case, so that the import
  succeeds and the check FAILs (`TokenStatus` models it so, and
  `IssuedNeverFails` has to except it).
- `verify.py:43-46` says that the anchor is skipped where no indexer is
  configured; a default one is built.
- `imprint_hex` of a receipt's timestamp is compared with nothing
  (`receipt.py:316-318`), nor is what `receipt.py:46-49` says of the on-chain
  note.
- `acquire_timestamp_token` raises for an empty chain with
  `raise_on_failure=False` too.
- `signer.address` stands outside the try blocks of `anchor_manifest`
  (`anchor.py:560`), and the KMS signer's RuntimeError leaves it as it is
  (`AddressFails`), where the docstring promises AnchorError.
- `load_catalogue` promises CatalogueLoadError for malformed entries
  (`catalogue.py:1197-1199`); an entry that is no JSON is skipped with a warning,
  and one that is no UTF-8 raises UnicodeDecodeError. So does the OSError of
  `hash_schema_file` leave it unwrapped.
- A load during an upgrade can return entries of one release with the version,
  schema hash and digest of another, or of neither: this is why
  `DigestCoversEntries` is about undisturbed loads. `manifest.py:234-236` reads
  as if the digest bound the entry in any case.
- A check between two loads of the same files can fail: if one process had
  imported the package before it was upgraded, its `spec_version` is still the
  old one (`catalogue.py:772`), and `verify.py:402-407`, which compares the two,
  takes the receipt to be "built against a different catalogue release"
  (`NoFalseAlarm` has to except it with `ModuleIsCurrent`; without that TLC finds
  it, the digests being equal).
- Strict mode refuses every float (`canonical.py:267-285`), a fraction like 7.5 as
  well, which all readers in the model read as it was written. The code's reason is
  how floats are written, which the model leaves out (`StrictIsExact` has to
  except floats from what is refused).
- `anchor.py` allows a note of 1000 bytes, `signers/interface.py` one of 1024.
- `build_manifest` takes `dict(claim)`, a copy of the outermost dict, where the
  module says that a manifest is immutable: what the caller changes deeper in
  the claim is in the receipt, whose two hashes then differ from each other or
  from its manifest (`CallerChangesClaim`; `ReceiptSurvives` has to except it,
  `SubstitutionShows` covers it).
- A count that is given to `build_manifest` as a boolean or a string is hashed as
  such and becomes an int in reading, so that the receipt does not verify
  (`ReceiptSurvives` has to except it).
- `manifest_from_dict` drops fields that it does not know, and optional ones that
  are null, before the manifest is hashed: the anchored hash is not that of the
  file's contents.
- `canonical.py` says that JSON from outside is to go through
  `canonicalize_from_json`; `read_receipt` and the commands use `json.loads`,
  which takes the last of the members with one key.
- `read_receipt` promises ReceiptError. ManifestValidationError, the ValueError of
  `int()` and UnicodeDecodeError leave it as they are; so does UnicodeEncodeError
  leave `write_receipt`, and what `hash_manifest` raises leave the `anchor`
  command (`cli.py:509`).

## 7. What is not modelled

- Cryptography and encodings. A signature, a token and a checksum are records of
  what they are over. The text that `rfc8785` writes, and with it `strict=False`,
  base32 and DER are libraries' or pure functions; that different canonical trees
  have different texts and hashes is assumed of them.
- Beyond `Manifest` and `ReceiptFile` the models take a manifest by its hash.
- `validate_manifest_shape`, which nothing in the package calls; the hashing of
  e-mail addresses and of files, whose results are strings of a manifest; the
  issuer's evidence record, which no command writes or reads.
- In `Canonical`: how a fraction is written, which Python and other
  implementations may do differently in its last digit or its exponent.
- In `Manifest`: strings and lists of pairs where a dict is expected, of which
  Python's `dict()` takes some.
- In `Verify` the catalogue check is any; it is modelled in `Validation`, where
  `validate_manifest` raises nothing: the ERROR of a manifest whose evidence
  labels are no strings is left to `Verify`.
- The balance of the account that pays, and fees in `Anchor`: a refusal or an
  eviction for them is one for any reason.
- Durability of the file below the process: what a write has written stays.
- Constructors' argument errors, the console output but for the txid, and the
  argument errors of the `verify` command, which otherwise exits with 0 where
  `Ok` holds and with 1 where it does not.
- In `CatalogueLoad`: a directory given by `ACTPROOF_CATALOGUE_PATH` that is the
  package's own, where the import comes only with the version; that a schema
  file is looked for, tested and hashed in more than one step, and read once per
  discriminator; the fields of an entry that no check reads.

## 8. The plan

Done, in this order: `Algod`, `Anchor`, `Commitment` and `AnchorCommitment` with
their proofs, since money and the promise to the caller are there; `Timestamp`;
`Issuer`, which composes them; `Verify`; `SignerPolicy` and `KmsSigner`;
`CatalogueLoad` and `Validation`, with the catalogue check of a receipt;
`Canonical`, `Manifest` and `ReceiptFile`, which join the making, hashing,
writing and reading of manifests; `Lifecycle`, which gives what `Issuer` writes
to the checks of `Verify`; `Acquisition`, the abstract specification of
`Timestamp`.

Next:

1. An abstract specification of a load (it returns a release or is disturbed)
   that `CatalogueLoad` implements, beside `Commitment` and `Acquisition`.
2. `validate_manifest_shape`, once something calls it: whatever `build_manifest`
   returns has the shape, and whatever has it can be read.
