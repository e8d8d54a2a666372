---------------------------- MODULE ReceiptChecks ----------------------------
(***************************************************************************)
(* The six checks of verify_receipt (actproof/verify.py) as functions of a *)
(* receipt, of the options and of what an indexer has seen: module Verify  *)
(* runs them, module Lifecycle applies them to what an issuer wrote.       *)
(***************************************************************************)
EXTENDS Integers

CONSTANTS
  Hashes,        \* the hashes of manifests
  Batchings,     \* the batching profiles
  Ids,           \* the transaction ids
  Rounds,        \* the rounds of blocks
  OtherPayload,  \* a payload that build_note_payload does not make
  Unprefixed,    \* a note without the prefix actproof:j
  None           \* Python's None, the empty txid, and what cannot be decoded

Networks == {"mainnet", "testnet"}
Names == Networks \union {"betanet"}
Status == {"PASS", "FAIL", "SKIP", "ERROR"}

\* What build_note_payload makes, or another payload.  A note in a block is a
\* payload behind the prefix, a text without it, or empty.
Payload(hash, batching) == [hash |-> hash, batching |-> batching]
Payloads == [hash: Hashes, batching: Batchings] \union {OtherPayload}
Entries == [id: Ids, net: Networks, note: Payloads \union {Unprefixed, None}, round: Rounds]

\* manifest stands for the manifest by the hash that is recomputed from it, None
\* if that raises.  declared is manifest_hash: the bytes it spells, None if it is
\* not hex, and whether it is their text exactly, with sha256: and in lower case.
Declarations == [hash: Hashes, exact: BOOLEAN]
TokenSet == [imprint: Hashes, genuine: BOOLEAN]
Receipts ==
  [profile: {"actproof-jcs-v1", "unsupported"},
   manifest: Hashes \union {None}, declared: Declarations \union {None},
   batching: Batchings,
   net: Names, txid: Ids \union {None}, round: Rounds \union {None},
   payload: Payloads, token: TokenSet \union {None}]

\* The options the networked checks read: the network of an indexer client that
\* is passed, the checks to skip, and which imports work: tsp for tsp_client and
\* sdk for algosdk's IndexerClient.
Options ==
  [client: Networks \union {None}, skip: SUBSET {"anchor", "timestamp"},
   tsp: BOOLEAN, sdk: BOOLEAN]

ASSUME VerifyAssumption ==
  /\ None \notin Hashes \union Ids \union Names
  /\ None \notin Payloads \union Declarations \union TokenSet
  /\ None \notin Receipts
  /\ OtherPayload \notin [hash: Hashes, batching: Batchings]
  /\ Unprefixed \notin Payloads

-------------------------------------------------------------------------------
(***************************************************************************)
(* The six checks.                                                         *)
(***************************************************************************)

ProfileStatus(r) == IF r.profile = "actproof-jcs-v1" THEN "PASS" ELSE "FAIL"

\* Mutated form of ManifestHashStatus: the declared hash is believed.
BelieveDeclared(r) == IF r.declared # None THEN "PASS" ELSE "FAIL"

\* The declared hash is compared as text.
ManifestHashStatus(r) ==
  CASE r.manifest = None -> "ERROR"
    [] r.manifest # None /\ r.declared = [hash |-> r.manifest, exact |-> TRUE] -> "PASS"
    [] r.manifest # None /\ r.declared # [hash |-> r.manifest, exact |-> TRUE] -> "FAIL"

\* Mutated form of NoteStatus: the exception is not turned into a status.
LeakError(r) ==
  CASE r.declared = None -> None
    [] r.declared # None /\ r.payload = Payload(r.declared.hash, r.batching) -> "PASS"
    [] r.declared # None /\ r.payload # Payload(r.declared.hash, r.batching) -> "FAIL"

\* Rebuilt from the bytes of the declared hash, not from the manifest.
NoteStatus(r) ==
  CASE r.declared = None -> "ERROR"
    [] r.declared # None /\ r.payload = Payload(r.declared.hash, r.batching) -> "PASS"
    [] r.declared # None /\ r.payload # Payload(r.declared.hash, r.batching) -> "FAIL"

\* Whether a catalogue is passed, and what is found with it, is left open: module
\* Validation has this check.
CatalogueStatuses == {"SKIP", "PASS", "FAIL", "ERROR"}

\* No client is passed and none can be built.
NoIndexer(r, o) == o.client = None /\ (~o.sdk \/ r.net \notin Networks)

IndexerNet(r, o) == IF o.client = None THEN r.net ELSE o.client

\* What a lookup can return, of the entries that the indexers have seen.
Found(seen, r, o) == {e \in seen : e.id = r.txid /\ e.net = IndexerNet(r, o)}

EntryStatus(r, e) ==
  IF e.note \in Payloads /\ e.note = r.payload THEN "PASS" ELSE "FAIL"

\* Mutated form of AnchorStatuses: a transaction that is not found fails.
NotFoundFails(seen, r, o) ==
  IF "anchor" \in o.skip \/ r.txid = None \/ NoIndexer(r, o)
  THEN {"SKIP"}
  ELSE {"ERROR"} \union {EntryStatus(r, e) : e \in Found(seen, r, o)}
         \union (IF Found(seen, r, o) = {} THEN {"FAIL"} ELSE {})

\* A lookup may raise whatever is indexed, and does where it finds nothing.
AnchorStatuses(seen, r, o) ==
  IF "anchor" \in o.skip \/ r.txid = None \/ NoIndexer(r, o)
  THEN {"SKIP"}
  ELSE {"ERROR"} \union {EntryStatus(r, e) : e \in Found(seen, r, o)}

\* Where tsp_client cannot be imported timestamp.py defines a TSPVerifier that
\* raises when it is called: the import in verify.py succeeds all the same, and
\* the check fails.
TokenStatus(r, o) ==
  CASE "timestamp" \in o.skip -> "SKIP"
    [] "timestamp" \notin o.skip /\ (r.token = None \/ r.declared = None) -> "ERROR"
    [] "timestamp" \notin o.skip /\ r.token # None /\ r.declared # None ->
         IF o.tsp /\ r.token = [imprint |-> r.declared.hash, genuine |-> TRUE]
         THEN "PASS" ELSE "FAIL"
==============================================================================
