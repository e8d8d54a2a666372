----------------------------- MODULE ReceiptFile -----------------------------
(***************************************************************************)
(* A manifest from where it is made to where somebody reads it: it is      *)
(* built or read (manifest.py), hashed (canonical.py), anchored, put into  *)
(* a receipt and written to a file (receipt.py).  The file goes through    *)
(* other hands, is read and written again, and may be edited.  Beside      *)
(* that, a JSON text is hashed as it was handed in.                        *)
(***************************************************************************)
EXTENDS Manifest

CONSTANTS
  BuildArgs,   \* the arguments that build_manifest is called with
  InputDicts,  \* the manifest files, as json.loads reads them
  Texts,       \* the texts that canonicalize_from_json is called with
  EditPaths, EditNodes,  \* what an edit of a file replaces, and by what
  MaxEdits     \* a bound on edits

VARIABLES
  stage,     \* how far the issuer is
  made,      \* its manifest
  committed, \* that manifest, as it was when it was hashed for the anchor
  anchored,  \* the hash in the note on the chain
  origin,    \* the receipt it built, as it was
  held,      \* the receipt that somebody has in memory
  file,      \* the receipt file, as json.loads reads it
  edits,     \* how often it was edited
  text       \* the text handed to canonicalize_from_json

issuerVars == <<stage, made, committed, anchored, origin>>
fileVars == <<held, file, edits>>
vars == <<issuerVars, fileVars, text>>

\* What a caller has to hand to build_manifest: every field, of its declared type
\* (but for what is checked there and in hashing), and no other.
Formed(m) ==
  /\ DOMAIN m = Kept(m)
  /\ m[<<>>].kind = "dict" /\ m[<<"catalogue">>].kind = "dict" /\ m[<<"claim">>] = Dict
  /\ \A list \in Lists : m[<<list>>] = List /\ ReadableList(m, list)

ASSUME ReceiptFileAssumption ==
  /\ \A args \in BuildArgs : IsTree(args) /\ Formed(args)
  /\ \A d \in InputDicts : IsTree(d)
  /\ EditPaths \subseteq Seq(Keys)
  /\ EditNodes \subseteq JsonNodes
  /\ \A x \in Texts : \A p \in DOMAIN x :
       p \in Seq(Nat) /\ \A i \in DOMAIN p : SubSeq(p, 1, i) \in DOMAIN x
  /\ MaxEdits \in Nat

Stages == {"start", "refused", "made", "unhashable", "anchored", "issued", "rehashed"}

NoFile == <<>>

\* A payload holds a hash, or is no base64, or is not there.
Payload(hash) == <<hash>>
Garbled == <<>>
Missing == Payload(None)

\* The full note and its three encodings: a prefix before the payload.
Note(payload) == <<"actproof:j", payload>>

-------------------------------------------------------------------------------
(***************************************************************************)
(* Receipts and their dicts.                                               *)
(***************************************************************************)

BuildReceipt(m, hash) ==
  [manifest |-> m, manifest_hash |-> HashManifest(m), payload |-> Payload(hash),
   on_chain_note |-> Note(Payload(hash))]

\* write_receipt, and what json.loads then reads.
WriteReceipt(r) == [r EXCEPT !.manifest = ReadBack(ManifestToDict(r.manifest), "python")]

\* Mutated form of NoteOfDict: a receipt without the note stays so.
NoteAsItIs(d) == d.on_chain_note

\* __post_init__ makes the note where an older receipt has none.
NoteOfDict(d) == IF d.on_chain_note = None THEN Note(d.payload) ELSE d.on_chain_note

\* A field that is missing raises, and so does base64 where the note is made from it.
ReadReceipt(d) ==
  LET manifest == ManifestFromDict(d.manifest) IN
  IF \/ manifest = None
     \/ d.manifest_hash = None \/ d.payload = Missing
     \/ d.on_chain_note = None /\ d.payload = Garbled
  THEN None
  ELSE [manifest |-> manifest, manifest_hash |-> d.manifest_hash,
        payload |-> d.payload, on_chain_note |-> NoteOfDict(d)]

-------------------------------------------------------------------------------
(***************************************************************************)
(* The issuer.                                                             *)
(***************************************************************************)

Init ==
  /\ stage = "start"
  /\ made = None /\ committed = None /\ anchored = None /\ origin = None
  /\ held = None /\ file = NoFile /\ edits = 0
  /\ text = None

Make(m) ==
  /\ stage = "start"
  /\ stage' = IF m = None THEN "refused" ELSE "made"
  /\ made' = m
  /\ UNCHANGED <<committed, anchored, origin, fileVars, text>>

Build == \E args \in BuildArgs : Make(BuildManifest(args))

\* The commands read a manifest file.
Load == \E d \in InputDicts : Make(ManifestFromDict(d))

\* hash_manifest, and the hash goes into a note.
Anchor ==
  /\ stage = "made"
  /\ stage' = IF HashManifest(made) = None THEN "unhashable" ELSE "anchored"
  /\ anchored' = HashManifest(made) /\ committed' = made
  /\ UNCHANGED <<made, origin, fileVars, text>>

\* build_receipt hashes the manifest once more.
Issue ==
  /\ stage = "anchored"
  /\ stage' = IF HashManifest(made) = None THEN "unhashable" ELSE "issued"
  /\ HashManifest(made) # None =>
       /\ origin' = BuildReceipt(made, anchored)
       /\ held' = BuildReceipt(made, anchored)
  /\ HashManifest(made) = None => UNCHANGED <<origin, held>>
  /\ UNCHANGED <<made, committed, anchored, file, edits, text>>

Without(d, p) == [q \in {q \in DOMAIN d : ~Prefix(p, q)} |-> d[q]]
With(d, p, x) ==
  [q \in DOMAIN Without(d, p) \union {p} |-> IF q = p THEN x ELSE d[q]]

\* dict(claim) copies the outermost dict of the claim and shares what is in it.
IsShared(p) == Len(p) > 2 /\ p[1] = "claim"

\* The caller goes on using the claim that it passed, before anything is written.
CallerChangesClaim ==
  /\ stage \in {"made", "anchored", "issued"} /\ file = NoFile
  /\ made # None
  /\ \E p \in Under(made, "claim") \ {<<"claim">>}, x \in EditNodes :
       IF IsShared(p)
       THEN /\ made' = With(made, p, x)
            /\ held' = IF held = None THEN None ELSE [held EXCEPT !.manifest = With(made, p, x)]
       ELSE UNCHANGED <<made, held>>
  /\ UNCHANGED <<stage, committed, anchored, origin, file, edits, text>>

-------------------------------------------------------------------------------
(***************************************************************************)
(* The file.                                                               *)
(***************************************************************************)

\* A manifest that cannot be written leaves no receipt (Issuer has that case).
Write ==
  /\ held # None
  /\ WriteReceipt(held).manifest # None
  /\ file' = WriteReceipt(held)
  /\ UNCHANGED <<issuerVars, held, edits, text>>

Read ==
  /\ file # NoFile
  /\ ReadReceipt(file) # None
  /\ held' = ReadReceipt(file)
  /\ UNCHANGED <<issuerVars, file, edits, text>>

\* Another implementation of JSON reads the file and writes it.
PassOn ==
  /\ file # NoFile
  /\ \E r \in Readers :
       /\ ReadBack(file.manifest, r) # None
       /\ file' = [file EXCEPT !.manifest = ReadBack(@, r)]
  /\ UNCHANGED <<issuerVars, held, edits, text>>

\* As a version that had no on_chain_note wrote it.
Predate ==
  /\ file # NoFile
  /\ file' = [file EXCEPT !.on_chain_note = None]
  /\ UNCHANGED <<issuerVars, held, edits, text>>

\* Part of the file is replaced or removed; or a hash is made to fit the manifest.
Edit ==
  /\ file # NoFile
  /\ edits < MaxEdits
  /\ edits' = edits + 1
  /\ \/ \E p \in EditPaths, x \in EditNodes :
          file' = [file EXCEPT !.manifest = With(@, p, x)]
     \/ \E p \in EditPaths : file' = [file EXCEPT !.manifest = Without(@, p)]
     \/ /\ ManifestFromDict(file.manifest) # None
        /\ HashManifest(ManifestFromDict(file.manifest)) # None
        /\ \/ file' = [file EXCEPT !.manifest_hash = HashManifest(ManifestFromDict(file.manifest))]
           \/ file' = [file EXCEPT !.payload = Payload(HashManifest(ManifestFromDict(file.manifest)))]
     \/ file' = [file EXCEPT !.manifest_hash = None]
     \/ file' \in {[file EXCEPT !.payload = x] : x \in {Garbled, Missing}}
  /\ UNCHANGED <<issuerVars, held, text>>

\* Somebody else hashes a JSON text.
Rehash ==
  /\ stage = "start"
  /\ stage' = "rehashed"
  /\ \E x \in Texts : text' = x
  /\ UNCHANGED <<made, committed, anchored, origin, fileVars>>

Over == stage \in {"refused", "unhashable", "rehashed"} /\ UNCHANGED vars

Next ==
  \/ Build \/ Load \/ Anchor \/ Issue \/ CallerChangesClaim
  \/ Write \/ Read \/ PassOn \/ Predate \/ Edit
  \/ Rehash \/ Over

Spec == Init /\ [][Next]_vars

-------------------------------------------------------------------------------
(***************************************************************************)
(* Properties.                                                             *)
(***************************************************************************)

IsReceipt(r) ==
  /\ r = [manifest |-> r.manifest, manifest_hash |-> r.manifest_hash,
          payload |-> r.payload, on_chain_note |-> r.on_chain_note]
  /\ IsTree(r.manifest)

\* The package's fields are both there or neither is.
BothOrNeither(m) == Pair \subseteq DOMAIN m \/ Pair \intersect DOMAIN m = {}

\* Every variable has its type: no manifest object ever has one of the package's
\* fields without the other.
TypeOK ==
  /\ stage \in Stages
  /\ made # None => IsTree(made) /\ BothOrNeither(made)
  /\ committed # None => IsTree(committed) /\ BothOrNeither(committed)
  /\ anchored # None => IsTree(anchored)
  /\ origin # None => IsReceipt(origin) /\ BothOrNeither(origin.manifest)
  /\ held # None => IsReceipt(held) /\ BothOrNeither(held.manifest)
  /\ file # NoFile => IsReceipt(file)
  /\ edits \in 0..MaxEdits
  /\ text # None => text \in Texts

CountsAreInts(m) == \A p \in DOMAIN m : IsCount(p) => m[p].kind = "int"

\* The caller's changes did not reach the manifest once it was hashed, or are undone.
AsCommitted == origin.manifest = committed /\ made = committed

\* A receipt that was issued reads the same for everybody, however often its file
\* was passed on, read, written, or written by a version that had no
\* on_chain_note: the same record, whose manifest has the hash that is declared
\* and anchored, as has the text of the manifest in the file.  Excepted are
\* manifests built with a count that is no int, which int() makes one in reading,
\* and those that the caller changed after they were hashed (hash_manifest,
\* write_receipt, read_receipt).
ReceiptSurvives ==
  (file # NoFile /\ edits = 0 /\ AsCommitted /\ CountsAreInts(origin.manifest)) =>
    /\ ReadReceipt(file) = origin
    /\ HashManifest(origin.manifest) = origin.manifest_hash
    /\ origin.manifest_hash = anchored
    /\ HashCanonical(file.manifest) = anchored

\* However a file was edited and whatever the caller changed: a receipt with the
\* anchored payload whose hashes fit together holds the manifest that was hashed
\* for the anchor, field by field (the hash stands for what manifest_to_dict
\* leaves out as well: the checks of verify.py).
SubstitutionShows ==
  file # NoFile =>
    LET r == ReadReceipt(file) IN
    (/\ r # None
     /\ r.manifest_hash = anchored /\ r.payload = Payload(anchored)
     /\ HashManifest(r.manifest) = r.manifest_hash)
    => r.manifest = committed

\* Whatever can be read from a file, written and read again stays as it is: what
\* manifest_from_dict loses, it loses at once, and manifest_to_dict loses nothing
\* more.  So the hash of a file with unknown or null fields settles too.
ReadingSettles ==
  file # NoFile =>
    LET r == ReadReceipt(file)
        written == WriteReceipt(r)
    IN
    (r # None /\ written.manifest # None) => ReadReceipt(written) = r

\* A manifest that is hashed is one that everybody reads where it was written and
\* nowhere else; and one that is refused has a float in it, or somebody may read it
\* as something else, or something else as it.  So no integer within the range of
\* I-JSON, its ends included, is refused, and none beyond it is hashed, wherever it
\* stands.  Floats are excepted: strict mode refuses every one, a fraction on which
\* all readers agree as well (_validate_strict).
StrictIsExact ==
  /\ stage = "unhashable" =>
       HasFloat(ManifestToDict(made)) \/ ~Reproducible(ManifestToDict(made))
  /\ stage \in {"anchored", "issued"} => Reproducible(ManifestToDict(committed))

\* A text that canonicalize_from_json hashes means the same to a reader that takes
\* the first of the members with one key and to one that takes the last.
OneReading ==
  text # None =>
    (CanonicalizeFromJson(text) # None => ReadText(text, "first") = ReadText(text, "last"))
=============================================================================
