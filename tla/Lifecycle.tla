------------------------------ MODULE Lifecycle ------------------------------
(***************************************************************************)
(* A receipt from the command that writes it to the checks that read it:   *)
(* what module Issuer leaves at --output, given to the six checks of       *)
(* module ReceiptChecks by anyone, at any moment, with any options, asking *)
(* indexers that have seen any part of the blocks.  The recomputed hash is *)
(* the one the issuer computed: module ReceiptFile has the reading.        *)
(***************************************************************************)
EXTENDS Issuer

CONSTANTS OtherPayload, Unprefixed  \* see module ReceiptChecks

Checks == INSTANCE ReceiptChecks
            WITH Batchings <- ProfileLens, Ids <- Txns, Rounds <- 1..MaxRound

ASSUME LifecycleAssumption == None \notin Checks!Declarations \union Checks!TokenSet

\* read_receipt of a file that write_receipt wrote.  A placeholder has the hash
\* as its imprint_hex and no bytes of a token.
AsRead(f) ==
  [profile |-> "actproof-jcs-v1", manifest |-> f.hash,
   declared |-> [hash |-> f.hash, exact |-> TRUE], batching |-> SingleProfile,
   net |-> f.anchor.net, txid |-> f.anchor.txid,
   round |-> IF f.anchor.round = 0 THEN None ELSE f.anchor.round,
   payload |-> Checks!Payload(f.anchor.note.hash, f.anchor.note.profile),
   token |-> IF f.stamp = Placeholder THEN [imprint |-> f.hash, genuine |-> FALSE]
             ELSE [imprint |-> f.stamp, genuine |-> TRUE]]

\* What an indexer of its network says of a block entry.
Indexable ==
  {[id |-> e.txn, net |-> e.txn.net, round |-> e.round,
    note |-> Checks!Payload(e.txn.note.hash, e.txn.note.profile)] : e \in ledger}

\* The indexer that is asked is one of the network the receipt names.
AsksItsNetwork(r, o) == ~Checks!NoIndexer(r, o) /\ Checks!IndexerNet(r, o) = r.net

-------------------------------------------------------------------------------
\* A receipt on disk verifies, whatever became of the run that wrote it: its
\* hash and its note are found right; its anchor is never failed, whichever
\* network is asked and however far behind the indexers are, and can pass as
\* soon as an indexer of its network has seen the block it names; its timestamp
\* passes exactly if tsp_client is there and the token is no placeholder
\* (anchor in cli.py against verify_receipt).
WrittenReceiptVerifies ==
  file \in Receipts =>
    LET r == AsRead(file) IN
    /\ Checks!ProfileStatus(r) = "PASS"
    /\ Checks!ManifestHashStatus(r) = "PASS"
    /\ Checks!NoteStatus(r) = "PASS"
    /\ \A o \in Checks!Options :
         /\ \A seen \in SUBSET Indexable :
              /\ "FAIL" \notin Checks!AnchorStatuses(seen, r, o)
              /\ (/\ "anchor" \notin o.skip /\ AsksItsNetwork(r, o)
                  /\ \E e \in seen : e.id = r.txid)
                 => "PASS" \in Checks!AnchorStatuses(seen, r, o)
         /\ r.round # None => \E e \in Indexable : e.id = r.txid /\ e.round = r.round
         /\ "timestamp" \notin o.skip =>
              (Checks!TokenStatus(r, o) = "PASS" <=> o.tsp /\ file.stamp # Placeholder)
=============================================================================
