--------------------------- MODULE AnchorCommitment ---------------------------
(***************************************************************************)
(* The calls of module Anchor keep the promise of module Commitment.       *)
(***************************************************************************)
EXTENDS Anchor

\* A draft, and a note too long to be built, ask for no network.
AskOf(c) ==
  [note |-> NoteOf(c),
   net |-> IF \/ req[c].mode = "DRAFT"
              \/ NoteLength(req[c].profile) > ALGORAND_NOTE_MAX_BYTES
           THEN None ELSE ClientNet(c)]

RecordKind(rec) ==
  CASE rec.txid = None -> "draft"
    [] rec.txid # None /\ rec.round = 0 -> "submitted"
    [] OTHER -> "confirmed"

AnswerOf(c) ==
  CASE record[c] # None -> [kind |-> RecordKind(record[c]),
                            id |-> record[c].txid, round |-> record[c].round]
    [] record[c] = None /\ error[c] # None ->
         [kind |-> "failed", id |-> error[c].txid, round |-> 0]
    [] OTHER -> None

CommitmentOf(e) ==
  [net |-> e.txn.net, note |-> e.txn.note, id |-> e.txn, round |-> e.round]

askedBar == [c \in Calls |-> IF req[c] = None THEN None ELSE AskOf(c)]
chainBar == {CommitmentOf(e) : e \in ledger}
answerBar == [c \in Calls |-> AnswerOf(c)]

Promise == INSTANCE Commitment
  WITH asked <- askedBar, chain <- chainBar, answer <- answerBar, Ids <- Txns

ASSUME CommitmentAssumption == None \notin Promise!Asks \union Promise!Answers

\* anchor_manifest keeps the promise: a block only ever holds anchors that were
\* asked for, one for one, a draft asks for none, and every caller is answered
\* once and truthfully, whatever is lost, late or retried on the way.
KeepsPromise == Promise!Spec
=============================================================================
