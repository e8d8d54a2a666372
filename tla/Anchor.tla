-------------------------------- MODULE Anchor --------------------------------
(***************************************************************************)
(* anchor_manifest (src/actproof/anchor.py), called by any number of       *)
(* callers at once against the networks of module Algod.  A call runs from *)
(* the arguments it is given to the AnchorRecord it returns or the         *)
(* exception it raises; each action is the code up to and including its    *)
(* next call to algod or to the signer.  A caller that tries again after   *)
(* an error is another call with the same arguments.                       *)
(***************************************************************************)
EXTENDS Algod

CONSTANTS
  Calls,  \* the calls to anchor_manifest
  None    \* an absent value: Python's None, and the empty txid

VARIABLES
  pc,       \* where each call is
  req,      \* the arguments of each call
  first,    \* the first valid round of the suggested params it fetched
  txn,      \* the transaction it built
  txid,     \* the txid algod answered to it
  late,     \* its confirmation deadline has passed
  record,   \* the AnchorRecord it returned
  error     \* the exception it raised

callVars == <<pc, req, first, txn, txid, late, record, error>>
vars == <<algodVars, callVars>>

-------------------------------------------------------------------------------
(***************************************************************************)
(* Arguments, results and the helpers of anchor.py.                        *)
(***************************************************************************)

AnchorMode == {"DRAFT", "DEMO", "PRODUCTION"}

\* client is the network behind algod_client or algod_url when one is given.
Requests == [hash: Hashes, profile: ProfileLens, mode: AnchorMode,
             wait: BOOLEAN, client: Networks \union {None}]

\* round 0 is block_round (and with it confirmed_at) None.
Records == [net: Networks, txid: Txns \union {None}, round: 0..MaxRound,
            note: Notes]

\* where the exception was raised, its class and the txid its message names.
Stages == {"note", "params", "address", "sign", "send", "poll", "pool", "timeout"}
Errors == [stage: Stages, class: {"AnchorError", "RuntimeError"},
           txid: Txns \union {None}]

PCs == {"idle", "called", "params", "build", "sign", "send", "poll", "returned", "raised"}
Final == {"returned", "raised"}

ASSUME AnchorAssumption ==
  /\ ProfileLens \subseteq Nat
  /\ None \notin Networks \union Txns
  /\ None \notin Requests \union Records \union Errors

\* The bytes of the note: the prefix actproof:j and canonical JSON around 64
\* hex digits, 95 in all, and the profile.
NoteLength(profile) == 95 + profile
ALGORAND_NOTE_MAX_BYTES == 1000

BetanetForDraft(mode) == IF mode = "DRAFT" THEN "betanet" ELSE "testnet"  \* mutated
NetworkForMode(mode) == IF mode = "PRODUCTION" THEN "mainnet" ELSE "testnet"

\* The network behind _default_algod_url_for_mode.
DefaultAlgodNet(mode) == IF mode = "PRODUCTION" THEN "mainnet" ELSE "testnet"

\* The note and the network of call c.
NoteOf(c) == [hash |-> req[c].hash, profile |-> req[c].profile]

AlwaysTestnet(c) == "testnet"  \* mutated form of ClientNet
ClientNet(c) ==
  IF req[c].client # None THEN req[c].client ELSE DefaultAlgodNet(req[c].mode)

Unsigned(c) == [net |-> ClientNet(c), note |-> NoteOf(c), first |-> first[c]]

Go(c, from, to) == pc[c] = from /\ pc' = [pc EXCEPT ![c] = to]

Return(c, rec) == record' = [record EXCEPT ![c] = rec] /\ UNCHANGED error

Raise(c, stage, class, id) ==
  /\ error' = [error EXCEPT ![c] = [stage |-> stage, class |-> class, txid |-> id]]
  /\ UNCHANGED record

AnchorRecord(c, id, r) ==
  [net |-> NetworkForMode(req[c].mode), txid |-> id, round |-> r, note |-> NoteOf(c)]

-------------------------------------------------------------------------------
Init ==
  /\ AlgodInit
  /\ pc = [c \in Calls |-> "idle"]
  /\ req = [c \in Calls |-> None]
  /\ first = [c \in Calls |-> 1]
  /\ txn = [c \in Calls |-> None]
  /\ txid = [c \in Calls |-> None]
  /\ late = [c \in Calls |-> FALSE]
  /\ record = [c \in Calls |-> None]
  /\ error = [c \in Calls |-> None]

(***************************************************************************)
(* The steps of a call.                                                    *)
(***************************************************************************)

\* A caller calls anchor_manifest.
Call(c) ==
  /\ Go(c, "idle", "called")
  /\ \E r \in Requests : req' = [req EXCEPT ![c] = r]
  /\ UNCHANGED <<algodVars, first, txn, txid, late, record, error>>

\* build_note_bytes refuses a note that is too long, in every mode.
RefuseNote(c) ==
  /\ Go(c, "called", "raised")
  /\ NoteLength(req[c].profile) > ALGORAND_NOTE_MAX_BYTES
  /\ Raise(c, "note", "AnchorError", None)
  /\ UNCHANGED <<algodVars, req, first, txn, txid, late>>

\* DRAFT returns before it signs, submits or asks algod anything.
ReturnDraft(c) ==
  /\ Go(c, "called", "returned")
  /\ NoteLength(req[c].profile) <= ALGORAND_NOTE_MAX_BYTES
  /\ req[c].mode = "DRAFT"
  /\ Return(c, AnchorRecord(c, None, 0))
  /\ UNCHANGED <<algodVars, req, first, txn, txid, late>>

\* Mutated form of StartSubmission: the mode is not looked at.
SubmitDrafts(c) ==
  /\ Go(c, "called", "params")
  /\ NoteLength(req[c].profile) <= ALGORAND_NOTE_MAX_BYTES
  /\ UNCHANGED <<algodVars, req, first, txn, txid, late, record, error>>

\* DEMO and PRODUCTION make the client and ask it for suggested params.
StartSubmission(c) ==
  /\ Go(c, "called", "params")
  /\ NoteLength(req[c].profile) <= ALGORAND_NOTE_MAX_BYTES
  /\ req[c].mode # "DRAFT"
  /\ UNCHANGED <<algodVars, req, first, txn, txid, late, record, error>>

ParamsAnswer(c) ==
  /\ Go(c, "params", "build")
  /\ first' = [first EXCEPT ![c] = round[ClientNet(c)]]
  /\ UNCHANGED <<algodVars, req, txn, txid, late, record, error>>

ParamsFail(c) ==
  /\ Go(c, "params", "raised")
  /\ Raise(c, "params", "AnchorError", None)
  /\ UNCHANGED <<algodVars, req, first, txn, txid, late>>

\* build_transaction, once signer.address (for a KMS signer a network call)
\* has answered.
BuildTransaction(c) ==
  /\ Go(c, "build", "sign")
  /\ txn' = [txn EXCEPT ![c] = Unsigned(c)]
  /\ UNCHANGED <<algodVars, req, first, txid, late, record, error>>

\* signer.address raises: outside any try, so its RuntimeError escapes as it is.
AddressFails(c) ==
  /\ Go(c, "build", "raised")
  /\ Raise(c, "address", "RuntimeError", None)
  /\ UNCHANGED <<algodVars, req, first, txn, txid, late>>

Sign(c) ==
  /\ Go(c, "sign", "send")
  /\ UNCHANGED <<algodVars, req, first, txn, txid, late, record, error>>

\* The signer's policy or its key service refuses the transaction.
SignFails(c) ==
  /\ Go(c, "sign", "raised")
  /\ Raise(c, "sign", "AnchorError", None)
  /\ UNCHANGED <<algodVars, req, first, txn, txid, late>>

\* send_transaction answers; without wait_for_confirmation the call returns,
\* with it the deadline is set and the polling starts.
Send(c) ==
  /\ Go(c, "send", IF req[c].wait THEN "poll" ELSE "returned")
  /\ Submit(txn[c])
  /\ IF req[c].wait THEN UNCHANGED <<record, error>>
                    ELSE Return(c, AnchorRecord(c, txn[c], 0))
  /\ txid' = [txid EXCEPT ![c] = txn[c]]
  /\ UNCHANGED <<req, first, txn, late>>

\* Mutated form of SendAnswerLost: starts over from fresh params.
ResendWithFreshParams(c) ==
  /\ Go(c, "send", "params")
  /\ Submit(txn[c])
  /\ UNCHANGED <<req, first, txn, txid, late, record, error>>

\* The node accepted the transaction but its answer was lost.
SendAnswerLost(c) ==
  /\ Go(c, "send", "raised")
  /\ Submit(txn[c])
  /\ Raise(c, "send", "AnchorError", None)
  /\ UNCHANGED <<req, first, txn, txid, late>>

\* The node refused the transaction or never got it.
SendFails(c) ==
  /\ Go(c, "send", "raised")
  /\ Raise(c, "send", "AnchorError", None)
  /\ UNCHANGED <<algodVars, req, first, txn, txid, late>>

-------------------------------------------------------------------------------
(***************************************************************************)
(* _wait_for_confirmation: one action per iteration and per way out of it. *)
(***************************************************************************)

DeadlinePasses(c) ==
  /\ pc[c] = "poll" /\ ~late[c]
  /\ late' = [late EXCEPT ![c] = TRUE]
  /\ UNCHANGED <<algodVars, pc, req, first, txn, txid, record, error>>

\* Mutated form of PollConfirmed: takes last-round for confirmed-round.
PollTrustsLastRound(c) ==
  /\ Go(c, "poll", "returned")
  /\ Return(c, AnchorRecord(c, txid[c], round[txid[c].net]))
  /\ UNCHANGED <<algodVars, req, first, txn, txid, late>>

PollConfirmed(c) ==
  /\ Go(c, "poll", "returned")
  /\ \E r \in 1..MaxRound :
       /\ ConfirmedIn(txid[c], r)
       /\ Return(c, AnchorRecord(c, txid[c], r))
  /\ UNCHANGED <<algodVars, req, first, txn, txid, late>>

PollRejected(c) ==
  /\ Go(c, "poll", "raised")
  /\ ReportsPoolError(txid[c])
  /\ Raise(c, "pool", "AnchorError", txid[c])
  /\ UNCHANGED <<algodVars, req, first, txn, txid, late>>

\* Mutated form of PollTimesOut: gives up waiting without an error.
TimeoutReturns(c) ==
  /\ Go(c, "poll", "returned")
  /\ ReportsPending(txid[c])
  /\ late[c]
  /\ Return(c, AnchorRecord(c, txid[c], 0))
  /\ UNCHANGED <<algodVars, req, first, txn, txid, late>>

PollTimesOut(c) ==
  /\ Go(c, "poll", "raised")
  /\ ReportsPending(txid[c])
  /\ late[c]
  /\ Raise(c, "timeout", "AnchorError", txid[c])
  /\ UNCHANGED <<algodVars, req, first, txn, txid, late>>

\* Mutated form of PollAgain: the deadline is set anew in every iteration.
DeadlineRestarts(c) ==
  /\ pc[c] = "poll" /\ ReportsPending(txid[c])
  /\ late' = [late EXCEPT ![c] = FALSE]
  /\ UNCHANGED <<algodVars, pc, req, first, txn, txid, record, error>>

\* Still pending and in time: sleep a second and poll again.
PollAgain(c) ==
  /\ pc[c] = "poll" /\ ReportsPending(txid[c]) /\ ~late[c]
  /\ UNCHANGED vars

\* Mutated form of PollFails: the error does not say which transaction.
PollFailureForgets(c) ==
  /\ Go(c, "poll", "raised")
  /\ Raise(c, "poll", "AnchorError", None)
  /\ UNCHANGED <<algodVars, req, first, txn, txid, late>>

\* A poll that raises, for whatever reason, ends the wait.
PollFails(c) ==
  /\ Go(c, "poll", "raised")
  /\ Raise(c, "poll", "AnchorError", txid[c])
  /\ UNCHANGED <<algodVars, req, first, txn, txid, late>>

-------------------------------------------------------------------------------
\* What the code of call c does once it is called, whatever the answers it gets.
Progress(c) ==
  \/ RefuseNote(c) \/ ReturnDraft(c) \/ StartSubmission(c)
  \/ ParamsAnswer(c) \/ ParamsFail(c)
  \/ BuildTransaction(c) \/ AddressFails(c)
  \/ Sign(c) \/ SignFails(c)
  \/ Send(c) \/ SendAnswerLost(c) \/ SendFails(c)
  \/ PollConfirmed(c) \/ PollRejected(c) \/ PollTimesOut(c) \/ PollAgain(c)

Network == AlgodStep /\ UNCHANGED callVars

\* Every call has ended: only the bound on rounds stops the networks.
AllEnded == (\A c \in Calls : pc[c] \in Final) /\ UNCHANGED vars

Next ==
  \/ \E c \in Calls : Call(c) \/ Progress(c) \/ PollFails(c) \/ DeadlinePasses(c)
  \/ Network
  \/ AllEnded

Spec == Init /\ [][Next]_vars

-------------------------------------------------------------------------------
(***************************************************************************)
(* Properties.                                                             *)
(***************************************************************************)

\* Every variable has its type.
TypeOK ==
  /\ round \in [Networks -> 1..MaxRound]
  /\ accepted \subseteq Txns
  /\ rejected \subseteq accepted
  /\ ledger \subseteq Entries
  /\ pc \in [Calls -> PCs]
  /\ req \in [Calls -> Requests \union {None}]
  /\ first \in [Calls -> 1..MaxRound]
  /\ txn \in [Calls -> Txns \union {None}]
  /\ txid \in [Calls -> Txns \union {None}]
  /\ late \in [Calls -> BOOLEAN]
  /\ record \in [Calls -> Records \union {None}]
  /\ error \in [Calls -> Errors \union {None}]

\* An AnchorRecord never claims more than happened: a txid in it is of a
\* transaction some node accepted, carrying the note of the record, which is
\* that of the hash the caller gave; a block_round in it is the round whose
\* block holds that transaction.
RecordIsHonest ==
  \A c \in Calls : record[c] # None =>
    LET rec == record[c] IN
    /\ rec.note = NoteOf(c)
    /\ rec.txid # None => rec.txid \in accepted /\ rec.txid.note = rec.note
    /\ rec.round # 0 => rec.txid # None /\ ConfirmedIn(rec.txid, rec.round)

\* A caller who asked to wait and got a record has a confirmed anchor, however
\* the deadline, the pool and the blocks interleave; only a draft is unanchored.
WaitedRecordIsConfirmed ==
  \A c \in Calls : record[c] # None =>
    /\ (req[c].wait /\ req[c].mode # "DRAFT") => record[c].round # 0
    /\ req[c].mode = "DRAFT" <=> record[c].txid = None

\* A call that has got as far as submitting its transaction, and did not end
\* before, in a draft or in an error of an earlier step.
HasSent(c) ==
  \/ pc[c] = "poll"
  \/ pc[c] = "returned" /\ record[c].txid # None
  \/ pc[c] = "raised" /\ error[c].stage \in {"send", "poll", "pool", "timeout"}

\* Every transaction the networks accepted is the one transaction of a call
\* that reached its submission: at most one per call, none for a draft, and
\* none behind an error raised before it.
EverySubmissionHasACall ==
  \A t \in accepted : \E c \in Calls : txn[c] = t /\ HasSent(c)

\* Whoever submitted a transaction can still find it: the call is waiting for
\* it, or its record or its error names it; only an answer lost on the way back
\* from send_transaction leaves a transaction its caller cannot name.
SubmissionIsNamed ==
  \A t \in accepted : \E c \in Calls :
    \/ pc[c] = "poll" /\ txid[c] = t
    \/ pc[c] = "returned" /\ record[c].txid = t
    \/ pc[c] = "raised" /\ error[c].txid = t
    \/ pc[c] = "raised" /\ error[c].stage = "send" /\ txn[c] = t

\* Without a client of the caller's own the record names the network that holds
\* the transaction, and a transaction is on mainnet only in PRODUCTION.
DefaultClientRightNetwork ==
  \A c \in Calls : (txn[c] # None /\ req[c].client = None) =>
    /\ txn[c].net = "mainnet" <=> req[c].mode = "PRODUCTION"
    /\ record[c] # None => record[c].net = txn[c].net

\* How many changes a call has at most before it: its steps up to the poll, the
\* deadline and the end.
StepsLeft == [idle |-> 8, called |-> 7, params |-> 6, build |-> 5, sign |-> 4, send |-> 3,
              poll |-> 2, returned |-> 0, raised |-> 0]
Remaining(c) == StepsLeft[pc[c]] - IF pc[c] = "poll" /\ late[c] THEN 1 ELSE 0

CallState(c) ==
  <<pc[c], req[c], first[c], txn[c], txid[c], late[c], record[c], error[c]>>

\* Every change of a call brings it nearer to its end, whatever the networks
\* answer: it goes back to no earlier step, sets no new deadline and is not
\* touched once it has ended.  Only a poll that finds its transaction pending in
\* time is repeated, and that changes nothing (anchor_manifest,
\* _wait_for_confirmation).
CallsAdvance ==
  [][\A c \in Calls : CallState(c)' # CallState(c) => Remaining(c)' < Remaining(c)]_vars

-------------------------------------------------------------------------------
(***************************************************************************)
(* The inductive invariant behind the safety properties.                   *)
(***************************************************************************)

\* A block holds only what a node accepted, and each transaction once, in a
\* round that has been.
LedgerInv ==
  /\ OnLedger \subseteq accepted
  /\ \A e \in ledger : e.round <= round[e.txn.net]
  /\ \A e, f \in ledger : e.txn = f.txn => e = f

\* What a call knows at each point.
Submits(c) ==
  /\ req[c].mode # "DRAFT"
  /\ NoteLength(req[c].profile) <= ALGORAND_NOTE_MAX_BYTES

ReturnedInv(c) ==
  LET rec == record[c] IN
  /\ rec.net = NetworkForMode(req[c].mode)
  /\ rec.note = NoteOf(c)
  /\ \/ req[c].mode = "DRAFT" /\ rec.txid = None /\ rec.round = 0
     \/ /\ txn[c] # None
        /\ rec.txid = txn[c]
        /\ txn[c] \in accepted
        /\ req[c].wait => rec.round # 0
        /\ rec.round # 0 => ConfirmedIn(txn[c], rec.round)

CallInv(c) ==
  /\ pc[c] = "idle" <=> req[c] = None
  /\ pc[c] = "returned" <=> record[c] # None
  /\ pc[c] = "raised" <=> error[c] # None
  /\ pc[c] \in {"idle", "called", "params", "build"} => txn[c] = None
  /\ pc[c] \in {"sign", "send", "poll"} => txn[c] # None
  /\ pc[c] \in {"params", "build"} => Submits(c)
  /\ txn[c] # None =>
       Submits(c) /\ txn[c].net = ClientNet(c) /\ txn[c].note = NoteOf(c)
  /\ pc[c] = "poll" => req[c].wait /\ txid[c] = txn[c] /\ txn[c] \in accepted
  /\ pc[c] = "returned" => ReturnedInv(c)
  /\ pc[c] = "raised" /\ error[c].stage \in {"poll", "pool", "timeout"} =>
       error[c].txid = txn[c]

IInv ==
  /\ TypeOK
  /\ LedgerInv
  /\ \A c \in Calls : CallInv(c)
  /\ EverySubmissionHasACall
  /\ SubmissionIsNamed

-------------------------------------------------------------------------------
(***************************************************************************)
(* What the repository says that the code does not do.                     *)
(***************************************************************************)

\* "Carries everything a verifier needs to look up the transaction on the right
\* network" (AnchorRecord, receipt.py).
RecordNamesItsNetwork ==
  \A c \in Calls : (record[c] # None /\ record[c].txid # None) =>
    record[c].net = record[c].txid.net
=============================================================================
