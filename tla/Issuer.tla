-------------------------------- MODULE Issuer --------------------------------
(***************************************************************************)
(* The command `actproof anchor' (src/actproof/cli.py): any number of      *)
(* runs, at once or one after another, which may be killed, all writing    *)
(* their receipt to the same path.  Run c makes at most one call of        *)
(* anchor_manifest, call c of module Anchor; acquire_timestamp_token is    *)
(* its outcome, a token over the imprint it was given or a failure         *)
(* (KeepsPromise and AcquisitionEnds of module Timestamp).                 *)
(***************************************************************************)
EXTENDS Anchor

CONSTANTS
  SingleProfile,  \* the length of BATCHING_PROFILE_SINGLE
  Modes,          \* the values of --mode that runs are started with
  Absent, Empty, Garbled,  \* contents of the file that are no receipt
  Placeholder              \* the TimestampToken of --skip-timestamp

VARIABLES
  cli,       \* where each run is
  args,      \* its manifest's hash and its options
  stamp,     \* the TimestampToken it holds: what it is over, or a placeholder
  exit,      \* its exit code
  said,      \* the txid its output named
  file,      \* the file at --output
  evidence   \* the runs whose issuer evidence file was written

cliVars == <<cli, args, stamp, exit, said, file, evidence>>
issuerVars == <<vars, cliVars>>

CLIs == {"off", "setup", "stamp", "anchor", "write", "report", "done", "dead"}
Running == {"setup", "stamp", "anchor", "write", "report"}

Args == [hash: Hashes, mode: Modes, wait: BOOLEAN, skip: BOOLEAN, evidence: BOOLEAN]
Stamps == Hashes \union {Placeholder}

\* What Receipt holds of a run: the hash of its manifest, its trusted_timestamp
\* and its anchor.
Receipts == [hash: Hashes, stamp: Stamps, anchor: Records]

ASSUME IssuerAssumption ==
  /\ SingleProfile \in ProfileLens
  /\ Modes \subseteq AnchorMode
  /\ Placeholder \notin Hashes
  /\ None \notin Args \union Stamps \union {0, 1, 2}
  /\ {Absent, Empty, Garbled} \intersect Receipts = {}

BuildReceipt(c) == [hash |-> args[c].hash, stamp |-> stamp[c], anchor |-> record[c]]

At(c, from, to) == cli[c] = from /\ cli' = [cli EXCEPT ![c] = to]

\* Mutated form of Exit: the message of the exception is not echoed.
ExitSilently(c, from, code, id) ==
  /\ At(c, from, "done")
  /\ exit' = [exit EXCEPT ![c] = code]
  /\ said' = [said EXCEPT ![c] = IF code = 0 THEN id ELSE None]

\* sys.exit, having named a txid (or none) on the terminal.
Exit(c, from, code, id) ==
  /\ At(c, from, "done")
  /\ exit' = [exit EXCEPT ![c] = code]
  /\ said' = [said EXCEPT ![c] = id]

IssuerInit ==
  /\ Init
  /\ cli = [c \in Calls |-> "off"]
  /\ args = [c \in Calls |-> None]
  /\ stamp = [c \in Calls |-> None]
  /\ exit = [c \in Calls |-> None]
  /\ said = [c \in Calls |-> None]
  /\ file = Absent
  /\ evidence = {}

(***************************************************************************)
(* Up to the call of anchor_manifest.                                      *)
(***************************************************************************)

Start(c) ==
  /\ At(c, "off", "setup")
  /\ \E a \in Args : args' = [args EXCEPT ![c] = a]
  /\ UNCHANGED <<vars, stamp, exit, said, file, evidence>>

\* The manifest cannot be read, or no signer can be built (1), or none or two
\* signers are named (2).
SetupFails(c) ==
  /\ \E code \in {1, 2} : Exit(c, "setup", code, None)
  /\ UNCHANGED <<vars, args, stamp, file, evidence>>

SetupSucceeds(c) ==
  /\ At(c, "setup", "stamp")
  /\ UNCHANGED <<vars, args, stamp, exit, said, file, evidence>>

\* Mutated form of Stamp: stamps the manifest file as it reads by now.
StampReread(c) ==
  /\ At(c, "stamp", "anchor")
  /\ \E h \in Hashes : stamp' = [stamp EXCEPT ![c] = h]
  /\ UNCHANGED <<vars, args, exit, said, file, evidence>>

\* --skip-timestamp, or a token over the manifest's hash.
Stamp(c) ==
  /\ At(c, "stamp", "anchor")
  /\ stamp' = [stamp EXCEPT ![c] = IF args[c].skip THEN Placeholder ELSE args[c].hash]
  /\ UNCHANGED <<vars, args, exit, said, file, evidence>>

\* Mutated form of StampFails: goes on without a token.
StampFailureIgnored(c) ==
  /\ At(c, "stamp", "anchor")
  /\ ~args[c].skip
  /\ UNCHANGED <<vars, args, stamp, exit, said, file, evidence>>

\* Every TSA failed: nothing is anchored.
StampFails(c) ==
  /\ Exit(c, "stamp", 1, None)
  /\ ~args[c].skip
  /\ UNCHANGED <<vars, args, stamp, file, evidence>>

CallAnchor(c) ==
  /\ cli[c] = "anchor"
  /\ Call(c)
  /\ req'[c] = [hash |-> args[c].hash, profile |-> SingleProfile,
                mode |-> args[c].mode, wait |-> args[c].wait, client |-> None]
  /\ UNCHANGED cliVars

Anchoring(c) ==
  /\ cli[c] = "anchor"
  /\ Progress(c)
  /\ UNCHANGED cliVars

PollRaises(c) == cli[c] = "anchor" /\ PollFails(c) /\ UNCHANGED cliVars
Clock(c) == cli[c] = "anchor" /\ DeadlinePasses(c) /\ UNCHANGED cliVars

\* Mutated form of AnchorFails: starts the call over.
RetryCall(c) ==
  /\ cli[c] = "anchor"
  /\ Go(c, "raised", "called")
  /\ UNCHANGED <<algodVars, req, first, txn, txid, late, record, error, cliVars>>

\* The message of the exception is echoed.
AnchorFails(c) ==
  /\ pc[c] = "raised"
  /\ Exit(c, "anchor", 1, error[c].txid)
  /\ UNCHANGED <<vars, args, stamp, file, evidence>>

(***************************************************************************)
(* write_receipt, then the summary.                                        *)
(***************************************************************************)

\* Opening the file truncates it.
OpenOutput(c) ==
  /\ pc[c] = "returned"
  /\ At(c, "anchor", "write")
  /\ file' = Empty
  /\ UNCHANGED <<vars, args, stamp, exit, said, evidence>>

\* Neither this message nor WriteFails' names the transaction.
OpenFails(c) ==
  /\ pc[c] = "returned"
  /\ Exit(c, "anchor", 1, None)
  /\ UNCHANGED <<vars, args, stamp, file, evidence>>

\* The text goes over whatever other runs wrote since the file was opened.
WriteOutput(c) ==
  /\ At(c, "write", "report")
  /\ file' \in IF file = Empty THEN {BuildReceipt(c)} ELSE {BuildReceipt(c), Garbled}
  /\ UNCHANGED <<vars, args, stamp, exit, said, evidence>>

\* Mutated form of WriteFails: the error is swallowed.
WriteFailureIgnored(c) ==
  /\ At(c, "write", "report")
  /\ file' \in {file, Garbled}
  /\ UNCHANGED <<vars, args, stamp, exit, said, evidence>>

\* The disk is full: some of the text may be written.
WriteFails(c) ==
  /\ Exit(c, "write", 1, None)
  /\ file' \in {file, Garbled}
  /\ UNCHANGED <<vars, args, stamp, evidence>>

\* The summary names the txid of the record.  The option --evidence-output is
\* not looked at here or anywhere.
Report(c) ==
  /\ Exit(c, "report", 0, record[c].txid)
  /\ UNCHANGED <<vars, args, stamp, file, evidence>>

(***************************************************************************)
(* The process is killed, between two steps or while the node's answer to  *)
(* its submission is on the way.                                           *)
(***************************************************************************)

Kill(c) ==
  /\ cli[c] \in Running
  /\ cli' = [cli EXCEPT ![c] = "dead"]
  /\ \/ UNCHANGED vars
     \/ cli[c] = "anchor" /\ SendAnswerLost(c)
  /\ UNCHANGED <<args, stamp, exit, said, evidence>>
  /\ file' \in IF cli[c] = "write" THEN {file, Garbled} ELSE {file}

Run(c) ==
  \/ SetupFails(c) \/ SetupSucceeds(c)
  \/ Stamp(c) \/ StampFails(c)
  \/ CallAnchor(c) \/ Anchoring(c) \/ AnchorFails(c)
  \/ OpenOutput(c) \/ OpenFails(c) \/ WriteOutput(c) \/ WriteFails(c)
  \/ Report(c)

IssuerNetwork == Network /\ UNCHANGED cliVars

AllOver == (\A c \in Calls : cli[c] \in {"done", "dead"}) /\ UNCHANGED issuerVars

IssuerNext ==
  \/ \E c \in Calls : Start(c) \/ Run(c) \/ PollRaises(c) \/ Clock(c) \/ Kill(c)
  \/ IssuerNetwork
  \/ AllOver

IssuerSpec == IssuerInit /\ [][IssuerNext]_issuerVars

\* A process that is not killed runs on: its requests end, in an answer or an
\* error, and time passes.  A poll is never required to fail, nor the network to
\* confirm.
IssuerFairSpec ==
  IssuerSpec /\ \A c \in Calls : WF_issuerVars(Run(c)) /\ WF_issuerVars(Clock(c))

-------------------------------------------------------------------------------
(***************************************************************************)
(* Properties.                                                             *)
(***************************************************************************)

\* Every variable has its type.
IssuerTypeOK ==
  /\ TypeOK
  /\ cli \in [Calls -> CLIs]
  /\ args \in [Calls -> Args \union {None}]
  /\ stamp \in [Calls -> Stamps \union {None}]
  /\ exit \in [Calls -> {0, 1, 2, None}]
  /\ said \in [Calls -> Txns \union {None}]
  /\ file \in Receipts \union {Absent, Empty, Garbled}
  /\ evidence \subseteq Calls

\* A receipt on disk is true whatever became of the run that wrote it: its
\* timestamp is over the hash of its manifest, unless it is a placeholder, the
\* transaction it names was accepted with the note of that hash, and a round in it
\* is the block that holds it.
ReceiptOnDiskIsTrue ==
  file \in Receipts =>
    LET rec == file.anchor IN
    /\ file.stamp \in {Placeholder, file.hash}
    /\ rec.note = [hash |-> file.hash, profile |-> SingleProfile]
    /\ rec.txid # None =>
         /\ rec.txid \in accepted
         /\ rec.txid.note = rec.note
         /\ rec.txid.net = rec.net
    /\ rec.round # 0 => rec.txid # None /\ ConfirmedIn(rec.txid, rec.round)

\* No transaction is paid for before its timestamp is acquired or waived.
NoAnchorWithoutTimestamp ==
  \A t \in accepted : \E c \in Calls :
    /\ txn[c] = t
    /\ stamp[c] \in {Placeholder, t.note.hash}
    /\ stamp[c] = Placeholder => args[c].skip

\* Exit code 0 means that the receipt is at --output, unless another run opened
\* that file as well.
SuccessMeansReceipt ==
  \A c \in Calls : exit[c] = 0 =>
    \/ file = BuildReceipt(c)
    \/ \E d \in Calls \ {c} : pc[d] = "returned"

\* A transaction that was paid for is lost to its issuer (neither on the
\* terminal, nor in the file) only if the run was killed, the node's answer was
\* lost, or the receipt could not be written.
OrphansAreExplained ==
  \A t \in accepted : \E c \in Calls :
    /\ txn[c] = t
    /\ \/ said[c] = t
       \/ cli[c] \in {"anchor", "write", "report"}
       \/ cli[c] = "dead"
       \/ error[c] # None /\ error[c].stage = "send"
       \/ exit[c] = 1 /\ record[c] # None

\* A run is a legal use of anchor_manifest, so that what is shown of module
\* Anchor holds of it: one call at most, never made again.
UsesAnchorOnce == Spec

\* A run that is not killed ends, and its call of anchor_manifest with it,
\* confirmed or not.
RunEnds == \A c \in Calls : cli[c] = "setup" ~> cli[c] \in {"done", "dead"}

\* How many changes a run has at most before it, those of its call included.
RunStepsLeft ==
  [off |-> 6, setup |-> 5, stamp |-> 4, anchor |-> 3, write |-> 2, report |-> 1,
   done |-> 0, dead |-> 0]
RunRemaining(c) == 9 * RunStepsLeft[cli[c]] + Remaining(c)

RunState(c) == <<cli[c], args[c], stamp[c], exit[c], said[c], CallState(c)>>

\* Every change of a run brings it nearer to its end: nothing is acquired, paid
\* for or written twice, and no run comes back to life (anchor in cli.py).
RunsAdvance ==
  [][\A c \in Calls : RunState(c)' # RunState(c) => RunRemaining(c)' < RunRemaining(c)]_issuerVars

-------------------------------------------------------------------------------
(***************************************************************************)
(* The inductive invariant behind the safety properties.                   *)
(***************************************************************************)

\* How far run c is, and what its call of anchor_manifest has to do with it.
RunInv(c) ==
  /\ cli[c] = "off" <=> args[c] = None
  /\ cli[c] \in {"off", "setup", "stamp"} => pc[c] = "idle" /\ stamp[c] = None
  /\ cli[c] = "anchor" => stamp[c] # None
  /\ cli[c] = "done" <=> exit[c] # None
  /\ stamp[c] # None =>
       /\ args[c] # None
       /\ stamp[c] \in {Placeholder, args[c].hash}
       /\ stamp[c] = Placeholder => args[c].skip
  /\ pc[c] # "idle" =>
       /\ stamp[c] # None
       /\ req[c].hash = args[c].hash
       /\ req[c].profile = SingleProfile
       /\ req[c].client = None
  /\ cli[c] \in {"write", "report"} => pc[c] = "returned"
  /\ cli[c] = "done" =>
       \/ pc[c] = "idle" /\ exit[c] # 0
       \/ pc[c] = "raised" /\ said[c] = error[c].txid /\ exit[c] # 0
       \/ pc[c] = "returned" /\ exit[c] = 1
       \/ pc[c] = "returned" /\ exit[c] = 0 /\ said[c] = record[c].txid

OtherReturned(c) == \E d \in Calls \ {c} : pc[d] = "returned"

\* The file while run c writes it and after.
FileInv(c) ==
  /\ cli[c] = "write" => file = Empty \/ OtherReturned(c)
  /\ cli[c] = "report" \/ exit[c] = 0 => file = BuildReceipt(c) \/ OtherReturned(c)

IssuerInv ==
  /\ IInv
  /\ IssuerTypeOK
  /\ \A c \in Calls : RunInv(c) /\ FileInv(c)
  /\ ReceiptOnDiskIsTrue

-------------------------------------------------------------------------------
(***************************************************************************)
(* What the repository says that the code does not do.                     *)
(***************************************************************************)

\* "Optional path to write the issuer evidence JSON (the private addendum ...).
\* If omitted, no issuer evidence file is produced." (--evidence-output, cli.py)
EvidenceIsWritten ==
  \A c \in Calls : (exit[c] = 0 /\ args[c].evidence) => c \in evidence
=============================================================================
