----------------------------- MODULE IssuerProofs -----------------------------
(***************************************************************************)
(* The runs of module Issuer use anchor_manifest as module Anchor models   *)
(* it, so that its invariant is theirs; from it and from what each run     *)
(* knows of its own call (RunInv) and of the file (FileInv) follow the     *)
(* safety properties of the command, for any number of runs.               *)
(***************************************************************************)
EXTENDS Lifecycle, AnchorCommitmentProofs

\* Every step of the command is a step of module Anchor, or none.
LEMMA StepIsAnchorStep == [IssuerNext]_issuerVars => [Next]_vars
<1> SUFFICES ASSUME IssuerNext, ~UNCHANGED vars PROVE Next
  BY DEF issuerVars
<1>1. ASSUME NEW c \in Calls, Start(c) \/ Run(c) \/ PollRaises(c) \/ Clock(c) \/ Kill(c)
      PROVE  Call(c) \/ CallStep(c)
  BY <1>1 DEF Start, Run, PollRaises, Clock, Kill, SetupFails, SetupSucceeds, Stamp,
     StampFails, CallAnchor, Anchoring, AnchorFails, OpenOutput, OpenFails,
     WriteOutput, WriteFails, Report, CallStep, Progress
<1> QED
  BY <1>1 DEF IssuerNext, IssuerNetwork, AllOver, issuerVars, Next, CallStep

\* A run calls anchor_manifest once at most, whatever it is given, and however
\* many runs there are.
THEOREM AnchorUsedOnce == IssuerSpec => UsesAnchorOnce
BY StepIsAnchorStep, PTL DEF IssuerSpec, IssuerInit, UsesAnchorOnce, Spec

\* What is shown of anchor_manifest holds in every run.
LEMMA IssuerInvariance == IssuerSpec => []IInv
BY AnchorUsedOnce, Invariance, PTL DEF UsesAnchorOnce

\* The runs of the command, killed or not, keep the promise of anchoring: each
\* block entry is one that a run of its own asked for.
THEOREM RunsKeepPromise == IssuerSpec => KeepsPromise
BY AnchorUsedOnce, PromiseKept, PTL DEF UsesAnchorOnce

RunStep(c) == Start(c) \/ Run(c) \/ PollRaises(c) \/ Clock(c) \/ Kill(c)

LEMMA InitIssuerInv == IssuerInit => IssuerInv
<1> SUFFICES ASSUME IssuerInit PROVE IssuerInv
  OBVIOUS
<1>1. IInv
  BY InitIInv DEF IssuerInit
<1>2. IssuerTypeOK
  BY <1>1 DEF IssuerInit, IssuerTypeOK, IInv, CLIs
<1>3. file \notin Receipts
  BY IssuerAssumption DEF IssuerInit
<1>4. \A c \in Calls : /\ pc[c] = "idle" /\ cli[c] = "off" /\ args[c] = None
                       /\ stamp[c] = None /\ exit[c] = None
  BY DEF IssuerInit, Init
<1>5. None # 0
  BY IssuerAssumption
<1> QED
  BY <1>1, <1>2, <1>3, <1>4, <1>5 DEF IssuerInv, RunInv, FileInv, ReceiptOnDiskIsTrue

\* A step of the command is none of anchor_manifest, one of call c, or one of
\* the networks.
LEMMA AnchorPart ==
  ASSUME NEW c \in Calls, RunStep(c)
  PROVE  UNCHANGED vars \/ CallStep(c)
BY DEF RunStep, Start, Run, PollRaises, Clock, Kill, SetupFails, SetupSucceeds, Stamp,
   StampFails, CallAnchor, Anchoring, AnchorFails, OpenOutput, OpenFails,
   WriteOutput, WriteFails, Report, CallStep, Progress

\* What a step leaves of the networks and of the other runs.
LEMMA OneRunSteps ==
  ASSUME IssuerTypeOK, NEW c \in Calls, RunStep(c)
  PROVE  /\ accepted \subseteq accepted' /\ ledger' = ledger
         /\ \A d \in Calls \ {c} :
              /\ pc'[d] = pc[d] /\ req'[d] = req[d]
              /\ record'[d] = record[d] /\ error'[d] = error[d]
              /\ cli'[d] = cli[d] /\ args'[d] = args[d] /\ stamp'[d] = stamp[d]
              /\ exit'[d] = exit[d] /\ said'[d] = said[d]
<1>1. /\ accepted \subseteq accepted' /\ ledger' = ledger
      /\ \A d \in Calls \ {c} :
           /\ pc'[d] = pc[d] /\ req'[d] = req[d]
           /\ record'[d] = record[d] /\ error'[d] = error[d]
  <2>1. CASE UNCHANGED vars
    BY <2>1 DEF vars, callVars, algodVars
  <2>2. CASE CallStep(c)
    BY <2>2, OneCallSteps DEF IssuerTypeOK
  <2> QED
    BY <2>1, <2>2, AnchorPart
<1>2. ASSUME NEW d \in Calls \ {c}
      PROVE  /\ cli'[d] = cli[d] /\ args'[d] = args[d] /\ stamp'[d] = stamp[d]
             /\ exit'[d] = exit[d] /\ said'[d] = said[d]
  <2> USE DEF IssuerTypeOK, At, Exit, cliVars
  <2>1. CASE Start(c) \/ SetupFails(c) \/ SetupSucceeds(c) \/ Stamp(c) \/ StampFails(c)
    BY <2>1 DEF Start, SetupFails, SetupSucceeds, Stamp, StampFails
  <2>2. CASE CallAnchor(c) \/ Anchoring(c) \/ PollRaises(c) \/ Clock(c)
    BY <2>2 DEF CallAnchor, Anchoring, PollRaises, Clock
  <2>3. CASE AnchorFails(c) \/ OpenOutput(c) \/ OpenFails(c) \/ WriteOutput(c)
             \/ WriteFails(c) \/ Report(c)
    BY <2>3 DEF AnchorFails, OpenOutput, OpenFails, WriteOutput, WriteFails, Report
  <2>4. CASE Kill(c)
    BY <2>4 DEF Kill
  <2> QED
    BY <2>1, <2>2, <2>3, <2>4 DEF RunStep, Run
<1> QED
  BY <1>1, <1>2

LEMMA NetworkKeeps ==
  ASSUME Network
  PROVE  accepted \subseteq accepted' /\ ledger \subseteq ledger' /\ UNCHANGED callVars
BY DEF Network, AlgodStep, NewRound, Evict

\* What a call of anchor_manifest that is running does to its arguments.
LEMMA CallKeeps ==
  ASSUME TypeOK, NEW c \in Calls, CallStep(c), ~Call(c)
  PROVE  req' = req /\ pc[c] \notin {"idle"} \union Final /\ pc'[c] # "idle"
<1> USE DEF TypeOK, Go, Final
<1>1. CASE \/ RefuseNote(c) \/ ReturnDraft(c) \/ StartSubmission(c) \/ ParamsAnswer(c)
           \/ ParamsFail(c) \/ BuildTransaction(c) \/ AddressFails(c) \/ Sign(c)
           \/ SignFails(c) \/ SendAnswerLost(c) \/ SendFails(c)
  BY <1>1 DEF RefuseNote, ReturnDraft, StartSubmission, ParamsAnswer, ParamsFail,
     BuildTransaction, AddressFails, Sign, SignFails, SendAnswerLost, SendFails
<1>2. CASE Send(c)
  BY <1>2 DEF Send
<1>3. CASE \/ PollConfirmed(c) \/ PollRejected(c) \/ PollTimesOut(c) \/ PollAgain(c)
           \/ PollFails(c) \/ DeadlinePasses(c)
  BY <1>3 DEF PollConfirmed, PollRejected, PollTimesOut, PollAgain, PollFails,
     DeadlinePasses, vars, callVars
<1> QED
  BY <1>1, <1>2, <1>3 DEF CallStep, Progress


\* The receipt of a run whose call returned is true.
LEMMA BuiltReceipt ==
  ASSUME IssuerInv, NEW c \in Calls, pc[c] = "returned"
  PROVE  /\ BuildReceipt(c) \in Receipts
         /\ LET rec == record[c] IN
            /\ stamp[c] \in {Placeholder, args[c].hash}
            /\ rec.note = [hash |-> args[c].hash, profile |-> SingleProfile]
            /\ rec.txid # None =>
                 /\ rec.txid \in accepted
                 /\ rec.txid.note = rec.note
                 /\ rec.txid.net = rec.net
            /\ rec.round # 0 => rec.txid # None /\ ConfirmedIn(rec.txid, rec.round)
<1> USE DEF IssuerInv, IInv
<1>1. CallInv(c) /\ RunInv(c) /\ IssuerTypeOK /\ TypeOK
  OBVIOUS
<1>2. /\ stamp[c] # None /\ args[c] # None
      /\ stamp[c] \in {Placeholder, args[c].hash}
      /\ req[c].hash = args[c].hash /\ req[c].profile = SingleProfile
      /\ req[c].client = None
  BY <1>1 DEF RunInv
<1>3. record[c] # None /\ ReturnedInv(c) /\ record[c] \in Records
  BY <1>1 DEF CallInv, TypeOK
<1>4. record[c].note = [hash |-> args[c].hash, profile |-> SingleProfile]
  BY <1>2, <1>3 DEF ReturnedInv, NoteOf
<1>5. record[c].txid # None =>
        /\ record[c].txid = txn[c] /\ txn[c] \in accepted
        /\ txn[c].note = NoteOf(c) /\ txn[c].net = ClientNet(c)
  BY <1>1, <1>3 DEF ReturnedInv, CallInv
<1>6. ClientNet(c) = record[c].net /\ record[c].note = NoteOf(c)
  BY <1>2, <1>3 DEF ReturnedInv, ClientNet, NetworkForMode, DefaultAlgodNet
<1>7. record[c].round # 0 =>
        record[c].txid # None /\ ConfirmedIn(record[c].txid, record[c].round)
  BY <1>3 DEF ReturnedInv
<1>8. BuildReceipt(c) \in Receipts
  <2>1. args[c].hash \in Hashes /\ stamp[c] \in Stamps
    BY <1>1, <1>2 DEF IssuerTypeOK, Args
  <2> QED
    BY <1>3, <2>1 DEF BuildReceipt, Receipts
<1> QED
  BY <1>2, <1>4, <1>5, <1>6, <1>7, <1>8

\* The types after a step.
LEMMA RunType ==
  ASSUME IssuerInv, IInv', NEW c \in Calls, RunStep(c)
  PROVE  IssuerTypeOK'
<1> USE DEF IssuerTypeOK, At, Exit, cliVars, CLIs
<1>1. IssuerTypeOK /\ TypeOK' /\ RunInv(c) /\ CallInv(c) /\ TypeOK
  BY DEF IssuerInv, IInv
<1>2. CASE Start(c) \/ SetupFails(c) \/ SetupSucceeds(c) \/ StampFails(c)
  BY <1>1, <1>2 DEF Start, SetupFails, SetupSucceeds, StampFails
<1>3. CASE Stamp(c)
  <2>1. args[c] # None
    BY <1>1, <1>3 DEF Stamp, RunInv
  <2>2. args[c].hash \in Hashes
    BY <1>1, <2>1 DEF Args
  <2> QED
    BY <1>1, <1>3, <2>2 DEF Stamp, Stamps
<1>4. CASE CallAnchor(c) \/ Anchoring(c) \/ PollRaises(c) \/ Clock(c)
  BY <1>1, <1>4 DEF CallAnchor, Anchoring, PollRaises, Clock
<1>5. CASE AnchorFails(c)
  <2>1. error[c] \in Errors
    BY <1>1, <1>5 DEF AnchorFails, CallInv, TypeOK
  <2> QED
    BY <1>1, <1>5, <2>1 DEF AnchorFails, Errors
<1>6. CASE OpenOutput(c) \/ OpenFails(c) \/ WriteFails(c) \/ Kill(c)
  BY <1>1, <1>6 DEF OpenOutput, OpenFails, WriteFails, Kill
<1>7. CASE WriteOutput(c)
  <2>1. BuildReceipt(c) \in Receipts
    BY <1>1, <1>7, BuiltReceipt DEF WriteOutput, RunInv
  <2> QED
    BY <1>1, <1>7, <2>1 DEF WriteOutput
<1>8. CASE Report(c)
  <2>1. record[c] \in Records
    BY <1>1, <1>8 DEF Report, RunInv, CallInv, TypeOK
  <2> QED
    BY <1>1, <1>8, <2>1 DEF Report, Records
<1> QED
  BY <1>2, <1>3, <1>4, <1>5, <1>6, <1>7, <1>8 DEF RunStep, Run

\* The run that takes a step keeps its invariant.
LEMMA RunKeepsRunInv ==
  ASSUME IssuerInv, NEW c \in Calls, RunStep(c)
  PROVE  RunInv(c)'
<1> USE DEF IssuerTypeOK, At, Exit, cliVars
<1>1. IssuerTypeOK /\ TypeOK /\ RunInv(c) /\ CallInv(c)
  BY DEF IssuerInv, IInv
<1>2. None \notin Args \union Stamps \union {0, 1, 2}
  BY IssuerAssumption
<1>3. CASE Start(c)
  BY <1>1, <1>2, <1>3 DEF Start, RunInv, vars, callVars
<1>4. CASE SetupFails(c) \/ SetupSucceeds(c) \/ StampFails(c)
  BY <1>1, <1>2, <1>4 DEF SetupFails, SetupSucceeds, StampFails, RunInv, vars, callVars
<1>5. CASE Stamp(c)
  <2>1. args[c] # None /\ pc[c] = "idle" /\ exit[c] = None
    BY <1>1, <1>5 DEF Stamp, RunInv
  <2>2. args[c].hash \in Hashes
    BY <1>1, <2>1 DEF Args
  <2>3. /\ stamp'[c] # None /\ stamp'[c] \in {Placeholder, args[c].hash}
        /\ stamp'[c] = Placeholder => args[c].skip
    BY <1>1, <1>2, <1>5, <2>2, IssuerAssumption DEF Stamp, Stamps
  <2> QED
    BY <1>1, <1>5, <2>1, <2>3 DEF Stamp, RunInv, vars, callVars
<1>6. CASE CallAnchor(c)
  BY <1>1, <1>6 DEF CallAnchor, Call, Go, RunInv, TypeOK
<1>7. CASE Anchoring(c) \/ PollRaises(c) \/ Clock(c)
  <2>1. CallStep(c) /\ cli[c] = "anchor" /\ UNCHANGED cliVars
    BY <1>7 DEF Anchoring, PollRaises, Clock, CallStep
  <2>2. ~Call(c)
    BY <1>1, <1>7 DEF Anchoring, PollRaises, Clock, Progress, Call, Go, TypeOK,
       RefuseNote, ReturnDraft, StartSubmission, ParamsAnswer, ParamsFail,
       BuildTransaction, AddressFails, Sign, SignFails, Send, SendAnswerLost,
       SendFails, PollConfirmed, PollRejected, PollTimesOut, PollAgain, PollFails,
       DeadlinePasses, vars, callVars
  <2>3. req' = req /\ pc[c] # "idle"
    BY <1>1, <2>1, <2>2, CallKeeps
  <2> QED
    BY <1>1, <2>1, <2>3 DEF RunInv
<1>8. CASE AnchorFails(c)
  BY <1>1, <1>2, <1>8 DEF AnchorFails, RunInv, vars, callVars
<1>9. CASE OpenOutput(c) \/ OpenFails(c)
  BY <1>1, <1>2, <1>9 DEF OpenOutput, OpenFails, RunInv, vars, callVars
<1>10. CASE WriteOutput(c) \/ WriteFails(c)
  BY <1>1, <1>2, <1>10 DEF WriteOutput, WriteFails, RunInv, vars, callVars
<1>11. CASE Report(c)
  BY <1>1, <1>2, <1>11 DEF Report, RunInv, vars, callVars
<1>12. CASE Kill(c)
  <2>1. cli[c] \in Running /\ cli'[c] = "dead" /\ UNCHANGED <<args, stamp, exit, said>>
    BY <1>1, <1>12 DEF Kill
  <2>2. args[c] # None /\ exit[c] = None
    BY <1>1, <2>1 DEF RunInv, Running
  <2>3. req' = req /\ (pc'[c] # "idle" => stamp[c] # None)
    BY <1>1, <1>12 DEF Kill, RunInv, SendAnswerLost, vars, callVars
  <2>4. pc'[c] # "idle" => pc[c] # "idle"
    BY <1>1, <1>12 DEF Kill, SendAnswerLost, Go, vars, callVars
  <2> QED
    BY <1>1, <2>1, <2>2, <2>3, <2>4 DEF RunInv
<1> QED
  BY <1>3, <1>4, <1>5, <1>6, <1>7, <1>8, <1>9, <1>10, <1>11, <1>12 DEF RunStep, Run


\* A call that has returned stays so.
LEMMA ReturnedStays ==
  ASSUME IssuerInv, [IssuerNext]_issuerVars, NEW d \in Calls, pc[d] = "returned"
  PROVE  pc'[d] = "returned" /\ BuildReceipt(d)' = BuildReceipt(d)
<1>1. IssuerTypeOK /\ TypeOK /\ RunInv(d)
  BY DEF IssuerInv, IInv
<1>2. args[d] # None /\ cli[d] # "off" /\ cli[d] # "stamp"
  BY <1>1 DEF RunInv
<1>3. ASSUME NEW c \in Calls, RunStep(c)
      PROVE  pc'[d] = "returned" /\ BuildReceipt(d)' = BuildReceipt(d)
  <2>1. CASE c # d
    BY <1>1, <1>3, <2>1, OneRunSteps DEF BuildReceipt
  <2>2. CASE c = d
    <3>1. ~Call(d) /\ ~CallStep(d)
      <4>1. ~Call(d)
        BY DEF Call, Go
      <4> QED
        BY <1>1, <4>1, CallKeeps DEF Final
    <3>2. UNCHANGED vars
      BY <1>3, <2>2, <3>1, AnchorPart
    <3>3. args' = args /\ stamp' = stamp
      <4>1. CASE Start(d) \/ Stamp(d)
        BY <1>2, <4>1 DEF Start, Stamp, At
      <4>2. CASE Run(d) /\ ~Stamp(d)
        BY <4>2 DEF Run, SetupFails, SetupSucceeds, StampFails, CallAnchor, Anchoring,
           AnchorFails, OpenOutput, OpenFails, WriteOutput, WriteFails, Report, cliVars
      <4>3. CASE PollRaises(d) \/ Clock(d) \/ Kill(d)
        BY <4>3 DEF PollRaises, Clock, Kill, cliVars
      <4> QED
        BY <1>3, <2>2, <4>1, <4>2, <4>3 DEF RunStep
    <3> QED
      BY <3>2, <3>3 DEF vars, callVars, BuildReceipt
  <2> QED
    BY <2>1, <2>2
<1>4. CASE IssuerNetwork
  BY <1>4, NetworkKeeps DEF IssuerNetwork, callVars, cliVars, BuildReceipt
<1>5. CASE UNCHANGED issuerVars
  BY <1>5 DEF issuerVars, vars, callVars, cliVars, BuildReceipt
<1> QED
  BY <1>3, <1>4, <1>5 DEF IssuerNext, AllOver, RunStep

\* Only a run whose call returned touches the file.
LEMMA FileTouched ==
  ASSUME IssuerInv, NEW c \in Calls, RunStep(c), file' # file
  PROVE  /\ pc[c] = "returned"
         /\ \/ OpenOutput(c) /\ file' = Empty
            \/ WriteOutput(c) /\ file' \in {BuildReceipt(c), Garbled}
            \/ WriteFails(c) /\ file' = Garbled
            \/ Kill(c) /\ file' = Garbled
<1>1. \/ OpenOutput(c) /\ file' = Empty
      \/ WriteOutput(c) /\ file' \in {BuildReceipt(c), Garbled}
      \/ WriteFails(c) /\ file' = Garbled
      \/ Kill(c) /\ file' = Garbled
  BY DEF RunStep, Start, Run, PollRaises, Clock, Kill, SetupFails, SetupSucceeds, Stamp,
     StampFails, CallAnchor, Anchoring, AnchorFails, OpenOutput, OpenFails,
     WriteOutput, WriteFails, Report, cliVars
<1>2. RunInv(c)
  BY DEF IssuerInv
<1>3. pc[c] = "returned"
  <2>1. CASE OpenOutput(c)
    BY <2>1 DEF OpenOutput
  <2>2. CASE WriteOutput(c) \/ WriteFails(c)
    BY <1>2, <2>2 DEF WriteOutput, WriteFails, At, Exit, RunInv
  <2>3. CASE Kill(c)
    BY <1>2, <2>3 DEF Kill, RunInv
  <2> QED
    BY <1>1, <2>1, <2>2, <2>3
<1> QED
  BY <1>1, <1>3

LEMMA RunKeepsFileInv ==
  ASSUME IssuerInv, NEW c \in Calls, RunStep(c), NEW d \in Calls
  PROVE  FileInv(d)'
<1> USE DEF IssuerTypeOK, At, Exit
<1>1. IssuerTypeOK /\ FileInv(d) /\ RunInv(d) /\ RunInv(c)
  BY DEF IssuerInv
<1>step. [IssuerNext]_issuerVars
  BY DEF IssuerNext, RunStep
<1>2. OtherReturned(d) => OtherReturned(d)'
  BY <1>step, ReturnedStays DEF OtherReturned
<1>3. CASE c # d
  <2>1. cli'[d] = cli[d] /\ exit'[d] = exit[d]
    BY <1>1, <1>3, OneRunSteps
  <2>2. CASE file' = file
    <3>1. cli[d] = "report" \/ exit[d] = 0 => BuildReceipt(d)' = BuildReceipt(d)
      BY <1>1, <1>3, OneRunSteps DEF BuildReceipt
    <3> QED
      BY <1>1, <1>2, <2>1, <2>2, <3>1 DEF FileInv
  <2>3. CASE file' # file
    <3>1. OtherReturned(d)
      BY <1>3, <2>3, FileTouched DEF OtherReturned
    <3> QED
      BY <1>2, <3>1 DEF FileInv
  <2> QED
    BY <2>2, <2>3
<1>4. CASE c = d
  <2>1. CASE OpenOutput(d)
    <3>1. cli'[d] = "write" /\ file' = Empty /\ exit'[d] = exit[d] /\ cli[d] = "anchor"
      BY <1>1, <2>1 DEF OpenOutput
    <3>2. exit'[d] # 0
      BY <1>1, <3>1, IssuerAssumption DEF RunInv
    <3> QED
      BY <3>1, <3>2 DEF FileInv
  <2>2. CASE WriteOutput(d)
    <3>1. /\ cli[d] = "write" /\ cli'[d] = "report"
          /\ file' \in IF file = Empty THEN {BuildReceipt(d)} ELSE {BuildReceipt(d), Garbled}
      BY <1>1, <2>2 DEF WriteOutput
    <3>2. BuildReceipt(d)' = BuildReceipt(d)
      BY <2>2 DEF WriteOutput, BuildReceipt, vars, callVars
    <3>3. file' = BuildReceipt(d) \/ OtherReturned(d)
      BY <1>1, <3>1 DEF FileInv
    <3> QED
      BY <1>2, <3>1, <3>2, <3>3 DEF FileInv
  <2>3. CASE Report(d)
    <3>1. cli[d] = "report" /\ cli'[d] = "done" /\ file' = file
      BY <1>1, <2>3 DEF Report
    <3>2. BuildReceipt(d)' = BuildReceipt(d)
      BY <2>3 DEF Report, BuildReceipt, vars, callVars
    <3> QED
      BY <1>1, <1>2, <3>1, <3>2 DEF FileInv
  <2>4. CASE ~(OpenOutput(d) \/ WriteOutput(d) \/ Report(d))
    <3>1. cli'[d] \notin {"write", "report"} /\ exit'[d] # 0
      <4>1. None # 0
        BY IssuerAssumption
      <4>2. exit[d] = None
        <5>1. cli[d] # "done"
          BY <1>4 DEF RunStep, Start, Run, PollRaises, Clock, Kill, SetupFails,
             SetupSucceeds, Stamp, StampFails, CallAnchor, Anchoring, AnchorFails,
             OpenOutput, OpenFails, WriteOutput, WriteFails, Report, Running
        <5> QED
          BY <1>1, <5>1 DEF RunInv
      <4>3. CASE Start(d) \/ SetupFails(d) \/ SetupSucceeds(d) \/ Stamp(d) \/ StampFails(d)
        BY <1>1, <4>1, <4>2, <4>3 DEF Start, SetupFails, SetupSucceeds, Stamp, StampFails
      <4>4. CASE CallAnchor(d) \/ Anchoring(d) \/ PollRaises(d) \/ Clock(d)
        BY <1>1, <4>1, <4>2, <4>4 DEF CallAnchor, Anchoring, PollRaises, Clock, cliVars
      <4>5. CASE AnchorFails(d) \/ OpenFails(d) \/ WriteFails(d) \/ Kill(d)
        BY <1>1, <4>1, <4>2, <4>5 DEF AnchorFails, OpenFails, WriteFails, Kill
      <4> QED
        BY <1>4, <2>4, <4>3, <4>4, <4>5 DEF RunStep, Run
    <3> QED
      BY <3>1 DEF FileInv
  <2> QED
    BY <2>1, <2>2, <2>3, <2>4
<1> QED
  BY <1>3, <1>4


\* What is true of a receipt on disk stays true: the networks take nothing back.
LEMMA ReceiptStays ==
  ASSUME ReceiptOnDiskIsTrue, file' = file, accepted \subseteq accepted',
         ledger \subseteq ledger'
  PROVE  ReceiptOnDiskIsTrue'
BY DEF ReceiptOnDiskIsTrue, ConfirmedIn

LEMMA RunKeepsReceipt ==
  ASSUME IssuerInv, NEW c \in Calls, RunStep(c)
  PROVE  ReceiptOnDiskIsTrue'
<1>1. accepted \subseteq accepted' /\ ledger' = ledger
  BY OneRunSteps DEF IssuerInv
<1>2. CASE file' = file
  BY <1>1, <1>2, ReceiptStays DEF IssuerInv
<1>3. CASE file' # file
  <2>1. pc[c] = "returned" /\ file' \in {Empty, Garbled, BuildReceipt(c)}
    BY <1>3, FileTouched
  <2>2. CASE file' \in {Empty, Garbled}
    BY <2>2, IssuerAssumption DEF ReceiptOnDiskIsTrue, Receipts, Stamps, Records
  <2>3. CASE file' = BuildReceipt(c)
    BY <1>1, <2>1, <2>3, BuiltReceipt DEF ReceiptOnDiskIsTrue, BuildReceipt, ConfirmedIn
  <2> QED
    BY <2>1, <2>2, <2>3
<1> QED
  BY <1>2, <1>3

LEMMA NextIssuerInv == IssuerInv /\ IInv' /\ [IssuerNext]_issuerVars => IssuerInv'
<1> SUFFICES ASSUME IssuerInv, IInv', [IssuerNext]_issuerVars PROVE IssuerInv'
  OBVIOUS
<1>1. ASSUME NEW c \in Calls, RunStep(c) PROVE IssuerInv'
  <2>1. IssuerTypeOK' /\ ReceiptOnDiskIsTrue'
    BY <1>1, RunType, RunKeepsReceipt
  <2>2. ASSUME NEW d \in Calls PROVE RunInv(d)' /\ FileInv(d)'
    <3>1. CASE d = c
      BY <1>1, <3>1, RunKeepsRunInv, RunKeepsFileInv
    <3>2. CASE d # c
      BY <1>1, <3>2, OneRunSteps, RunKeepsFileInv DEF IssuerInv, RunInv
    <3> QED
      BY <3>1, <3>2
  <2> QED
    BY <2>1, <2>2 DEF IssuerInv
<1>2. CASE IssuerNetwork \/ UNCHANGED issuerVars
  <2>1. /\ accepted \subseteq accepted' /\ ledger \subseteq ledger'
        /\ UNCHANGED callVars /\ UNCHANGED cliVars
    BY <1>2, NetworkKeeps DEF IssuerNetwork, issuerVars, vars, algodVars
  <2>2. ReceiptOnDiskIsTrue'
    BY <2>1, ReceiptStays DEF IssuerInv, cliVars
  <2>3. IssuerTypeOK'
    BY <2>1 DEF IssuerInv, IInv, IssuerTypeOK, cliVars
  <2>4. ASSUME NEW d \in Calls PROVE RunInv(d)' /\ FileInv(d)'
    BY <2>1 DEF IssuerInv, RunInv, FileInv, OtherReturned, BuildReceipt, callVars, cliVars
  <2> QED
    BY <2>2, <2>3, <2>4 DEF IssuerInv
<1> QED
  BY <1>1, <1>2 DEF IssuerNext, AllOver, RunStep

\* The inductive invariant of the command, which holds that of module Anchor.
THEOREM IssuerIsSafe == IssuerSpec => []IssuerInv
<1>1. IssuerInit => IssuerInv
  BY InitIssuerInv
<1> QED
  BY <1>1, NextIssuerInv, IssuerInvariance, PTL DEF IssuerSpec

THEOREM IssuerTypeCorrect == IssuerSpec => []IssuerTypeOK
<1>1. IssuerInv => IssuerTypeOK
  BY DEF IssuerInv
<1> QED
  BY <1>1, IssuerIsSafe, PTL

\* A receipt on disk is true, whatever runs wrote, died and overlapped.
THEOREM ReceiptsAreTrue == IssuerSpec => []ReceiptOnDiskIsTrue
<1>1. IssuerInv => ReceiptOnDiskIsTrue
  BY DEF IssuerInv
<1> QED
  BY <1>1, IssuerIsSafe, PTL

\* Exit code 0 means a receipt at --output, unless runs shared that path.
THEOREM SuccessIsWritten == IssuerSpec => []SuccessMeansReceipt
<1>1. IssuerInv => SuccessMeansReceipt
  BY DEF IssuerInv, FileInv, OtherReturned, SuccessMeansReceipt
<1> QED
  BY <1>1, IssuerIsSafe, PTL

\* Every transaction behind a run has the timestamp that the run held first.
THEOREM TimestampFirst == IssuerSpec => []NoAnchorWithoutTimestamp
<1>1. IssuerInv => NoAnchorWithoutTimestamp
  <2> SUFFICES ASSUME IssuerInv, NEW t \in accepted
               PROVE  \E c \in Calls :
                        /\ txn[c] = t
                        /\ stamp[c] \in {Placeholder, t.note.hash}
                        /\ stamp[c] = Placeholder => args[c].skip
    BY DEF NoAnchorWithoutTimestamp
  <2>1. PICK c \in Calls : txn[c] = t /\ HasSent(c)
    BY DEF IssuerInv, IInv, EverySubmissionHasACall
  <2>2. CallInv(c) /\ RunInv(c) /\ t \in Txns /\ t # None
    BY AnchorAssumption DEF IssuerInv, IInv, TypeOK
  <2>3. pc[c] # "idle"
    BY <2>1 DEF HasSent
  <2>4. t.note.hash = args[c].hash
    BY <2>1, <2>2, <2>3 DEF CallInv, NoteOf, RunInv
  <2> QED
    BY <2>1, <2>2, <2>3, <2>4 DEF RunInv
<1> QED
  BY <1>1, IssuerIsSafe, PTL

\* Only a kill, a lost answer or a failed write leaves a paid transaction that
\* its issuer is not told of.
THEOREM OrphansExplained == IssuerSpec => []OrphansAreExplained
<1>1. IssuerInv => OrphansAreExplained
  <2> SUFFICES ASSUME IssuerInv, NEW t \in accepted
               PROVE  \E c \in Calls :
                        /\ txn[c] = t
                        /\ \/ said[c] = t
                           \/ cli[c] \in {"anchor", "write", "report"}
                           \/ cli[c] = "dead"
                           \/ error[c] # None /\ error[c].stage = "send"
                           \/ exit[c] = 1 /\ record[c] # None
    BY DEF OrphansAreExplained
  <2>1. PICK c \in Calls : txn[c] = t /\ HasSent(c)
    BY DEF IssuerInv, IInv, EverySubmissionHasACall
  <2>2. CallInv(c) /\ RunInv(c) /\ IssuerTypeOK
    BY DEF IssuerInv, IInv
  <2>3. pc[c] # "idle" /\ pc[c] # "called"
    BY <2>1 DEF HasSent
  <2>4. cli[c] \in {"anchor", "write", "report", "done", "dead"}
    BY <2>2, <2>3 DEF RunInv, IssuerTypeOK, CLIs
  <2>5. CASE cli[c] = "done"
    <3>1. pc[c] \in Final
      BY <2>2, <2>3, <2>5 DEF RunInv, Final
    <3>2. CASE pc[c] = "raised"
      <4>1. error[c] # None /\ said[c] = error[c].txid
        BY <2>2, <2>5, <3>2 DEF RunInv, CallInv
      <4>2. error[c].stage # "send" => error[c].txid = t
        BY <2>1, <2>2, <3>2 DEF HasSent, CallInv
      <4> QED
        BY <2>1, <4>1, <4>2
    <3>3. CASE pc[c] = "returned"
      <4>1. record[c] # None /\ record[c].txid = t
        BY <2>1, <2>2, <3>3 DEF HasSent, CallInv, ReturnedInv
      <4> QED
        BY <2>1, <2>2, <2>5, <3>3, <4>1 DEF RunInv
    <3> QED
      BY <3>1, <3>2, <3>3 DEF Final
  <2> QED
    BY <2>1, <2>4, <2>5
<1> QED
  BY <1>1, IssuerIsSafe, PTL

-------------------------------------------------------------------------------
(***************************************************************************)
(* What is on disk, given to verify_receipt.                               *)
(***************************************************************************)

\* A txid names one transaction: all that is found for it is an entry of that
\* transaction, with its note.
LEMMA FoundIsTheTransaction ==
  ASSUME NEW seen \in SUBSET Indexable, NEW r, NEW o, NEW e \in Checks!Found(seen, r, o)
  PROVE  /\ e \in seen /\ e.id = r.txid
         /\ \E b \in ledger : /\ b.txn = r.txid
                             /\ e.note = Checks!Payload(b.txn.note.hash, b.txn.note.profile)
BY DEF Checks!Found, Indexable

\* A receipt on disk verifies, for any issuers, any indexers and any options.
THEOREM WrittenVerifies == IssuerSpec => []WrittenReceiptVerifies
<1>1. IssuerInv => WrittenReceiptVerifies
  <2> SUFFICES ASSUME IssuerInv, file \in Receipts PROVE WrittenReceiptVerifies
    BY DEF WrittenReceiptVerifies
  <2> DEFINE r == AsRead(file)
             rec == file.anchor
             body == [hash |-> file.hash, batching |-> SingleProfile]
  <2>1. /\ file.hash \in Hashes /\ file.stamp \in Stamps /\ rec \in Records
        /\ SingleProfile \in ProfileLens /\ file.hash # None /\ file.hash # Placeholder
    BY IssuerAssumption DEF Receipts, Stamps
  <2>2. /\ file.stamp \in {Placeholder, file.hash}
        /\ rec.note = [hash |-> file.hash, profile |-> SingleProfile]
        /\ rec.txid # None => rec.txid.note = rec.note /\ rec.txid.net = rec.net
        /\ rec.round # 0 => rec.txid # None /\ ConfirmedIn(rec.txid, rec.round)
    BY DEF IssuerInv, ReceiptOnDiskIsTrue
  <2>3. /\ r.profile = "actproof-jcs-v1" /\ r.manifest = file.hash
        /\ r.declared = [hash |-> file.hash, exact |-> TRUE]
        /\ r.batching = SingleProfile /\ r.net = rec.net /\ r.txid = rec.txid
        /\ rec.round = 0 => r.round = None
        /\ rec.round # 0 => r.round = rec.round
        /\ r.payload = Checks!Payload(rec.note.hash, rec.note.profile)
        /\ file.stamp = Placeholder => r.token = [imprint |-> file.hash, genuine |-> FALSE]
        /\ file.stamp # Placeholder => r.token = [imprint |-> file.stamp, genuine |-> TRUE]
    BY DEF AsRead
  <2> HIDE DEF r
  <2>3a. /\ r.payload = body
         /\ file.stamp # Placeholder => r.token = [imprint |-> file.hash, genuine |-> TRUE]
    <3>1. rec.note.hash = file.hash /\ rec.note.profile = SingleProfile
      BY <2>2
    <3>2. file.stamp # Placeholder => file.stamp = file.hash
      BY <2>2
    <3> QED BY <2>3, <3>1, <3>2 DEF Checks!Payload
  <2>4. r.declared # None /\ r.token # None /\ r.declared.hash = file.hash
    <3>1. r.declared \in Checks!Declarations /\ r.declared.hash = file.hash
      BY <2>1, <2>3 DEF Checks!Declarations
    <3>2. r.token \in Checks!TokenSet
      <4>1. \A g \in BOOLEAN : [imprint |-> file.hash, genuine |-> g] \in Checks!TokenSet
        BY <2>1 DEF Checks!TokenSet
      <4> QED BY <4>1, <2>3, <2>3a
    <3> QED BY <3>1, <3>2, LifecycleAssumption
  <2>5. Checks!ProfileStatus(r) = "PASS"
    BY <2>3 DEF Checks!ProfileStatus
  <2>6. Checks!ManifestHashStatus(r) = "PASS"
    BY <2>1, <2>3 DEF Checks!ManifestHashStatus
  <2>7. Checks!NoteStatus(r) = "PASS"
    BY <2>3, <2>3a, <2>4 DEF Checks!NoteStatus, Checks!Payload
  <2>8. ASSUME NEW o \in Checks!Options, NEW seen \in SUBSET Indexable
        PROVE  /\ "FAIL" \notin Checks!AnchorStatuses(seen, r, o)
               /\ (/\ "anchor" \notin o.skip /\ AsksItsNetwork(r, o)
                   /\ \E e \in seen : e.id = r.txid)
                  => "PASS" \in Checks!AnchorStatuses(seen, r, o)
    <3>1. ASSUME NEW e \in Checks!Found(seen, r, o), r.txid # None
          PROVE  Checks!EntryStatus(r, e) = "PASS"
      <4>1. PICK b \in ledger : /\ b.txn = r.txid
                               /\ e.note = Checks!Payload(b.txn.note.hash, b.txn.note.profile)
        BY FoundIsTheTransaction
      <4>2. b.txn.note = rec.note
        BY <3>1, <4>1, <2>2, <2>3
      <4>3. e.note = body /\ body \in Checks!Payloads
        BY <4>1, <4>2, <2>1, <2>2 DEF Checks!Payload, Checks!Payloads
      <4> QED BY <4>3, <2>3a DEF Checks!EntryStatus
    <3>2. "FAIL" \notin Checks!AnchorStatuses(seen, r, o)
      BY <3>1 DEF Checks!AnchorStatuses
    <3>3. ASSUME "anchor" \notin o.skip, AsksItsNetwork(r, o), NEW e \in seen, e.id = r.txid
          PROVE  "PASS" \in Checks!AnchorStatuses(seen, r, o)
      <4>1. e.id \in Txns /\ e.net = e.id.net
        BY DEF Indexable, IssuerInv, IInv, TypeOK, Entries
      <4>2. r.txid # None /\ e.net = r.net
        BY <3>3, <4>1, <2>2, <2>3, AnchorAssumption
      <4>3. e \in Checks!Found(seen, r, o)
        BY <3>3, <4>2 DEF Checks!Found, AsksItsNetwork
      <4>4. Checks!EntryStatus(r, e) = "PASS"
        BY <3>1, <4>2, <4>3
      <4> QED BY <3>3, <4>2, <4>3, <4>4 DEF Checks!AnchorStatuses, AsksItsNetwork
    <3> QED BY <3>2, <3>3
  <2>9. r.round # None => \E e \in Indexable : e.id = r.txid /\ e.round = r.round
    <3> SUFFICES ASSUME r.round # None
                 PROVE  \E e \in Indexable : e.id = r.txid /\ e.round = r.round
      OBVIOUS
    <3>1. [txn |-> rec.txid, round |-> rec.round] \in ledger
      BY <2>2, <2>3 DEF ConfirmedIn
    <3>2. [id |-> rec.txid, net |-> rec.txid.net, round |-> rec.round,
           note |-> Checks!Payload(rec.txid.note.hash, rec.txid.note.profile)] \in Indexable
      <4> DEFINE entry == [txn |-> rec.txid, round |-> rec.round]
      <4>1. entry \in ledger /\ entry.txn = rec.txid /\ entry.round = rec.round
        BY <3>1
      <4> HIDE DEF entry
      <4> QED BY <4>1 DEF Indexable
    <3> QED BY <3>2, <2>3
  <2>10. ASSUME NEW o \in Checks!Options, "timestamp" \notin o.skip
         PROVE  Checks!TokenStatus(r, o) = "PASS" <=> o.tsp /\ file.stamp # Placeholder
    <3>1. CASE file.stamp = Placeholder
      <4>1. r.token # [imprint |-> r.declared.hash, genuine |-> TRUE]
        BY <3>1, <2>3
      <4> QED BY <3>1, <4>1, <2>4, <2>10 DEF Checks!TokenStatus
    <3>2. CASE file.stamp # Placeholder
      <4>1. r.token = [imprint |-> r.declared.hash, genuine |-> TRUE]
        BY <3>2, <2>3a, <2>4
      <4>2. o.tsp \in BOOLEAN
        BY DEF Checks!Options
      <4> QED BY <3>2, <4>1, <4>2, <2>4, <2>10 DEF Checks!TokenStatus
    <3> QED BY <3>1, <3>2
  <2> QED
    BY <2>5, <2>6, <2>7, <2>8, <2>9, <2>10 DEF r, WrittenReceiptVerifies
<1> QED
  BY <1>1, IssuerIsSafe, PTL

-------------------------------------------------------------------------------
(***************************************************************************)
(* Every change of a run brings it nearer to its end.                      *)
(***************************************************************************)

\* A step of run c advances it, or its call of anchor_manifest.
LEMMA CliAdvances ==
  ASSUME IssuerTypeOK, NEW c \in Calls, RunStep(c)
  PROVE  \/ RunStepsLeft[cli'[c]] < RunStepsLeft[cli[c]]
         \/ UNCHANGED cliVars /\ CallStep(c)
<1>1. \/ UNCHANGED cliVars /\ CallStep(c)
      \/ \E from \in Running \union {"off"}, to \in CLIs :
           At(c, from, to) /\ RunStepsLeft[to] < RunStepsLeft[from]
  <2>1. CASE CallAnchor(c) \/ Anchoring(c) \/ PollRaises(c) \/ Clock(c)
    BY <2>1 DEF CallAnchor, Anchoring, PollRaises, Clock, CallStep
  <2>2. CASE Kill(c)
    BY <2>2 DEF Kill, At, Running, CLIs, RunStepsLeft
  <2>3. CASE ~(\/ CallAnchor(c) \/ Anchoring(c) \/ PollRaises(c) \/ Clock(c) \/ Kill(c))
    BY <2>3, SMTT(60)
    DEF RunStep, Run, Start, SetupFails, SetupSucceeds, Stamp, StampFails, AnchorFails,
        OpenOutput, OpenFails, WriteOutput, WriteFails, Report, Exit, At, Running, CLIs,
        RunStepsLeft
  <2> QED
    BY <2>1, <2>2, <2>3
<1> QED
  BY <1>1 DEF At, IssuerTypeOK

\* A run is changed 62 times at most, those of its call included, whatever the
\* TSAs, the networks and the disk do, and whatever other runs do meanwhile.
THEOREM RunsOnlyAdvance == IssuerSpec => RunsAdvance
<1> DEFINE Advances ==
      \A c \in Calls : RunState(c)' # RunState(c) => RunRemaining(c)' < RunRemaining(c)
<1>1. IssuerInv /\ IssuerInv' /\ [IssuerNext]_issuerVars => Advances
  <2> SUFFICES ASSUME IssuerInv, IssuerInv', [IssuerNext]_issuerVars, NEW c \in Calls,
                      RunState(c)' # RunState(c)
               PROVE  RunRemaining(c)' < RunRemaining(c)
    OBVIOUS
  <2>1. TypeOK /\ TypeOK' /\ IssuerTypeOK /\ IssuerTypeOK'
    BY DEF IssuerInv, IInv
  <2>2. ASSUME NEW d \in Calls, RunStep(d), d # c PROVE FALSE
    <3>1. CallState(c)' = CallState(c)
      BY <2>1, <2>2, AnchorPart, OthersKeep
    <3> QED
      BY <2>1, <2>2, <3>1, OneRunSteps DEF RunState
  <2>3. ~IssuerNetwork /\ ~UNCHANGED issuerVars
    <3>1. (Network \/ UNCHANGED vars) => CallState(c)' = CallState(c)
      BY <2>1, OthersKeep
    <3> QED
      BY <3>1 DEF IssuerNetwork, issuerVars, cliVars, RunState
  <2>4. RunStep(c)
    BY <2>2, <2>3 DEF IssuerNext, AllOver, RunStep
  <2>5. Remaining(c) \in 0..8 /\ Remaining(c)' \in 0..8
    <3>1. /\ pc'[c] \in PCs /\ StepsLeft[pc'[c]] \in 0..8
          /\ pc'[c] = "poll" => StepsLeft[pc'[c]] = 2
      BY <2>1 DEF TypeOK, PCs, StepsLeft
    <3>2. Remaining(c)' \in 0..8
      BY <3>1 DEF Remaining
    <3> QED
      BY <2>1, <3>2, RemainingBounds
  <2>6. RunStepsLeft[cli[c]] \in 0..6 /\ RunStepsLeft[cli'[c]] \in 0..6
    BY <2>1 DEF IssuerTypeOK, CLIs, RunStepsLeft
  <2>7. CASE RunStepsLeft[cli'[c]] < RunStepsLeft[cli[c]]
    BY <2>5, <2>6, <2>7 DEF RunRemaining
  <2>8. CASE UNCHANGED cliVars /\ CallStep(c)
    <3>1. ~PollAgain(c)
      <4>1. PollAgain(c) => CallState(c)' = CallState(c)
        BY <2>1, OthersKeep
      <4> QED
        BY <2>8, <4>1 DEF cliVars, RunState
    <3>2. Remaining(c)' < Remaining(c)
      BY <2>1, <2>8, <3>1, StepAdvances
    <3> QED
      BY <2>5, <2>6, <2>8, <3>2 DEF RunRemaining, cliVars
  <2> QED
    BY <2>1, <2>4, <2>7, <2>8, CliAdvances
<1>2. IssuerInv /\ IssuerInv' /\ [IssuerNext]_issuerVars => [Advances]_issuerVars
  BY <1>1
<1> QED
  BY <1>2, IssuerIsSafe, PTL DEF IssuerSpec, RunsAdvance
=============================================================================
