----------------------------- MODULE AnchorProofs -----------------------------
(***************************************************************************)
(* Theorems about module Anchor, for any set of calls, hashes and profile  *)
(* lengths and any Validity and MaxRound.                                  *)
(***************************************************************************)
EXTENDS AnchorCommitment, TLAPS

USE DEF ALGORAND_NOTE_MAX_BYTES

-------------------------------------------------------------------------------
(***************************************************************************)
(* Type correctness.                                                       *)
(***************************************************************************)

\* The initial state is well typed.
LEMMA InitType == Init => TypeOK
BY AlgodAssumption
   DEF Init, AlgodInit, TypeOK, Networks, PCs

\* The networks keep the types.
LEMMA NetworkType == TypeOK /\ Network => TypeOK'
<1> SUFFICES ASSUME TypeOK, AlgodStep, UNCHANGED callVars PROVE TypeOK'
  BY DEF Network
<1> USE DEF TypeOK, callVars
<1>1. CASE \E n \in Networks : NewRound(n)
  <2> PICK n \in Networks : NewRound(n)
    BY <1>1
  <2>1. round' \in [Networks -> 1..MaxRound]
    BY AlgodAssumption DEF NewRound
  <2>2. ledger' \subseteq Entries
    BY AlgodAssumption DEF NewRound, Entries, OnLedger
  <2> QED
    BY <2>1, <2>2 DEF NewRound
<1>2. CASE \E t \in accepted : Evict(t)
  BY <1>2 DEF Evict
<1> QED
  BY <1>1, <1>2 DEF AlgodStep

\* The transaction a call builds, and the record and the errors it makes, are
\* of their types.
LEMMA RequestFacts ==
  ASSUME TypeOK, NEW c \in Calls, req[c] # None
  PROVE  /\ req[c] \in Requests
         /\ NoteOf(c) \in Notes
         /\ ClientNet(c) \in Networks
         /\ NetworkForMode(req[c].mode) \in Networks
         /\ Unsigned(c) \in Txns
BY DEF TypeOK, Requests, Notes, NoteOf, ClientNet, NetworkForMode, DefaultAlgodNet, Networks,
       Unsigned, Txns

LEMMA RecordType ==
  ASSUME TypeOK, NEW c \in Calls, req[c] # None,
         NEW id \in Txns \union {None}, NEW r \in 0..MaxRound
  PROVE  AnchorRecord(c, id, r) \in Records
BY RequestFacts DEF AnchorRecord, Records

LEMMA ErrorType ==
  ASSUME NEW stage \in Stages, NEW class \in {"AnchorError", "RuntimeError"},
         NEW id \in Txns \union {None}
  PROVE  [stage |-> stage, class |-> class, txid |-> id] \in Errors
BY DEF Errors

\* A call's own steps keep the types.
LEMMA CallType ==
  ASSUME TypeOK, NEW c \in Calls,
         Call(c) \/ Progress(c) \/ PollFails(c) \/ DeadlinePasses(c),
         CallInv(c)
  PROVE  TypeOK'
<1> USE DEF TypeOK, PCs, Stages, Go, Return, Raise, algodVars
<1>a. /\ pc[c] # "idle" => req[c] # None
      /\ pc[c] \in {"send", "poll"} => txn[c] \in Txns
      /\ pc[c] = "poll" => txid[c] \in Txns
  BY DEF CallInv
<1>b. ASSUME req[c] # None, NEW id \in Txns \union {None}
      PROVE  AnchorRecord(c, id, 0) \in Records
  <2>1. 0 \in 0..MaxRound
    BY AlgodAssumption
  <2> QED
    BY ONLY TypeOK, c \in Calls, <1>b, <2>1, RecordType
<1>1. CASE Call(c)
  BY <1>1 DEF Call
<1>2. CASE RefuseNote(c)
  BY <1>2, ErrorType DEF RefuseNote
<1>3. CASE ReturnDraft(c)
  <2>1. AnchorRecord(c, None, 0) \in Records
    BY <1>3, <1>a, <1>b DEF ReturnDraft
  <2> QED
    BY <1>3, <2>1 DEF ReturnDraft
<1>4. CASE StartSubmission(c)
  BY <1>4 DEF StartSubmission
<1>5. CASE ParamsAnswer(c)
  BY <1>5, <1>a, RequestFacts DEF ParamsAnswer
<1>6. CASE ParamsFail(c)
  BY <1>6, ErrorType DEF ParamsFail
<1>7. CASE BuildTransaction(c)
  BY <1>7, <1>a, RequestFacts DEF BuildTransaction
<1>8. CASE AddressFails(c)
  BY <1>8, ErrorType DEF AddressFails
<1>9. CASE Sign(c)
  BY <1>9 DEF Sign
<1>10. CASE SignFails(c)
  BY <1>10, ErrorType DEF SignFails
<1>11. CASE Send(c)
  <2>1. pc[c] = "send"
    BY <1>11 DEF Send
  <2>2. req[c] # None /\ txn[c] \in Txns \union {None}
    BY <1>a, <2>1
  <2>3. AnchorRecord(c, txn[c], 0) \in Records
    BY ONLY <1>b, <2>2
  <2>4. record' \in [Calls -> Records \union {None}] /\ UNCHANGED error
    BY <1>11, <2>3 DEF Send
  <2>5. pc' \in [Calls -> PCs]
    BY <1>11 DEF Send
  <2>6. txn[c] \in Txns /\ accepted' \subseteq Txns /\ rejected' \subseteq accepted'
    BY <1>11, <1>a, <2>1 DEF Send, Submit
  <2>7. txid' \in [Calls -> Txns \union {None}]
    BY <1>11, <2>6 DEF Send
  <2> QED
    BY <1>11, <2>4, <2>5, <2>6, <2>7 DEF Send, Submit
<1>12. CASE SendAnswerLost(c)
  BY <1>12, <1>a, ErrorType DEF SendAnswerLost, Submit
<1>13. CASE SendFails(c)
  BY <1>13, ErrorType DEF SendFails
<1>14. CASE PollConfirmed(c)
  <2>1. PICK r \in 1..MaxRound : Return(c, AnchorRecord(c, txid[c], r))
    BY <1>14 DEF PollConfirmed
  <2>2. AnchorRecord(c, txid[c], r) \in Records
    BY <1>14, <1>a, RecordType, AlgodAssumption DEF PollConfirmed
  <2> QED
    BY <1>14, <2>1, <2>2 DEF PollConfirmed
<1>15. CASE PollRejected(c)
  BY <1>15, <1>a, ErrorType DEF PollRejected
<1>16. CASE PollTimesOut(c)
  BY <1>16, <1>a, ErrorType DEF PollTimesOut
<1>17. CASE PollAgain(c)
  BY <1>17 DEF PollAgain, vars, callVars
<1>18. CASE PollFails(c)
  BY <1>18, <1>a, ErrorType DEF PollFails
<1>19. CASE DeadlinePasses(c)
  BY <1>19 DEF DeadlinePasses
<1> QED
  BY <1>1, <1>2, <1>3, <1>4, <1>5, <1>6, <1>7, <1>8, <1>9, <1>10, <1>11, <1>12,
     <1>13, <1>14, <1>15, <1>16, <1>17, <1>18, <1>19 DEF Progress

-------------------------------------------------------------------------------
(***************************************************************************)
(* The inductive invariant.                                                *)
(***************************************************************************)

LEMMA InitIInv == Init => IInv
<1> SUFFICES ASSUME Init PROVE IInv
  OBVIOUS
<1>1. TypeOK
  BY InitType
<1>2. LedgerInv
  BY DEF Init, AlgodInit, LedgerInv, OnLedger
<1>3. \A c \in Calls : CallInv(c)
  BY DEF Init, CallInv
<1>4. EverySubmissionHasACall /\ SubmissionIsNamed
  BY DEF Init, AlgodInit, EverySubmissionHasACall, SubmissionIsNamed
<1> QED
  BY <1>1, <1>2, <1>3, <1>4 DEF IInv

\* What a call knows stays true while it stands still and the networks only
\* accept and confirm more.
LEMMA StandingStill ==
  ASSUME NEW d \in Calls, CallInv(d),
         pc'[d] = pc[d], req'[d] = req[d], txn'[d] = txn[d], txid'[d] = txid[d],
         record'[d] = record[d], error'[d] = error[d],
         accepted \subseteq accepted', ledger \subseteq ledger'
  PROVE  CallInv(d)'
BY DEF CallInv, Submits, ClientNet, NoteOf, ReturnedInv, ConfirmedIn

LEMMA NetworkIInv == IInv /\ Network => IInv'
<1> SUFFICES ASSUME IInv, Network PROVE IInv'
  OBVIOUS
<1> USE DEF IInv
<1>1. TypeOK'
  BY NetworkType
<1>2. accepted' = accepted /\ ledger \subseteq ledger' /\ UNCHANGED callVars
  BY DEF Network, AlgodStep, NewRound, Evict
<1>3. \A c \in Calls : CallInv(c)'
  BY <1>2, StandingStill DEF callVars
<1>4. LedgerInv'
  <2>1. CASE \E n \in Networks : NewRound(n)
    <3> PICK n \in Networks : NewRound(n)
      BY <2>1
    <3> PICK block \in SUBSET {t \in accepted \ OnLedger :
                                 /\ t.net = n
                                 /\ round[n] < t.first + Validity} :
           ledger' = ledger \union {[txn |-> t, round |-> round[n] + 1] : t \in block}
      BY DEF NewRound
    <3>1. round' = [round EXCEPT ![n] = @ + 1] /\ round[n] \in Nat
      BY AlgodAssumption DEF NewRound, TypeOK
    <3>2. \A e \in ledger : e.txn.net \in Networks /\ round[e.txn.net] \in Nat
                            /\ e.round \in Nat
      BY AlgodAssumption DEF TypeOK, Entries, Txns
    <3>3. (OnLedger \subseteq accepted)'
      BY <1>2 DEF LedgerInv, OnLedger
    <3>4. (\A e \in ledger : e.round <= round[e.txn.net])'
      BY <3>1, <3>2 DEF LedgerInv, TypeOK
    <3>5. (\A e, f \in ledger : e.txn = f.txn => e = f)'
      BY DEF LedgerInv, OnLedger
    <3> QED
      BY <3>3, <3>4, <3>5 DEF LedgerInv
  <2>2. CASE \E t \in accepted : Evict(t)
    BY <2>2 DEF Evict, LedgerInv, OnLedger
  <2> QED
    BY <2>1, <2>2 DEF Network, AlgodStep
<1>5. EverySubmissionHasACall' /\ SubmissionIsNamed'
  BY <1>2 DEF callVars, EverySubmissionHasACall, SubmissionIsNamed, HasSent
<1> QED
  BY <1>1, <1>3, <1>4, <1>5

CallStep(c) == Call(c) \/ Progress(c) \/ PollFails(c) \/ DeadlinePasses(c)

\* A step of call c leaves the other calls alone, closes no block and takes
\* nothing back from the nodes.
LEMMA OneCallSteps ==
  ASSUME TypeOK, NEW c \in Calls, CallStep(c)
  PROVE  /\ \A d \in Calls \ {c} :
              /\ pc'[d] = pc[d] /\ req'[d] = req[d] /\ txn'[d] = txn[d]
              /\ txid'[d] = txid[d] /\ record'[d] = record[d] /\ error'[d] = error[d]
              /\ first'[d] = first[d] /\ late'[d] = late[d]
         /\ ledger' = ledger /\ round' = round
         /\ accepted \subseteq accepted'
<1> USE DEF TypeOK, Go, Return, Raise, algodVars
<1>1. CASE Call(c)
  BY <1>1 DEF Call
<1>2. CASE RefuseNote(c)
  BY <1>2 DEF RefuseNote
<1>3. CASE ReturnDraft(c)
  BY <1>3 DEF ReturnDraft
<1>4. CASE StartSubmission(c)
  BY <1>4 DEF StartSubmission
<1>5. CASE ParamsAnswer(c)
  BY <1>5 DEF ParamsAnswer
<1>6. CASE ParamsFail(c)
  BY <1>6 DEF ParamsFail
<1>7. CASE BuildTransaction(c)
  BY <1>7 DEF BuildTransaction
<1>8. CASE AddressFails(c)
  BY <1>8 DEF AddressFails
<1>9. CASE Sign(c)
  BY <1>9 DEF Sign
<1>10. CASE SignFails(c)
  BY <1>10 DEF SignFails
<1>11. CASE Send(c)
  BY <1>11 DEF Send, Submit
<1>12. CASE SendAnswerLost(c)
  BY <1>12 DEF SendAnswerLost, Submit
<1>13. CASE SendFails(c)
  BY <1>13 DEF SendFails
<1>14. CASE PollConfirmed(c)
  BY <1>14 DEF PollConfirmed
<1>15. CASE PollRejected(c)
  BY <1>15 DEF PollRejected
<1>16. CASE PollTimesOut(c)
  BY <1>16 DEF PollTimesOut
<1>17. CASE PollAgain(c)
  BY <1>17 DEF PollAgain, vars, callVars
<1>18. CASE PollFails(c)
  BY <1>18 DEF PollFails
<1>19. CASE DeadlinePasses(c)
  BY <1>19 DEF DeadlinePasses
<1> QED
  BY <1>1, <1>2, <1>3, <1>4, <1>5, <1>6, <1>7, <1>8, <1>9, <1>10, <1>11, <1>12, <1>13, <1>14, <1>15, <1>16, <1>17, <1>18, <1>19
     DEF CallStep, Progress

\* An error that names the transaction of its call, where it must, leaves the
\* call in the state its invariant describes.
LEMMA RaiseCallInv ==
  ASSUME TypeOK, NEW c \in Calls, CallInv(c), pc[c] \notin {"idle"} \union Final,
         NEW from, Go(c, from, "raised"),
         NEW stage \in Stages, NEW class \in {"AnchorError", "RuntimeError"},
         NEW id \in Txns \union {None}, Raise(c, stage, class, id),
         stage \in {"poll", "pool", "timeout"} => id = txn[c],
         UNCHANGED <<req, txn>>
  PROVE  CallInv(c)'
<1>1. [stage |-> stage, class |-> class, txid |-> id] # None
  BY ErrorType, AnchorAssumption
<1>2. /\ pc'[c] = "raised" /\ req'[c] = req[c] /\ txn'[c] = txn[c]
      /\ record'[c] = record[c]
      /\ error'[c] = [stage |-> stage, class |-> class, txid |-> id]
  BY DEF TypeOK, Go, Raise
<1>3. NoteOf(c)' = NoteOf(c) /\ ClientNet(c)' = ClientNet(c) /\ (Submits(c)' <=> Submits(c))
  BY <1>2 DEF NoteOf, ClientNet, Submits
<1>4. pc[c] # "idle" /\ pc[c] # "returned"
  BY DEF Final
<1> QED
  BY <1>1, <1>2, <1>3, <1>4 DEF CallInv

\* A record that meets ReturnedInv leaves the call in the state its invariant
\* describes.
LEMMA ReturnCallInv ==
  ASSUME TypeOK, NEW c \in Calls, CallInv(c), pc[c] \notin {"idle"} \union Final,
         pc'[c] = "returned",
         record'[c] \in Records, error' = error, ReturnedInv(c)',
         UNCHANGED <<req, txn>>
  PROVE  CallInv(c)'
<1>1. record'[c] # None
  BY AnchorAssumption
<1>2. NoteOf(c)' = NoteOf(c) /\ ClientNet(c)' = ClientNet(c) /\ (Submits(c)' <=> Submits(c))
  BY DEF NoteOf, ClientNet, Submits
<1>3. pc[c] # "idle" /\ pc[c] # "raised"
  BY DEF Final
<1> QED
  BY <1>1, <1>2, <1>3 DEF CallInv

\* A step of call c keeps what c knows.
LEMMA StepCallInv ==
  ASSUME TypeOK, LedgerInv, NEW c \in Calls, CallInv(c), CallStep(c)
  PROVE  CallInv(c)'
<1>a. ASSUME req'[c] = req[c]
      PROVE  /\ NoteOf(c)' = NoteOf(c)
             /\ ClientNet(c)' = ClientNet(c)
             /\ Submits(c)' <=> Submits(c)
  BY <1>a DEF NoteOf, ClientNet, Submits
<1>1. CASE Call(c)
  <2>1. /\ pc[c] = "idle" /\ pc'[c] = "called" /\ req'[c] \in Requests
        /\ txn'[c] = txn[c] /\ record'[c] = record[c] /\ error'[c] = error[c]
    BY <1>1 DEF Call, Go, TypeOK
  <2> QED
    BY <2>1, AnchorAssumption DEF CallInv
<1>2. CASE RefuseNote(c)
  BY <1>2, RaiseCallInv DEF RefuseNote, Go, Final, Stages
<1>3. CASE ReturnDraft(c)
  <2>1. /\ pc[c] = "called" /\ pc'[c] = "returned"
        /\ record'[c] = AnchorRecord(c, None, 0)
        /\ req[c].mode = "DRAFT"
        /\ UNCHANGED <<req, txn, error>>
    BY <1>3 DEF ReturnDraft, Go, Return, TypeOK
  <2>2. AnchorRecord(c, None, 0) \in Records
    <3>1. req[c] # None /\ 0 \in 0..MaxRound
      BY <2>1, AlgodAssumption DEF CallInv
    <3> QED
      BY <3>1, RecordType
  <2>3. ReturnedInv(c)'
    BY <2>1, <1>a DEF ReturnedInv, AnchorRecord
  <2> QED
    BY <2>1, <2>2, <2>3, ReturnCallInv DEF Final
<1>4. CASE StartSubmission(c)
  <2>1. /\ pc[c] = "called" /\ pc'[c] = "params" /\ req'[c] = req[c]
        /\ txn'[c] = txn[c] /\ record'[c] = record[c] /\ error'[c] = error[c]
        /\ Submits(c)
    BY <1>4 DEF StartSubmission, Go, TypeOK, Submits
  <2> QED
    BY <2>1, <1>a DEF CallInv
<1>5. CASE ParamsAnswer(c)
  <2>1. /\ pc[c] = "params" /\ pc'[c] = "build" /\ req'[c] = req[c]
        /\ txn'[c] = txn[c] /\ record'[c] = record[c] /\ error'[c] = error[c]
    BY <1>5 DEF ParamsAnswer, Go, TypeOK
  <2> QED
    BY <2>1, <1>a DEF CallInv
<1>6. CASE ParamsFail(c)
  BY <1>6, RaiseCallInv DEF ParamsFail, Go, Final, Stages
<1>7. CASE BuildTransaction(c)
  <2>1. /\ pc[c] = "build" /\ pc'[c] = "sign" /\ req'[c] = req[c]
        /\ txn'[c] = Unsigned(c) /\ record'[c] = record[c] /\ error'[c] = error[c]
    BY <1>7 DEF BuildTransaction, Go, TypeOK
  <2>2. Unsigned(c) # None /\ Unsigned(c).net = ClientNet(c) /\ Unsigned(c).note = NoteOf(c)
    <3>1. req[c] # None
      BY <2>1 DEF CallInv
    <3>2. Unsigned(c) \in Txns
      BY <3>1, RequestFacts
    <3> QED
      BY <3>2, AnchorAssumption DEF Unsigned
  <2> QED
    BY <2>1, <2>2, <1>a DEF CallInv
<1>8. CASE AddressFails(c)
  BY <1>8, RaiseCallInv DEF AddressFails, Go, Final, Stages
<1>9. CASE Sign(c)
  <2>1. /\ pc[c] = "sign" /\ pc'[c] = "send" /\ req'[c] = req[c]
        /\ txn'[c] = txn[c] /\ record'[c] = record[c] /\ error'[c] = error[c]
    BY <1>9 DEF Sign, Go, TypeOK
  <2> QED
    BY <2>1, <1>a DEF CallInv
<1>10. CASE SignFails(c)
  BY <1>10, RaiseCallInv DEF SignFails, Go, Final, Stages
<1>11. CASE Send(c)
  <2>1. /\ pc[c] = "send" /\ txn[c] \in accepted' /\ txid'[c] = txn[c]
        /\ UNCHANGED <<req, txn, error>>
    BY <1>11 DEF Send, Submit, Go, Return, TypeOK
  <2>2. txn[c] # None /\ Submits(c)
    BY <2>1 DEF CallInv
  <2>3. CASE req[c].wait
    <3>1. pc'[c] = "poll" /\ record' = record
      BY <1>11, <2>3 DEF Send, Go, TypeOK
    <3> QED
      BY <2>1, <2>2, <2>3, <3>1, <1>a DEF CallInv
  <2>4. CASE ~req[c].wait
    <3>1. pc'[c] = "returned" /\ record'[c] = AnchorRecord(c, txn[c], 0)
      BY <1>11, <2>4 DEF Send, Go, Return, TypeOK
    <3>2. AnchorRecord(c, txn[c], 0) \in Records
      <4>1. req[c] # None /\ 0 \in 0..MaxRound /\ txn[c] \in Txns \union {None}
        BY <2>1, AlgodAssumption DEF CallInv, TypeOK
      <4> QED
        BY <4>1, RecordType
    <3>3. ReturnedInv(c)'
      BY <2>1, <2>2, <2>4, <3>1, <1>a DEF ReturnedInv, AnchorRecord
    <3> QED
      BY <2>1, <3>1, <3>2, <3>3, ReturnCallInv DEF Final
  <2> QED
    BY <2>3, <2>4
<1>12. CASE SendAnswerLost(c)
  BY <1>12, RaiseCallInv DEF SendAnswerLost, Go, Final, Stages
<1>13. CASE SendFails(c)
  BY <1>13, RaiseCallInv DEF SendFails, Go, Final, Stages
<1>14. CASE PollConfirmed(c)
  <2>1. /\ pc[c] = "poll" /\ pc'[c] = "returned"
        /\ UNCHANGED <<req, txn, error, accepted, ledger>>
    BY <1>14 DEF PollConfirmed, Go, Return, TypeOK, algodVars
  <2>2. PICK r \in 1..MaxRound : /\ ConfirmedIn(txid[c], r)
                                 /\ record'[c] = AnchorRecord(c, txid[c], r)
    BY <1>14 DEF PollConfirmed, Return, TypeOK
  <2>3. txid[c] = txn[c] /\ txn[c] # None /\ txn[c] \in accepted /\ Submits(c) /\ req[c] # None
    BY <2>1 DEF CallInv
  <2>4. AnchorRecord(c, txid[c], r) \in Records
    <3>1. r \in 0..MaxRound /\ txid[c] \in Txns \union {None}
      BY AlgodAssumption DEF TypeOK
    <3> QED
      BY <3>1, <2>3, RecordType
  <2>5. r # 0
    OBVIOUS
  <2>6. ReturnedInv(c)'
    BY <2>1, <2>2, <2>3, <2>5, <1>a DEF ReturnedInv, AnchorRecord, ConfirmedIn
  <2> QED
    BY <2>1, <2>2, <2>4, <2>6, ReturnCallInv DEF Final
<1>b. pc[c] = "poll" => txid[c] = txn[c] /\ txid[c] \in Txns \union {None}
  BY DEF CallInv, TypeOK
<1>15. CASE PollRejected(c)
  BY <1>15, <1>b, RaiseCallInv DEF PollRejected, Go, Final, Stages
<1>16. CASE PollTimesOut(c)
  BY <1>16, <1>b, RaiseCallInv DEF PollTimesOut, Go, Final, Stages
<1>17. CASE PollAgain(c)
  BY <1>17, StandingStill DEF PollAgain, vars, callVars, algodVars
<1>18. CASE PollFails(c)
  BY <1>18, <1>b, RaiseCallInv DEF PollFails, Go, Final, Stages
<1>19. CASE DeadlinePasses(c)
  BY <1>19, StandingStill DEF DeadlinePasses, algodVars
<1> QED
  BY <1>1, <1>2, <1>3, <1>4, <1>5, <1>6, <1>7, <1>8, <1>9, <1>10, <1>11, <1>12,
     <1>13, <1>14, <1>15, <1>16, <1>17, <1>18, <1>19 DEF CallStep, Progress

\* Only the two ways out of send_transaction that the node accepts add to what
\* the nodes accepted, and they add the transaction of their call.
LEMMA StepAccepts ==
  ASSUME NEW c \in Calls, CallStep(c)
  PROVE  \/ accepted' = accepted
         \/ /\ Send(c) \/ SendAnswerLost(c)
            /\ accepted' = accepted \union {txn[c]}
<1> USE DEF algodVars
<1>1. CASE Send(c) \/ SendAnswerLost(c)
  BY <1>1 DEF Send, SendAnswerLost, Submit
<1>2. CASE ~(Send(c) \/ SendAnswerLost(c))
  BY <1>2 DEF CallStep, Progress, Call, RefuseNote, ReturnDraft, StartSubmission,
     ParamsAnswer, ParamsFail, BuildTransaction, AddressFails, Sign, SignFails,
     SendFails, PollConfirmed, PollRejected, PollTimesOut, PollAgain, PollFails,
     DeadlinePasses, vars
<1> QED
  BY <1>1, <1>2

\* What became of transaction t in call c, as SubmissionIsNamed says it.
Named(c, t) ==
  \/ pc[c] = "poll" /\ txid[c] = t
  \/ pc[c] = "returned" /\ record[c].txid = t
  \/ pc[c] = "raised" /\ error[c].txid = t
  \/ pc[c] = "raised" /\ error[c].stage = "send" /\ txn[c] = t

\* A call that has sent t, and can name it, still has and can after its step.
LEMMA StepNames ==
  ASSUME TypeOK, NEW c \in Calls, CallInv(c), CallStep(c), NEW t \in Txns
  PROVE  /\ (txn[c] = t /\ HasSent(c)) => (txn[c] = t /\ HasSent(c))'
         /\ Named(c, t) => Named(c, t)'
<1> SUFFICES ASSUME pc[c] \in {"poll"} \union Final
             PROVE  /\ (txn[c] = t /\ HasSent(c)) => (txn[c] = t /\ HasSent(c))'
                    /\ Named(c, t) => Named(c, t)'
  BY DEF HasSent, Named, Final
<1> USE DEF TypeOK, Go, Return, Raise, algodVars, HasSent, Named
<1>1. CASE DeadlinePasses(c) \/ PollAgain(c)
  BY <1>1 DEF DeadlinePasses, PollAgain, vars, callVars
<1>2. CASE PollConfirmed(c)
  <2>1. /\ pc[c] = "poll" /\ pc'[c] = "returned" /\ txn'[c] = txn[c]
        /\ record'[c].txid = txid[c]
    BY <1>2 DEF PollConfirmed, AnchorRecord
  <2>2. txid[c] = txn[c] /\ txn[c] # None
    BY <2>1 DEF CallInv
  <2> QED
    BY <2>1, <2>2
<1>3. CASE PollRejected(c) \/ PollTimesOut(c) \/ PollFails(c)
  <2>1. /\ pc[c] = "poll" /\ pc'[c] = "raised" /\ txn'[c] = txn[c]
        /\ error'[c].txid = txid[c] /\ error'[c].stage \in {"pool", "timeout", "poll"}
    BY <1>3 DEF PollRejected, PollTimesOut, PollFails
  <2> QED
    BY <2>1
<1>4. ~(\/ DeadlinePasses(c) \/ PollAgain(c) \/ PollConfirmed(c)
        \/ PollRejected(c) \/ PollTimesOut(c) \/ PollFails(c)) => FALSE
  BY DEF CallStep, Progress, Call, RefuseNote, ReturnDraft, StartSubmission,
     ParamsAnswer, ParamsFail, BuildTransaction, AddressFails, Sign, SignFails,
     Send, SendAnswerLost, SendFails, Final
<1> QED
  BY <1>1, <1>2, <1>3, <1>4

\* A call that hands its transaction to a node has sent it and can name it, or
\* has lost the answer.
LEMMA SubmitterNames ==
  ASSUME TypeOK, NEW c \in Calls, CallInv(c), Send(c) \/ SendAnswerLost(c)
  PROVE  txn'[c] = txn[c] /\ HasSent(c)' /\ Named(c, txn[c])'
<1> USE DEF TypeOK, Go, Return, Raise, HasSent, Named
<1>1. CASE Send(c)
  <2>1. /\ pc[c] = "send" /\ txn'[c] = txn[c] /\ txid'[c] = txn[c]
        /\ pc'[c] = "poll" \/ pc'[c] = "returned"
    BY <1>1 DEF Send
  <2>2. pc'[c] = "returned" => record'[c].txid = txn[c]
    BY <1>1 DEF Send, AnchorRecord
  <2>3. txn[c] # None
    BY <2>1 DEF CallInv
  <2> QED
    BY <2>1, <2>2, <2>3
<1>2. CASE SendAnswerLost(c)
  BY <1>2 DEF SendAnswerLost
<1> QED
  BY <1>1, <1>2

LEMMA CallIInv ==
  ASSUME IInv, NEW c \in Calls, CallStep(c)
  PROVE  IInv'
<1> USE DEF IInv
<1>1. TypeOK'
  BY CallType DEF CallStep
<1>2. \A d \in Calls : CallInv(d)'
  <2> SUFFICES ASSUME NEW d \in Calls PROVE CallInv(d)'
    OBVIOUS
  <2>1. CASE d = c
    BY <2>1, StepCallInv
  <2>2. CASE d # c
    BY <2>2, OneCallSteps, StandingStill
  <2> QED
    BY <2>1, <2>2
<1>3. LedgerInv'
  BY OneCallSteps DEF LedgerInv, OnLedger
<1>4. \A t \in accepted' : t \in accepted \/ (txn[c] = t /\ (Send(c) \/ SendAnswerLost(c)))
  BY StepAccepts
<1>5. EverySubmissionHasACall'
  <2> SUFFICES ASSUME NEW t \in accepted'
               PROVE  \E d \in Calls : (txn[d] = t /\ HasSent(d))'
    BY DEF EverySubmissionHasACall
  <2>1. CASE txn[c] = t /\ (Send(c) \/ SendAnswerLost(c))
    BY <2>1, SubmitterNames
  <2>2. CASE t \in accepted
    <3> PICK d \in Calls : txn[d] = t /\ HasSent(d)
      BY <2>2 DEF EverySubmissionHasACall
    <3>1. CASE d = c
      BY <3>1, <2>2, StepNames DEF TypeOK
    <3>2. CASE d # c
      BY <3>2, OneCallSteps DEF HasSent
    <3> QED
      BY <3>1, <3>2
  <2> QED
    BY <1>4, <2>1, <2>2
<1>6. SubmissionIsNamed'
  <2> SUFFICES ASSUME NEW t \in accepted'
               PROVE  \E d \in Calls : Named(d, t)'
    BY DEF SubmissionIsNamed, Named
  <2>1. CASE txn[c] = t /\ (Send(c) \/ SendAnswerLost(c))
    BY <2>1, SubmitterNames
  <2>2. CASE t \in accepted
    <3> PICK d \in Calls : Named(d, t)
      BY <2>2 DEF SubmissionIsNamed, Named
    <3>1. CASE d = c
      BY <3>1, <2>2, StepNames DEF TypeOK
    <3>2. CASE d # c
      BY <3>2, OneCallSteps DEF Named
    <3> QED
      BY <3>1, <3>2
  <2> QED
    BY <1>4, <2>1, <2>2
<1> QED
  BY <1>1, <1>2, <1>3, <1>5, <1>6

LEMMA NextIInv == IInv /\ [Next]_vars => IInv'
<1> SUFFICES ASSUME IInv, [Next]_vars PROVE IInv'
  OBVIOUS
<1>1. CASE \E c \in Calls : CallStep(c)
  BY <1>1, CallIInv
<1>2. CASE Network
  BY <1>2, NetworkIInv
<1>3. CASE UNCHANGED vars
  BY <1>3 DEF vars, callVars, algodVars, IInv, TypeOK, LedgerInv, OnLedger, CallInv,
     Submits, ReturnedInv, NoteOf, ClientNet, ConfirmedIn, EverySubmissionHasACall,
     HasSent, SubmissionIsNamed
<1> QED
  BY <1>1, <1>2, <1>3 DEF Next, CallStep, AllEnded

\* IInv is an invariant of the specification.
THEOREM Invariance == Spec => []IInv
BY InitIInv, NextIInv, PTL DEF Spec

-------------------------------------------------------------------------------
(***************************************************************************)
(* The properties that follow.                                             *)
(***************************************************************************)

\* Every variable keeps its type.
THEOREM TypeCorrect == Spec => []TypeOK
<1>1. IInv => TypeOK
  BY DEF IInv
<1> QED
  BY <1>1, Invariance, PTL

\* What a record says is so.
THEOREM HonestRecords == Spec => []RecordIsHonest
<1>1. IInv => RecordIsHonest
  <2> SUFFICES ASSUME IInv, NEW c \in Calls, record[c] # None
               PROVE  /\ record[c].note = NoteOf(c)
                      /\ record[c].txid # None =>
                           /\ record[c].txid \in accepted
                           /\ record[c].txid.note = record[c].note
                      /\ record[c].round # 0 =>
                           /\ record[c].txid # None
                           /\ ConfirmedIn(record[c].txid, record[c].round)
    BY DEF RecordIsHonest
  <2> QED
    BY DEF IInv, CallInv, ReturnedInv
<1> QED
  BY <1>1, Invariance, PTL

\* A caller who waited holds a confirmed record or none.
THEOREM WaitedRecords == Spec => []WaitedRecordIsConfirmed
<1>1. IInv => WaitedRecordIsConfirmed
  BY DEF IInv, CallInv, ReturnedInv, Submits, WaitedRecordIsConfirmed
<1> QED
  BY <1>1, Invariance, PTL

\* No transaction without its call, and at most one for each call.
THEOREM SubmissionsHaveCalls == Spec => []EverySubmissionHasACall
<1>1. IInv => EverySubmissionHasACall
  BY DEF IInv
<1> QED
  BY <1>1, Invariance, PTL

\* A transaction is lost to its caller only with the answer to its submission.
THEOREM SubmissionsAreNamed == Spec => []SubmissionIsNamed
<1>1. IInv => SubmissionIsNamed
  BY DEF IInv
<1> QED
  BY <1>1, Invariance, PTL

\* Without a client of the caller's own, mode, record and ledger agree on the
\* network.
THEOREM RightNetwork == Spec => []DefaultClientRightNetwork
<1>1. IInv => DefaultClientRightNetwork
  <2> SUFFICES ASSUME IInv, NEW c \in Calls, txn[c] # None, req[c].client = None
               PROVE  /\ txn[c].net = "mainnet" <=> req[c].mode = "PRODUCTION"
                      /\ record[c] # None => record[c].net = txn[c].net
    BY DEF DefaultClientRightNetwork
  <2> QED
    BY DEF IInv, CallInv, ReturnedInv, ClientNet, NetworkForMode, DefaultAlgodNet
<1> QED
  BY <1>1, Invariance, PTL

-------------------------------------------------------------------------------
(***************************************************************************)
(* Every change of a call brings it nearer to its end.                     *)
(***************************************************************************)

\* What is left of a call is a natural number.
LEMMA RemainingBounds == TypeOK => \A c \in Calls : Remaining(c) \in 0..8
<1> SUFFICES ASSUME TypeOK, NEW c \in Calls PROVE Remaining(c) \in 0..8
  OBVIOUS
<1>1. pc[c] \in PCs /\ StepsLeft[pc[c]] \in 0..8 /\ (pc[c] = "poll" => StepsLeft[pc[c]] = 2)
  BY DEF TypeOK, PCs, StepsLeft
<1> QED
  BY <1>1 DEF Remaining

\* A step of a call that is not a poll to be repeated leaves less of it.
LEMMA StepAdvances ==
  ASSUME TypeOK, NEW c \in Calls, CallStep(c)
  PROVE  PollAgain(c) \/ Remaining(c)' < Remaining(c)
<1>1. CASE DeadlinePasses(c)
  <2>1. pc[c] = "poll" /\ pc'[c] = "poll" /\ ~late[c] /\ late'[c]
    BY <1>1 DEF DeadlinePasses, TypeOK
  <2> QED
    BY <2>1 DEF Remaining, StepsLeft
<1>2. ASSUME NEW from \in PCs \ {"poll"}, NEW to \in PCs, Go(c, from, to),
             StepsLeft[to] < StepsLeft[from]
      PROVE  Remaining(c)' < Remaining(c)
  <2>1. pc[c] = from /\ pc'[c] = to
    BY <1>2 DEF Go, TypeOK
  <2>2. Remaining(c) = StepsLeft[from] /\ StepsLeft[to] \in 0..8 /\ StepsLeft[from] \in 0..8
    BY <2>1 DEF Remaining, PCs, StepsLeft
  <2>3. Remaining(c)' \in {StepsLeft[to], StepsLeft[to] - 1}
    BY <2>1, <2>2 DEF Remaining
  <2> QED
    BY <1>2, <2>2, <2>3
<1>3. ASSUME NEW to \in Final, Go(c, "poll", to) PROVE Remaining(c)' < Remaining(c)
  <2>1. pc[c] = "poll" /\ pc'[c] \in Final
    BY <1>3 DEF Go, TypeOK
  <2> QED
    BY <2>1 DEF Remaining, StepsLeft, Final
<1>4. CASE PollConfirmed(c) \/ PollRejected(c) \/ PollTimesOut(c) \/ PollFails(c)
  BY <1>3, <1>4 DEF PollConfirmed, PollRejected, PollTimesOut, PollFails, Final
<1>5. CASE ~(\/ DeadlinePasses(c) \/ PollConfirmed(c) \/ PollRejected(c)
             \/ PollTimesOut(c) \/ PollFails(c) \/ PollAgain(c))
  <2>1. \E from \in PCs \ {"poll"}, to \in PCs :
          Go(c, from, to) /\ StepsLeft[to] < StepsLeft[from]
    BY <1>5, SMTT(60)
    DEF CallStep, Progress, Call, RefuseNote, ReturnDraft, StartSubmission, ParamsAnswer,
        ParamsFail, BuildTransaction, AddressFails, Sign, SignFails, Send, SendAnswerLost,
        SendFails, PCs, StepsLeft
  <2> QED
    BY <1>2, <2>1
<1> QED
  BY <1>1, <1>4, <1>5

\* A call that a step leaves alone keeps its state.
LEMMA OthersKeep ==
  ASSUME TypeOK, NEW c \in Calls, NEW d \in Calls,
         Network \/ UNCHANGED vars \/ (d # c /\ CallStep(d)) \/ PollAgain(c)
  PROVE  CallState(c)' = CallState(c)
<1>1. CASE Network \/ UNCHANGED vars \/ PollAgain(c)
  BY <1>1 DEF Network, vars, callVars, PollAgain, CallState
<1>2. CASE d # c /\ CallStep(d)
  BY <1>2, OneCallSteps DEF CallState
<1> QED
  BY <1>1, <1>2

\* A call is changed eight times at most, its caller's call included, whatever
\* the networks answer and however long they take.
THEOREM CallsOnlyAdvance == Spec => CallsAdvance
<1> DEFINE Advances ==
      \A c \in Calls : CallState(c)' # CallState(c) => Remaining(c)' < Remaining(c)
<1>1. IInv /\ [Next]_vars => Advances
  <2> SUFFICES ASSUME IInv, [Next]_vars, NEW c \in Calls, CallState(c)' # CallState(c)
               PROVE  Remaining(c)' < Remaining(c)
    OBVIOUS
  <2>1. TypeOK
    BY DEF IInv
  <2>2. CallStep(c)
    BY <2>1, OthersKeep DEF Next, AllEnded, CallStep
  <2> QED
    BY <2>1, <2>2, StepAdvances, OthersKeep
<1>2. IInv /\ [Next]_vars => [Advances]_vars
  BY <1>1
<1> QED
  BY <1>2, Invariance, PTL DEF Spec, CallsAdvance
=============================================================================
