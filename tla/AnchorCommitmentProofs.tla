------------------------ MODULE AnchorCommitmentProofs ------------------------
(***************************************************************************)
(* The calls of module Anchor keep the promise of module Commitment: the   *)
(* initial states map to initial ones, and every step to a step of the     *)
(* promise or to a stutter.                                                *)
(***************************************************************************)
EXTENDS AnchorProofs

barVars == <<askedBar, chainBar, answerBar>>

LEMMA InitPromise == Init => Promise!Init
BY DEF Init, AlgodInit, Promise!Init, askedBar, chainBar, answerBar, AnswerOf

\* What a call that was made asked for, and the commitment behind an entry.
LEMMA AskFacts ==
  ASSUME TypeOK, NEW c \in Calls, req[c] # None
  PROVE  /\ AskOf(c) \in Promise!Asks
         /\ AskOf(c) # None
         /\ askedBar[c] = AskOf(c)
         /\ AskOf(c).note = NoteOf(c)
         /\ Submits(c) => AskOf(c).net = ClientNet(c)
         /\ ~Submits(c) => AskOf(c).net = None
<1>1. NoteOf(c) \in Notes /\ ClientNet(c) \in Networks /\ req[c] \in Requests
  BY RequestFacts
<1>2. AskOf(c) \in Promise!Asks
  BY <1>1 DEF AskOf, Promise!Asks
<1>3. /\ Submits(c) => AskOf(c).net = ClientNet(c)
      /\ ~Submits(c) => AskOf(c).net = None
  <2>1. req[c].profile \in Nat
    BY <1>1, AnchorAssumption DEF Requests
  <2> QED
    BY <2>1 DEF AskOf, Submits, NoteLength, ALGORAND_NOTE_MAX_BYTES
<1> QED
  BY <1>2, <1>3, CommitmentAssumption DEF AskOf, askedBar

LEMMA EntryFacts ==
  ASSUME NEW e \in Entries
  PROVE  CommitmentOf(e) \in Promise!Commitments
BY AlgodAssumption DEF Entries, Txns, CommitmentOf, Promise!Commitments

\* The blocks hold what was asked for, one for one.
LEMMA ChainOwed == IInv => Promise!Owed(chainBar)
<1> SUFFICES ASSUME IInv PROVE Promise!Owed(chainBar)
  OBVIOUS
<1> USE DEF IInv
<1> DEFINE Sender(e) == CHOOSE c \in Calls : txn[c] = e.id /\ HasSent(c)
           owner == [e \in chainBar |-> Sender(e)]
<1>1. \A e \in chainBar : Sender(e) \in Calls /\ txn[Sender(e)] = e.id
  <2> SUFFICES ASSUME NEW e \in chainBar
               PROVE  \E c \in Calls : txn[c] = e.id /\ HasSent(c)
    OBVIOUS
  <2>1. e.id \in accepted
    BY DEF chainBar, CommitmentOf, LedgerInv, OnLedger
  <2> QED
    BY <2>1 DEF EverySubmissionHasACall
<1>2. \A e \in chainBar : Promise!AskedFor(owner[e], e)
  <2> SUFFICES ASSUME NEW e \in chainBar PROVE Promise!AskedFor(owner[e], e)
    OBVIOUS
  <2> DEFINE c == Sender(e)
  <2>1. c \in Calls /\ txn[c] = e.id /\ owner[e] = c
    BY <1>1
  <2>2. e.id \in Txns /\ e.net = e.id.net /\ e.note = e.id.note
    BY DEF chainBar, CommitmentOf, TypeOK, Entries
  <2>3. Submits(c) /\ txn[c].net = ClientNet(c) /\ txn[c].note = NoteOf(c) /\ req[c] # None
    <3>1. txn[c] # None
      BY <2>1, <2>2, AnchorAssumption
    <3> HIDE DEF c
    <3> QED
      BY <3>1, <2>1 DEF CallInv
  <2> HIDE DEF c
  <2> QED
    BY <2>1, <2>2, <2>3, AskFacts DEF Promise!AskedFor
<1>3. \A e, f \in chainBar : owner[e] = owner[f] => e = f
  <2> SUFFICES ASSUME NEW e \in chainBar, NEW f \in chainBar, e.id = f.id
               PROVE  e = f
    BY <1>1
  <2> QED
    BY DEF chainBar, CommitmentOf, LedgerInv
<1>4. owner \in [chainBar -> Calls]
  BY <1>1
<1> HIDE DEF owner
<1> QED
  BY <1>2, <1>3, <1>4 DEF Promise!Owed

LEMMA NetworkPromise ==
  ASSUME IInv, IInv', Network
  PROVE  [Promise!Next]_barVars
<1> USE DEF IInv
<1>1. UNCHANGED <<askedBar, answerBar>>
  BY DEF Network, callVars, askedBar, AskOf, NoteOf, ClientNet, answerBar, AnswerOf
<1>2. CASE \E t \in accepted : Evict(t)
  BY <1>1, <1>2 DEF Evict, chainBar, barVars
<1>3. CASE \E n \in Networks : NewRound(n)
  <2> SUFFICES ASSUME chainBar' # chainBar PROVE Promise!Commit
    BY <1>1 DEF barVars, Promise!Next
  <2> PICK n \in Networks : NewRound(n)
    BY <1>3
  <2> PICK block \in SUBSET {t \in accepted \ OnLedger :
                               /\ t.net = n
                               /\ round[n] < t.first + Validity} :
         ledger' = ledger \union {[txn |-> t, round |-> round[n] + 1] : t \in block}
    BY DEF NewRound
  <2>1. chainBar \subseteq chainBar'
    BY DEF chainBar
  <2>2. ASSUME NEW e \in chainBar' \ chainBar
        PROVE  /\ e \in Promise!Commitments
               /\ \A f \in chainBar : f.id # e.id /\ (f.net = e.net => f.round < e.round)
    <3>1. PICK t \in block : e = CommitmentOf([txn |-> t, round |-> round[n] + 1])
      BY DEF chainBar
    <3>2. [txn |-> t, round |-> round[n] + 1] \in Entries
      <4>1. [txn |-> t, round |-> round[n] + 1] \in ledger'
        OBVIOUS
      <4> QED
        BY <4>1 DEF TypeOK
    <3>3. e.id = t /\ e.net = n /\ e.round = round[n] + 1 /\ t \notin OnLedger
      BY <3>1 DEF CommitmentOf
    <3>4. ASSUME NEW f \in chainBar
          PROVE  f.id # e.id /\ (f.net = e.net => f.round < e.round)
      <4>1. PICK g \in ledger : f = CommitmentOf(g)
        BY DEF chainBar
      <4>2. f.id = g.txn /\ f.net = g.txn.net /\ f.round = g.round /\ g.txn \in OnLedger
        BY <4>1 DEF CommitmentOf, OnLedger
      <4>3. g.round <= round[g.txn.net] /\ g.round \in Nat /\ round[n] \in Nat
        BY AlgodAssumption DEF LedgerInv, TypeOK, Entries
      <4> QED
        BY <3>3, <4>2, <4>3
    <3> QED
      BY <3>1, <3>2, <3>4, EntryFacts
  <2>3. Promise!Owed(chainBar)'
    BY ChainOwed, PTL
  <2>4. Promise!Owed(chainBar')
    BY <1>1, <2>3 DEF Promise!Owed, Promise!AskedFor
  <2> QED
    BY <1>1, <2>1, <2>2, <2>4 DEF Promise!Commit
<1> QED
  BY <1>2, <1>3 DEF Network, AlgodStep

\* What call c has been answered.
LEMMA AnswerFacts ==
  ASSUME TypeOK, NEW c \in Calls
  PROVE  /\ record[c] = None /\ error[c] = None => AnswerOf(c) = None
         /\ record[c] # None \/ error[c] # None =>
              AnswerOf(c) \in Promise!Answers /\ AnswerOf(c) # None
<1>1. CASE record[c] # None
  <2>1. record[c] \in Records
    BY <1>1 DEF TypeOK
  <2>2. AnswerOf(c) = [kind |-> RecordKind(record[c]),
                       id |-> record[c].txid, round |-> record[c].round]
    BY <1>1 DEF AnswerOf
  <2>3. RecordKind(record[c]) \in {"draft", "submitted", "confirmed"}
    BY DEF RecordKind
  <2>4. record[c].txid \in Txns \union {None} /\ record[c].round \in Nat
    BY <2>1, AlgodAssumption DEF Records
  <2>5. AnswerOf(c) \in Promise!Answers
    BY <2>2, <2>3, <2>4 DEF Promise!Answers
  <2> QED
    BY <1>1, <2>5, CommitmentAssumption
<1>2. CASE record[c] = None /\ error[c] # None
  <2>1. error[c] \in Errors
    BY <1>2 DEF TypeOK
  <2>2. AnswerOf(c) = [kind |-> "failed", id |-> error[c].txid, round |-> 0]
    BY <1>2 DEF AnswerOf
  <2>3. AnswerOf(c) \in Promise!Answers
    BY <2>1, <2>2 DEF Errors, Promise!Answers
  <2> QED
    BY <1>2, <2>3, CommitmentAssumption
<1>3. CASE record[c] = None /\ error[c] = None
  BY <1>3 DEF AnswerOf
<1> QED
  BY <1>1, <1>2, <1>3

\* The answer of a call is as truthful as the promise wants it.
LEMMA AnswerTruthful ==
  ASSUME IInv, NEW c \in Calls, pc[c] \in Final
  PROVE  Promise!Truthful(c, AnswerOf(c))
<1> USE DEF IInv
<1>1. req[c] # None /\ askedBar[c] = AskOf(c)
  BY AskFacts DEF CallInv, Final
<1>2. CASE pc[c] = "raised"
  <2>1. record[c] = None /\ error[c] # None
    BY <1>2 DEF CallInv
  <2> QED
    BY <2>1 DEF AnswerOf, Promise!Truthful
<1>3. CASE pc[c] = "returned"
  <2>1. record[c] # None /\ ReturnedInv(c) /\ record[c] \in Records
    BY <1>3 DEF CallInv, TypeOK
  <2>2. AnswerOf(c) = [kind |-> RecordKind(record[c]),
                       id |-> record[c].txid, round |-> record[c].round]
    BY <2>1 DEF AnswerOf
  <2>3. CASE record[c].txid = None
    <3>1. req[c].mode = "DRAFT"
      BY <2>1, <2>3 DEF ReturnedInv
    <3>2. AskOf(c).net = None
      BY <3>1 DEF AskOf
    <3> QED
      BY <1>1, <2>2, <2>3, <3>2 DEF RecordKind, Promise!Truthful
  <2>4. CASE record[c].txid # None
    <3>1. /\ txn[c] # None /\ record[c].txid = txn[c]
          /\ record[c].round # 0 => ConfirmedIn(txn[c], record[c].round)
      BY <2>1, <2>4 DEF ReturnedInv
    <3>2. /\ txn[c] \in Txns /\ Submits(c)
          /\ txn[c].net = ClientNet(c) /\ txn[c].note = NoteOf(c)
      BY <3>1 DEF TypeOK, CallInv
    <3>3. AskOf(c).net = txn[c].net /\ AskOf(c).note = txn[c].note /\ AskOf(c).net # None
      BY <1>1, <3>2, AskFacts, AnchorAssumption DEF Txns
    <3>4. record[c].round # 0 =>
            [net |-> txn[c].net, note |-> txn[c].note, id |-> txn[c],
             round |-> record[c].round] \in chainBar
      <4> SUFFICES ASSUME record[c].round # 0
                   PROVE  CommitmentOf([txn |-> txn[c], round |-> record[c].round]) \in chainBar
        BY DEF CommitmentOf
      <4> QED
        BY <3>1 DEF chainBar, ConfirmedIn
    <3>5. RecordKind(record[c]) = IF record[c].round = 0 THEN "submitted" ELSE "confirmed"
      BY <2>4 DEF RecordKind
    <3> QED
      BY <1>1, <2>2, <3>1, <3>2, <3>3, <3>4, <3>5 DEF Promise!Truthful
  <2> QED
    BY <2>3, <2>4
<1> QED
  BY <1>2, <1>3 DEF Final

\* How far a step of call c moves it.
LEMMA CallMoves ==
  ASSUME TypeOK, NEW c \in Calls, CallStep(c)
  PROVE  \/ Call(c)
         \/ req' = req /\ pc[c] \notin {"idle"} \union Final /\ pc'[c] \in Final
         \/ req' = req /\ UNCHANGED <<record, error>>
<1> USE DEF TypeOK, Go, Return, Raise, algodVars, Final
<1>1. CASE Call(c)
  BY <1>1
<1>2. CASE \/ RefuseNote(c) \/ ReturnDraft(c) \/ ParamsFail(c) \/ AddressFails(c)
           \/ SignFails(c) \/ SendAnswerLost(c) \/ SendFails(c) \/ PollConfirmed(c)
           \/ PollRejected(c) \/ PollTimesOut(c) \/ PollFails(c)
  BY <1>2 DEF RefuseNote, ReturnDraft, ParamsFail, AddressFails, SignFails,
     SendAnswerLost, SendFails, PollConfirmed, PollRejected, PollTimesOut, PollFails
<1>3. CASE Send(c)
  <2>1. pc[c] = "send" /\ req' = req
    BY <1>3 DEF Send
  <2>2. CASE req[c].wait
    BY <1>3, <2>1, <2>2 DEF Send
  <2>3. CASE ~req[c].wait
    <3>1. pc'[c] = "returned"
      BY <1>3, <2>3 DEF Send
    <3> QED
      BY <2>1, <3>1
  <2> QED
    BY <2>2, <2>3
<1>4. CASE \/ StartSubmission(c) \/ ParamsAnswer(c) \/ BuildTransaction(c) \/ Sign(c)
           \/ PollAgain(c) \/ DeadlinePasses(c)
  BY <1>4 DEF StartSubmission, ParamsAnswer, BuildTransaction, Sign, PollAgain,
     DeadlinePasses, vars, callVars
<1> QED
  BY <1>1, <1>2, <1>3, <1>4 DEF CallStep, Progress

\* The same facts about the state a step leads to.
LEMMA AskedAfterStep ==
  TypeOK' => \A c \in Calls :
    (req[c] # None)' => AskOf(c)' \in Promise!Asks /\ askedBar'[c] = AskOf(c)'
<1>1. TypeOK => \A c \in Calls :
        req[c] # None => AskOf(c) \in Promise!Asks /\ askedBar[c] = AskOf(c)
  BY AskFacts
<1>2. (TypeOK => \A c \in Calls :
         req[c] # None => AskOf(c) \in Promise!Asks /\ askedBar[c] = AskOf(c))'
  BY <1>1, PTL
<1> QED
  BY <1>2 DEF Promise!Asks

LEMMA TruthfulAfterStep ==
  IInv' => \A c \in Calls :
    (pc[c] \in Final)' => Promise!Truthful(c, AnswerOf(c))'
<1>1. IInv => \A c \in Calls :
        pc[c] \in Final => Promise!Truthful(c, AnswerOf(c))
  BY AnswerTruthful
<1>2. (IInv => \A c \in Calls :
         pc[c] \in Final => Promise!Truthful(c, AnswerOf(c)))'
  BY <1>1, PTL
<1> QED
  BY <1>2

LEMMA CallPromise ==
  ASSUME IInv, IInv', NEW c \in Calls, CallStep(c)
  PROVE  [Promise!Next]_barVars
<1> USE DEF IInv
<1>1. chainBar' = chainBar
  BY OneCallSteps DEF chainBar
<1>2. \A d \in Calls \ {c} : askedBar'[d] = askedBar[d] /\ answerBar'[d] = answerBar[d]
  <2> SUFFICES ASSUME NEW d \in Calls \ {c}
               PROVE  askedBar'[d] = askedBar[d] /\ answerBar'[d] = answerBar[d]
    OBVIOUS
  <2>1. req'[d] = req[d] /\ record'[d] = record[d] /\ error'[d] = error[d]
    BY OneCallSteps
  <2>2. AskOf(d)' = AskOf(d) /\ AnswerOf(d)' = AnswerOf(d)
    BY <2>1 DEF AskOf, NoteOf, ClientNet, AnswerOf
  <2> QED
    BY <2>1, <2>2 DEF askedBar, answerBar
<1>3. CASE Call(c)
  <2>1. pc[c] = "idle" /\ req[c] = None /\ req'[c] # None /\ UNCHANGED <<record, error>>
    <3>1. req'[c] \in Requests
      BY <1>3 DEF Call, TypeOK
    <3> QED
      BY <1>3, <3>1, AnchorAssumption DEF Call, Go, CallInv
  <2>2. answerBar' = answerBar
    BY <2>1 DEF answerBar, AnswerOf
  <2>3. askedBar[c] = None
    BY <2>1 DEF askedBar
  <2>4. AskOf(c)' \in Promise!Asks /\ askedBar'[c] = AskOf(c)'
    BY <2>1, AskedAfterStep
  <2>5. askedBar' = [askedBar EXCEPT ![c] = AskOf(c)']
    BY <1>2, <2>4 DEF askedBar
  <2> QED
    BY <1>1, <2>2, <2>3, <2>4, <2>5 DEF Promise!Ask, Promise!Next
<1>4. CASE req' = req /\ pc[c] \notin {"idle"} \union Final /\ pc'[c] \in Final
  <2>1. askedBar' = askedBar
    BY <1>4 DEF askedBar, AskOf, NoteOf, ClientNet
  <2>2. askedBar[c] # None
    BY <1>4, AskFacts DEF CallInv
  <2>3. answerBar[c] = None
    <3>1. record[c] = None /\ error[c] = None
      BY <1>4 DEF CallInv, Final
    <3> QED
      BY <3>1, AnswerFacts DEF answerBar
  <2>4. answerBar'[c] = AnswerOf(c)' /\ AnswerOf(c)' \in Promise!Answers
    <3>1. (record[c] # None \/ error[c] # None)'
      BY <1>4 DEF CallInv, Final
    <3>2. (AnswerOf(c) \in Promise!Answers)'
      BY <3>1, AnswerFacts, PTL
    <3> QED
      BY <3>2 DEF answerBar, Promise!Answers
  <2>5. answerBar' = [answerBar EXCEPT ![c] = answerBar'[c]]
    BY <1>2 DEF answerBar
  <2>6. Promise!Truthful(c, answerBar'[c])
    <3>1. Promise!Truthful(c, AnswerOf(c))'
      BY <1>4, TruthfulAfterStep
    <3> QED
      BY <1>1, <2>1, <2>4, <3>1 DEF Promise!Truthful
  <2> QED
    BY <1>1, <2>1, <2>2, <2>3, <2>4, <2>5, <2>6 DEF Promise!Answer, Promise!Next
<1>5. CASE req' = req /\ UNCHANGED <<record, error>>
  BY <1>1, <1>5 DEF barVars, askedBar, AskOf, NoteOf, ClientNet, answerBar, AnswerOf
<1> QED
  BY <1>3, <1>4, <1>5, CallMoves

\* anchor_manifest, with any number of concurrent and repeated calls, implements
\* the promise.
THEOREM PromiseKept == Spec => KeepsPromise
<1>1. IInv /\ IInv' /\ [Next]_vars => [Promise!Next]_barVars
  <2> SUFFICES ASSUME IInv, IInv', [Next]_vars PROVE [Promise!Next]_barVars
    OBVIOUS
  <2>1. CASE \E c \in Calls : CallStep(c)
    BY <2>1, CallPromise
  <2>2. CASE Network
    BY <2>2, NetworkPromise
  <2>3. CASE UNCHANGED vars
    BY <2>3 DEF vars, callVars, algodVars, barVars, askedBar, AskOf, NoteOf, ClientNet,
       chainBar, answerBar, AnswerOf
  <2> QED
    BY <2>1, <2>2, <2>3 DEF Next, CallStep, AllEnded
<1> QED
  BY <1>1, InitPromise, Invariance, PTL
     DEF Spec, KeepsPromise, Promise!Spec, barVars
=============================================================================
