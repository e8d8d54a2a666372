--------------------------- MODULE TimestampProofs ---------------------------
(***************************************************************************)
(* The safety properties of module Timestamp, for chains of any length and *)
(* any number of calls: IInv is inductive and contains them.               *)
(***************************************************************************)
EXTENDS Timestamp, TLAPS

LEMMA InitIInv == Init => IInv
<1> SUFFICES ASSUME Init PROVE IInv
  OBVIOUS
<1>1. TypeOK
  <2>1. <<>> \in Seq(TSAAttempts)
    OBVIOUS
  <2> QED
    BY <2>1 DEF Init, TypeOK, PCs
<1>2. \A c \in Calls : /\ pc[c] = "idle" /\ req[c] = None /\ attempts[c] = <<>>
                       /\ result[c] = None /\ error[c] = None
  BY DEF Init
<1>3. None # "all failed"
  BY TimestampAssumption DEF Reasons
<1>4. SentWasAsked
  BY DEF Init, SentWasAsked
<1> QED
  BY <1>1, <1>2, <1>3, <1>4
     DEF IInv, CallInv, FirstSuccessWins, TokenIsOverImprint, GivesUpAtTheEnd

\* The chain of a call that was made, and the TSA whose turn it is.
LEMMA ChainFacts ==
  ASSUME TypeOK, NEW c \in Calls, req[c] # None
  PROVE  /\ req[c] \in Requests
         /\ ChainOf(c) \in Seq(TSAs)
         /\ Len(ChainOf(c)) \in Nat
         /\ Len(attempts[c]) \in Nat
         /\ Position(c) <= Len(ChainOf(c)) => Current(c) \in TSAs
<1>1. req[c] \in Requests
  BY DEF TypeOK
<1>2. ChainOf(c) \in Seq(TSAs)
  BY <1>1, TimestampAssumption DEF Requests, ChainOf
<1>3. Len(attempts[c]) \in Nat
  BY DEF TypeOK
<1> QED
  BY <1>1, <1>2, <1>3 DEF Position, Current

\* The invariant of the call, and the properties, of one call.
CallOK(c) ==
  /\ CallInv(c)
  /\ result[c] # None =>
       LET n == Len(attempts[c]) IN
       /\ n \in 1..Len(ChainOf(c))
       /\ FirstFailed(c, n - 1)
       /\ attempts[c][n] = [tsa |-> ChainOf(c)[n], ok |-> TRUE]
       /\ result[c].tsa = ChainOf(c)[n]
  /\ result[c] # None =>
       /\ result[c].token \in issued
       /\ result[c].token.imprint = req[c].imprint
       /\ result[c].imprint = req[c].imprint
       /\ req[c].imprint.bytes = ExpectedDigestBytes[req[c].alg]
  /\ (\/ pc[c] = "returned" /\ result[c] = None
      \/ error[c] = "all failed")
     => /\ Len(attempts[c]) = Len(ChainOf(c))
        /\ FirstFailed(c, Len(attempts[c]))
        /\ req[c].raise <=> pc[c] = "raised"

LEMMA IInvIsCallOK == IInv <=> TypeOK /\ SentWasAsked /\ \A c \in Calls : CallOK(c)
BY DEF IInv, CallOK, FirstSuccessWins, TokenIsOverImprint, GivesUpAtTheEnd

\* A call whose own variables a step leaves alone stays as it is.
LEMMA StandingStill ==
  ASSUME NEW d \in Calls, CallOK(d), issued \subseteq issued',
         pc'[d] = pc[d], req'[d] = req[d], attempts'[d] = attempts[d],
         result'[d] = result[d], error'[d] = error[d]
  PROVE  CallOK(d)'
BY DEF CallOK, CallInv, FirstFailed, ChainOf, Position, BadImprint, BadAlgorithm

\* The types after a step.
LEMMA NextType ==
  ASSUME IInv, [Next]_vars
  PROVE  TypeOK'
<1> USE DEF TypeOK, tsaVars
<1>0. TypeOK
  BY DEF IInv
<1>1. ASSUME NEW c \in Calls, Call(c) PROVE TypeOK'
  BY <1>0, <1>1 DEF Call, Go, PCs
<1>2. ASSUME NEW c \in Calls, RefuseArguments(c) PROVE TypeOK'
  BY <1>0, <1>2 DEF RefuseArguments, Raise, Go, PCs, Reasons
<1>3. ASSUME NEW c \in Calls, StartChain(c) \/ ReadMore(c) PROVE TypeOK'
  BY <1>0, <1>3 DEF StartChain, ReadMore, Go, PCs
<1>4. ASSUME NEW c \in Calls, Ask(c) PROVE TypeOK'
  <2>1. req[c] # None /\ req[c].imprint \in Imprints /\ Current(c) \in TSAs
    <3>1. pc[c] = "next" /\ Position(c) <= Len(ChainOf(c))
      BY <1>4 DEF Ask, Go
    <3>2. req[c] # None
      BY <3>1 DEF IInv, CallInv
    <3> QED
      BY <1>0, <3>1, <3>2, ChainFacts DEF Requests
  <2>2. [tsa |-> Current(c), imprint |-> req[c].imprint] \in Tokens
    BY <2>1 DEF Tokens
  <2> QED
    BY <1>0, <1>4, <2>2 DEF Ask, Go, PCs
<1>5. ASSUME NEW c \in Calls, ResponseEnds(c) PROVE TypeOK'
  <2>1. pc[c] = "asking"
    BY <1>5 DEF ResponseEnds, Accept, AttemptFails, Go
  <2>2. Current(c) \in TSAs /\ req[c].imprint \in Imprints
    BY <1>0, <2>1, ChainFacts DEF IInv, CallInv, Requests
  <2>3. ASSUME NEW ok \in BOOLEAN, Record(c, ok)
        PROVE  attempts' \in [Calls -> Seq(TSAAttempts)]
    <3>1. Append(attempts[c], [tsa |-> Current(c), ok |-> ok]) \in Seq(TSAAttempts)
      <4>1. [tsa |-> Current(c), ok |-> ok] \in TSAAttempts
        BY <2>2 DEF TSAAttempts
      <4>2. attempts[c] \in Seq(TSAAttempts)
        BY <1>0
      <4> QED
        BY <4>1, <4>2
    <3> QED
      BY <1>0, <2>3, <3>1 DEF Record
  <2>4. CASE Accept(c)
    <3>1. PICK token \in issued :
            result' = [result EXCEPT ![c] = [token |-> token, tsa |-> Current(c),
                                             imprint |-> req[c].imprint]]
      BY <2>4 DEF Accept
    <3>2. token \in Tokens
      BY <1>0
    <3>3. result' \in [Calls -> TimestampTokens \union {None}]
      BY <1>0, <2>2, <3>1, <3>2 DEF TimestampTokens
    <3> QED
      BY <1>0, <2>4, <2>3, <3>3 DEF Accept, Go, PCs
  <2>5. CASE AttemptFails(c)
    BY <1>0, <2>5, <2>3 DEF AttemptFails, Go, PCs
  <2> QED
    BY <1>5, <2>4, <2>5 DEF ResponseEnds
<1>6. ASSUME NEW c \in Calls, Exhaust(c) PROVE TypeOK'
  BY <1>0, <1>6 DEF Exhaust, Raise, Go, PCs, Reasons
<1>7. CASE Issue
  BY <1>0, <1>7 DEF Issue
<1>8. CASE UNCHANGED vars
  BY <1>0, <1>8 DEF vars
<1> QED
  BY <1>1, <1>2, <1>3, <1>4, <1>5, <1>6, <1>7, <1>8 DEF Next, Progress, AllEnded

\* The call that takes a step keeps its invariant.
LEMMA StepCallOK ==
  ASSUME TypeOK, TypeOK', NEW c \in Calls, CallOK(c), Call(c) \/ Progress(c)
  PROVE  CallOK(c)'
<1> USE DEF Go, tsaVars
<1>1. CASE Call(c)
  <2>1. pc[c] = "idle" /\ pc'[c] = "called" /\ UNCHANGED <<attempts, result, error>>
    BY <1>1 DEF Call, TypeOK
  <2>2. req'[c] # None
    BY <1>1, TimestampAssumption DEF Call, TypeOK
  <2>3. attempts[c] = <<>> /\ result[c] = None /\ error[c] # "all failed"
    BY <2>1 DEF CallOK, CallInv
  <2> QED
    BY <2>1, <2>2, <2>3 DEF CallOK, CallInv
<1> SUFFICES ASSUME Progress(c) PROVE CallOK(c)'
  BY <1>1
<1>2. req' = req /\ req[c] # None /\ pc[c] \notin {"idle"} \union Final
  <2>1. req' = req /\ pc[c] \in {"called", "next", "asking"}
    BY DEF Progress, RefuseArguments, StartChain, Ask, ResponseEnds, Accept,
       AttemptFails, ReadMore, Exhaust
  <2> QED
    BY <2>1 DEF CallOK, CallInv, Final
<1>3. result[c] = None /\ error[c] # "all failed"
  BY <1>2 DEF CallOK, CallInv, Final
<1>4. /\ ChainOf(c) \in Seq(TSAs)
      /\ Len(ChainOf(c)) \in Nat /\ Len(attempts[c]) \in Nat
      /\ ChainOf(c)' = ChainOf(c)
      /\ BadImprint(c)' = BadImprint(c) /\ BadAlgorithm(c)' = BadAlgorithm(c)
  BY <1>2, ChainFacts DEF ChainOf, BadImprint, BadAlgorithm
<1>5. CASE RefuseArguments(c)
  <2>1. pc'[c] = "raised" /\ error'[c] # "all failed" /\ UNCHANGED <<result, attempts>>
    BY <1>5 DEF RefuseArguments, Raise, TypeOK
  <2> QED
    BY <1>2, <1>3, <2>1 DEF CallOK, CallInv
<1>6. CASE StartChain(c)
  <2>1. pc[c] = "called" /\ pc'[c] = "next" /\ UNCHANGED <<result, error, attempts>>
    BY <1>6 DEF StartChain, TypeOK
  <2>2. attempts[c] = <<>> /\ ~BadImprint(c) /\ ~BadAlgorithm(c)
    BY <1>6, <2>1 DEF StartChain, CallOK, CallInv
  <2>3. FirstFailed(c, Len(attempts[c]))'
    BY <1>4, <2>1, <2>2 DEF FirstFailed
  <2> QED
    BY <1>2, <1>3, <1>4, <2>1, <2>2, <2>3 DEF CallOK, CallInv
<1>7. CASE Ask(c) \/ ReadMore(c)
  <2>1. /\ pc[c] \in {"next", "asking"} /\ pc'[c] = "asking"
        /\ UNCHANGED <<result, error, attempts>>
    BY <1>7 DEF Ask, ReadMore, TypeOK
  <2>2. Position(c) <= Len(ChainOf(c))
    BY <1>7 DEF Ask, ReadMore, CallOK, CallInv
  <2>3. FirstFailed(c, Len(attempts[c])) /\ ~BadImprint(c) /\ ~BadAlgorithm(c)
    BY <2>1 DEF CallOK, CallInv
  <2>4. FirstFailed(c, Len(attempts[c]))' /\ (Position(c) <= Len(ChainOf(c)))'
    BY <1>4, <2>1, <2>2, <2>3 DEF FirstFailed, Position
  <2> QED
    BY <1>2, <1>3, <1>4, <2>1, <2>3, <2>4 DEF CallOK, CallInv
<1>8. CASE ResponseEnds(c)
  <2>1. pc[c] = "asking"
    BY <1>8 DEF ResponseEnds, Accept, AttemptFails
  <2>2. /\ FirstFailed(c, Len(attempts[c])) /\ Position(c) <= Len(ChainOf(c))
        /\ ~BadImprint(c) /\ ~BadAlgorithm(c)
    BY <2>1 DEF CallOK, CallInv
  <2>3. ASSUME NEW ok \in BOOLEAN, Record(c, ok)
        PROVE  /\ Len(attempts'[c]) = Len(attempts[c]) + 1
               /\ attempts'[c][Position(c)] = [tsa |-> ChainOf(c)[Position(c)], ok |-> ok]
               /\ \A i \in 1..Len(attempts[c]) : attempts'[c][i] = attempts[c][i]
    <3>1. attempts[c] \in Seq(TSAAttempts)
      BY DEF TypeOK
    <3>2. attempts'[c] = Append(attempts[c], [tsa |-> Current(c), ok |-> ok])
      BY <2>3 DEF Record, TypeOK
    <3>3. [tsa |-> Current(c), ok |-> ok] \in TSAAttempts
      BY <1>2, <2>2, ChainFacts DEF TSAAttempts
    <3> QED
      BY <3>1, <3>2, <3>3 DEF Position, Current
  <2>4. CASE Accept(c)
    <3>1. PICK token \in issued :
            /\ token.imprint = req[c].imprint
            /\ result' = [result EXCEPT ![c] = [token |-> token, tsa |-> Current(c),
                                                imprint |-> req[c].imprint]]
      BY <2>4 DEF Accept
    <3>2. result'[c] = [token |-> token, tsa |-> Current(c), imprint |-> req[c].imprint]
      BY <3>1 DEF TypeOK
    <3>3. pc'[c] = "returned" /\ error' = error /\ issued' = issued
      BY <2>4 DEF Accept, TypeOK
    <3>4. Record(c, TRUE)
      BY <2>4 DEF Accept
    <3>recorded. /\ Len(attempts'[c]) = Len(attempts[c]) + 1
          /\ attempts'[c][Position(c)] = [tsa |-> ChainOf(c)[Position(c)], ok |-> TRUE]
          /\ \A i \in 1..Len(attempts[c]) : attempts'[c][i] = attempts[c][i]
      BY <2>3, <3>4
    <3>5. /\ Len(attempts'[c]) \in 1..Len(ChainOf(c))
          /\ attempts'[c][Len(attempts'[c])] =
               [tsa |-> ChainOf(c)[Len(attempts'[c])], ok |-> TRUE]
          /\ result'[c].tsa = ChainOf(c)[Len(attempts'[c])]
      BY <1>4, <2>2, <3>2, <3>recorded DEF Position, Current
    <3>6. FirstFailed(c, Len(attempts[c]) - 1)'
      <4>1. Len(attempts'[c]) - 1 = Len(attempts[c])
        BY <1>4, <3>recorded
      <4>2. \A i \in 1..Len(attempts[c]) :
              attempts'[c][i] = [tsa |-> ChainOf(c)'[i], ok |-> FALSE]
        BY <1>4, <2>2, <3>recorded DEF FirstFailed
      <4> QED
        BY <1>4, <2>2, <3>recorded, <4>1, <4>2 DEF FirstFailed
    <3>7. /\ req[c].alg \in DOMAIN ExpectedDigestBytes
          /\ req[c].imprint.bytes = ExpectedDigestBytes[req[c].alg]
      BY <2>2 DEF BadImprint, BadAlgorithm
    <3>8. CallInv(c)'
      BY <1>2, <1>3, <1>4, <2>2, <3>3 DEF CallInv
    <3>9. result'[c].token \in issued' /\ result'[c].token.imprint = req'[c].imprint
          /\ result'[c].imprint = req'[c].imprint
      BY <1>2, <3>1, <3>2, <3>3
    <3>10. /\ error'[c] # "all failed"
           /\ req'[c].imprint.bytes = ExpectedDigestBytes[req'[c].alg]
      BY <1>2, <1>3, <3>3, <3>7
    <3>11. result'[c] # None
      <4>1. Current(c) \in TSAs /\ req[c].imprint \in Imprints /\ token \in Tokens
        BY <1>2, <2>2, ChainFacts DEF Requests, TypeOK
      <4>2. result'[c] \in TimestampTokens
        BY <3>2, <4>1 DEF TimestampTokens
      <4> QED
        BY <4>2, TimestampAssumption
    <3> QED
      BY <1>4, <3>5, <3>6, <3>8, <3>9, <3>10, <3>11 DEF CallOK
  <2>5. CASE AttemptFails(c)
    <3>1. pc'[c] = "next" /\ UNCHANGED <<result, error>>
      BY <2>5 DEF AttemptFails, TypeOK
    <3>recorded. /\ Len(attempts'[c]) = Len(attempts[c]) + 1
          /\ attempts'[c][Position(c)] = [tsa |-> ChainOf(c)[Position(c)], ok |-> FALSE]
          /\ \A i \in 1..Len(attempts[c]) : attempts'[c][i] = attempts[c][i]
      BY <2>3, <2>5 DEF AttemptFails
    <3>2. FirstFailed(c, Len(attempts[c]))'
      <4>1. \A i \in 1..Len(attempts'[c]) :
              attempts'[c][i] = [tsa |-> ChainOf(c)'[i], ok |-> FALSE]
        <5> SUFFICES ASSUME NEW i \in 1..Len(attempts'[c])
                     PROVE  attempts'[c][i] = [tsa |-> ChainOf(c)[i], ok |-> FALSE]
          BY <1>4
        <5>1. i \in 1..Len(attempts[c]) \/ i = Position(c)
          BY <1>4, <3>recorded DEF Position
        <5> QED
          BY <2>2, <3>recorded, <5>1 DEF FirstFailed
      <4>2. Len(attempts'[c]) \in 0..Len(ChainOf(c)')
        BY <1>4, <2>2, <3>recorded DEF Position
      <4> QED
        BY <4>1, <4>2 DEF FirstFailed
    <3> QED
      BY <1>2, <1>3, <1>4, <2>2, <3>1, <3>2 DEF CallOK, CallInv
  <2> QED
    BY <1>8, <2>4, <2>5 DEF ResponseEnds
<1>9. CASE Exhaust(c)
  <2>1. /\ pc[c] = "next" /\ attempts' = attempts /\ result' = result
        /\ pc'[c] = IF req[c].raise THEN "raised" ELSE "returned"
        /\ ~req[c].raise => error' = error
        /\ Position(c) > Len(ChainOf(c))
    BY <1>9 DEF Exhaust, Raise, TypeOK
  <2>2. /\ FirstFailed(c, Len(attempts[c])) /\ Len(attempts[c]) = Len(ChainOf(c))
        /\ ~BadImprint(c) /\ ~BadAlgorithm(c)
    <3>1. FirstFailed(c, Len(attempts[c])) /\ ~BadImprint(c) /\ ~BadAlgorithm(c)
      BY <2>1 DEF CallOK, CallInv
    <3>2. Len(attempts[c]) <= Len(ChainOf(c))
      BY <1>4, <3>1 DEF FirstFailed
    <3> QED
      BY <1>4, <2>1, <3>1, <3>2 DEF Position
  <2>3. FirstFailed(c, Len(attempts[c]))' /\ (Len(attempts[c]) = Len(ChainOf(c)))'
    BY <1>4, <2>1, <2>2 DEF FirstFailed
  <2>4. CASE req[c].raise
    BY <1>2, <1>3, <1>4, <2>1, <2>2, <2>3, <2>4 DEF CallOK, CallInv
  <2>5. CASE ~req[c].raise
    BY <1>2, <1>3, <1>4, <2>1, <2>2, <2>3, <2>5 DEF CallOK, CallInv
  <2> QED
    BY <2>4, <2>5
<1> QED
  BY <1>5, <1>6, <1>7, <1>8, <1>9 DEF Progress

\* A step of one call leaves the others alone.
LEMMA OneCallSteps ==
  ASSUME TypeOK, NEW c \in Calls, Call(c) \/ Progress(c)
  PROVE  /\ issued \subseteq issued'
         /\ \A d \in Calls \ {c} :
              /\ pc'[d] = pc[d] /\ req'[d] = req[d] /\ attempts'[d] = attempts[d]
              /\ result'[d] = result[d] /\ error'[d] = error[d]
<1> USE DEF TypeOK, Go, Raise, Record, tsaVars
<1>1. CASE Call(c) \/ RefuseArguments(c) \/ StartChain(c) \/ Ask(c) \/ ReadMore(c)
  BY <1>1 DEF Call, RefuseArguments, StartChain, Ask, ReadMore
<1>2. CASE AttemptFails(c)
  BY <1>2 DEF AttemptFails
<1>3. CASE Accept(c)
  BY <1>3 DEF Accept
<1>4. CASE Exhaust(c)
  BY <1>4 DEF Exhaust
<1> QED
  BY <1>1, <1>2, <1>3, <1>4 DEF Progress, ResponseEnds

\* What a call asks for is well formed, so that it is told from no request.
LEMMA AskOfFacts ==
  ASSUME TypeOK, NEW c \in Calls, req[c] # None
  PROVE  AskOf(c) \in Promise!Asks /\ askedBar[c] = AskOf(c) /\ askedBar[c] # None
<1>1. req[c].imprint \in Imprints
  BY ChainFacts DEF Requests
<1>2. {ChainOf(c)[i] : i \in DOMAIN ChainOf(c)} \in SUBSET TSAs
  BY ChainFacts
<1>3. AskOf(c) \in Promise!Asks
  BY <1>1, <1>2 DEF AskOf, Promise!Asks
<1> QED
  BY <1>3, AcquisitionAssumption DEF askedBar

\* What a call asked for stays.
LEMMA AskStays ==
  ASSUME NEW c \in Calls, req'[c] = req[c]
  PROVE  AskOf(c)' = AskOf(c) /\ askedBar'[c] = askedBar[c]
BY DEF AskOf, askedBar, ChainOf, BadImprint, BadAlgorithm

\* A call that asks has asked the TSAs of its chain about its imprint.
LEMMA SentNow ==
  ASSUME IInv, NEW c \in Calls, pc[c] \in {"next", "asking"}, Position(c) <= Len(ChainOf(c)),
         NEW t, t = [tsa |-> Current(c), imprint |-> req[c].imprint]
  PROVE  Promise!AskedFor(c, t)
<1>1. TypeOK /\ req[c] # None /\ ~BadImprint(c) /\ ~BadAlgorithm(c)
  BY DEF IInv, CallInv
<1>2. Position(c) \in DOMAIN ChainOf(c)
  BY <1>1, ChainFacts DEF Position
<1>3. t.tsa \in {ChainOf(c)[i] : i \in DOMAIN ChainOf(c)} /\ t.imprint = req[c].imprint
  BY <1>2 DEF Current
<1>4. /\ AskOf(c).valid = TRUE
      /\ AskOf(c).tsas = {ChainOf(c)[i] : i \in DOMAIN ChainOf(c)}
      /\ AskOf(c).imprint = req[c].imprint
  BY <1>1 DEF AskOf
<1>5. askedBar[c] = AskOf(c) /\ askedBar[c] # None
  BY <1>1, AskOfFacts
<1> QED
  BY <1>3, <1>4, <1>5 DEF Promise!AskedFor

\* A call that asked for a token asked for it ever after.
LEMMA AskedForStays ==
  ASSUME IInv, [Next]_vars, NEW c \in Calls, NEW t, Promise!AskedFor(c, t)
  PROVE  Promise!AskedFor(c, t)'
<1>1. req[c] # None
  BY DEF Promise!AskedFor, askedBar
<1>2. req'[c] = req[c]
  <2>1. ASSUME NEW d \in Calls, Call(d) \/ Progress(d) PROVE req'[c] = req[c]
    <3>1. CASE d # c
      BY <2>1, <3>1, OneCallSteps DEF IInv
    <3>2. CASE d = c
      <4>1. ~Call(c)
        BY <1>1 DEF Call, Go, IInv, CallInv
      <4> QED
        BY <2>1, <3>2, <4>1 DEF Progress, RefuseArguments, StartChain, Ask, ResponseEnds,
           Accept, AttemptFails, ReadMore, Exhaust
    <3> QED
      BY <3>1, <3>2
  <2> QED
    BY <2>1 DEF Next, Issue, AllEnded, vars
<1> QED
  BY <1>2, AskStays DEF Promise!AskedFor

\* Only Ask sends, and it sends what its call was asked for.
LEMMA NextSent ==
  ASSUME IInv, [Next]_vars
  PROVE  SentWasAsked'
<1> SUFFICES ASSUME NEW t \in sent' PROVE \E c \in Calls : Promise!AskedFor(c, t)'
  BY DEF SentWasAsked
<1>1. CASE t \in sent
  BY <1>1, AskedForStays DEF IInv, SentWasAsked
<1>2. CASE t \notin sent
  <2>1. PICK c \in Calls : Ask(c) /\ t = [tsa |-> Current(c), imprint |-> req[c].imprint]
    BY <1>2 DEF Next, Progress, Call, RefuseArguments, StartChain, Ask, ResponseEnds,
       Accept, AttemptFails, ReadMore, Exhaust, Issue, AllEnded, vars, tsaVars
  <2>2. pc[c] = "next" /\ Position(c) <= Len(ChainOf(c))
    BY <2>1 DEF Ask, Go
  <2> QED
    BY <2>1, <2>2, SentNow, AskedForStays
<1> QED
  BY <1>1, <1>2

LEMMA NextIInv == IInv /\ [Next]_vars => IInv'
<1> SUFFICES ASSUME IInv, [Next]_vars PROVE IInv'
  OBVIOUS
<1>1. TypeOK /\ TypeOK' /\ \A c \in Calls : CallOK(c)
  BY NextType, IInvIsCallOK
<1>2. \A c \in Calls : CallOK(c)'
  <2>1. ASSUME NEW c \in Calls, Call(c) \/ Progress(c), NEW d \in Calls
        PROVE  CallOK(d)'
    <3>1. CASE d = c
      BY <1>1, <2>1, <3>1, StepCallOK
    <3>2. CASE d # c
      BY <1>1, <2>1, <3>2, OneCallSteps, StandingStill
    <3> QED
      BY <3>1, <3>2
  <2>2. CASE Issue \/ UNCHANGED vars
    BY <1>1, <2>2, StandingStill DEF Issue, vars, tsaVars
  <2> QED
    BY <2>1, <2>2 DEF Next, AllEnded
<1>3. (TypeOK /\ SentWasAsked /\ \A c \in Calls : CallOK(c))'
  BY <1>1, <1>2, NextSent
<1> QED
  BY <1>3, IInvIsCallOK, PTL

\* The inductive invariant holds in every reachable state.
THEOREM Invariance == Spec => []IInv
BY InitIInv, NextIInv, PTL DEF Spec

\* Every variable keeps its type.
THEOREM TypeCorrect == Spec => []TypeOK
<1>1. IInv => TypeOK
  BY DEF IInv
<1> QED
  BY <1>1, Invariance, PTL

\* The token of a call is of the earliest TSA of its chain that did not fail,
\* for a chain of any length.
THEOREM FirstSuccess == Spec => []FirstSuccessWins
<1>1. IInv => FirstSuccessWins
  BY DEF IInv
<1> QED
  BY <1>1, Invariance, PTL

\* No call returns a token over another imprint than its own, with any number of
\* calls in flight at the same TSAs.
THEOREM TokensMatch == Spec => []TokenIsOverImprint
<1>1. IInv => TokenIsOverImprint
  BY DEF IInv
<1> QED
  BY <1>1, Invariance, PTL

\* A call that gives up has asked its whole chain.
THEOREM ChainExhausted == Spec => []GivesUpAtTheEnd
<1>1. IInv => GivesUpAtTheEnd
  BY DEF IInv
<1> QED
  BY <1>1, Invariance, PTL

\* What a step of a call changes of it brings it nearer to its end.
LEMMA ProgressAdvances ==
  ASSUME IInv, NEW c \in Calls, Progress(c), CallState(c)' # CallState(c)
  PROVE  Remaining(c)' \in Nat /\ Remaining(c)' < Remaining(c)
<1> DEFINE unasked == Len(ChainOf(c)) - Len(attempts[c])
<1>1. req' = req /\ req[c] # None /\ pc[c] \in {"called", "next", "asking"}
  <2>1. req' = req /\ pc[c] \in {"called", "next", "asking"}
    BY DEF Progress, RefuseArguments, StartChain, Ask, ResponseEnds, Accept,
       AttemptFails, ReadMore, Exhaust, Go
  <2> QED
    BY <2>1 DEF IInv, CallInv
<1>2. Len(ChainOf(c)) \in Nat /\ Len(attempts[c]) \in Nat /\ ChainOf(c)' = ChainOf(c)
  BY <1>1, ChainFacts DEF IInv, ChainOf
<1>3. CallOK(c)
  BY IInvIsCallOK
<1>4. 0 <= unasked
  <2>1. CASE pc[c] = "called"
    <3>1. attempts[c] = <<>>
      BY <1>3, <2>1 DEF CallOK, CallInv
    <3> QED
      BY <1>2, <3>1
  <2>2. CASE pc[c] \in {"next", "asking"}
    <3>1. FirstFailed(c, Len(attempts[c]))
      BY <1>3, <2>2 DEF CallOK, CallInv
    <3> QED
      BY <1>2, <3>1 DEF FirstFailed
  <2> QED
    BY <1>1, <2>1, <2>2
<1>5. CASE RefuseArguments(c)
  <2>1. pc[c] = "called" /\ pc'[c] = "raised"
    BY <1>5 DEF RefuseArguments, Go, IInv, TypeOK
  <2>2. Remaining(c) = 3 * unasked + 3 /\ Remaining(c)' = 0
    BY <2>1 DEF Remaining
  <2> QED
    BY <1>2, <1>4, <2>2
<1>6. CASE StartChain(c)
  <2>1. pc[c] = "called" /\ pc'[c] = "next" /\ attempts' = attempts
    BY <1>6 DEF StartChain, Go, IInv, TypeOK
  <2>2. Remaining(c) = 3 * unasked + 3 /\ Remaining(c)' = 3 * unasked + 2
    BY <1>2, <2>1 DEF Remaining
  <2> QED
    BY <1>2, <1>4, <2>2
<1>7. CASE Ask(c)
  <2>1. pc[c] = "next" /\ pc'[c] = "asking" /\ attempts' = attempts
    BY <1>7 DEF Ask, Go, IInv, TypeOK
  <2>2. Remaining(c) = 3 * unasked + 2 /\ Remaining(c)' = 3 * unasked + 1
    BY <1>2, <2>1 DEF Remaining
  <2> QED
    BY <1>2, <1>4, <2>2
<1>8. CASE Accept(c)
  <2>1. pc[c] = "asking" /\ pc'[c] = "returned"
    BY <1>8 DEF Accept, Go, IInv, TypeOK
  <2>2. Remaining(c) = 3 * unasked + 1 /\ Remaining(c)' = 0
    BY <2>1 DEF Remaining
  <2> QED
    BY <1>2, <1>4, <2>2
<1>9. CASE AttemptFails(c)
  <2>1. pc[c] = "asking" /\ pc'[c] = "next"
    BY <1>9 DEF AttemptFails, Go, IInv, TypeOK
  <2>2. attempts'[c] = Append(attempts[c], [tsa |-> Current(c), ok |-> FALSE])
    BY <1>9 DEF AttemptFails, Record, IInv, TypeOK
  <2>3. Position(c) <= Len(ChainOf(c))
    BY <1>3, <2>1 DEF CallOK, CallInv
  <2>4. [tsa |-> Current(c), ok |-> FALSE] \in TSAAttempts
    BY <1>1, <2>3, ChainFacts DEF TSAAttempts, IInv
  <2>5. Len(attempts'[c]) = Len(attempts[c]) + 1
    BY <2>2, <2>4 DEF IInv, TypeOK
  <2>6. Remaining(c) = 3 * unasked + 1 /\ Remaining(c)' = 3 * (unasked - 1) + 2
    BY <1>2, <2>1, <2>5 DEF Remaining
  <2>7. 1 <= unasked
    BY <1>2, <2>3 DEF Position
  <2> QED
    BY <1>2, <2>6, <2>7
<1>10. CASE Exhaust(c)
  <2>1. pc[c] = "next" /\ pc'[c] \in Final
    BY <1>10 DEF Exhaust, Go, IInv, TypeOK, Final
  <2>2. Remaining(c) = 3 * unasked + 2 /\ Remaining(c)' = 0
    BY <2>1 DEF Remaining, Final
  <2> QED
    BY <1>2, <1>4, <2>2
<1>11. ~ReadMore(c)
  BY DEF ReadMore, CallState
<1> QED
  BY <1>5, <1>6, <1>7, <1>8, <1>9, <1>10, <1>11 DEF Progress, ResponseEnds

\* Every change of a call that was made brings it nearer to its end: at most
\* three for each TSA of its chain and three more, so that it ends unless it is
\* stopped or reads the pieces of one response for ever.
THEOREM CallsOnlyAdvance == Spec => CallsAdvance
<1> DEFINE Advances == \A c \in Calls : (pc[c] # "idle" /\ CallState(c)' # CallState(c)) =>
                         Remaining(c)' \in Nat /\ Remaining(c)' < Remaining(c)
<1>1. IInv /\ [Next]_vars => Advances
  <2> SUFFICES ASSUME IInv, [Next]_vars, NEW c \in Calls,
                      pc[c] # "idle", CallState(c)' # CallState(c)
               PROVE  Remaining(c)' \in Nat /\ Remaining(c)' < Remaining(c)
    OBVIOUS
  <2>1. ASSUME NEW d \in Calls, Call(d) \/ Progress(d), d # c PROVE FALSE
    BY <2>1, OneCallSteps DEF CallState, IInv
  <2>2. ~Call(c)
    BY DEF Call, Go
  <2>3. CASE Progress(c)
    BY <2>3, ProgressAdvances
  <2>4. ~Issue /\ ~UNCHANGED vars
    BY DEF Issue, vars, CallState
  <2> QED
    BY <2>1, <2>2, <2>3, <2>4 DEF Next, AllEnded
<1>2. IInv /\ [Next]_vars => [Advances]_vars
  BY <1>1
<1> QED
  BY <1>2, Invariance, PTL DEF Spec, CallsAdvance

-------------------------------------------------------------------------------
(***************************************************************************)
(* The calls keep the promise of module Acquisition.                       *)
(***************************************************************************)

\* A step of a call that was made leaves all requests and the answers to the
\* others as they are.
LEMMA AnswerSteps ==
  ASSUME IInv, NEW c \in Calls, Progress(c)
  PROVE  /\ askedBar' = askedBar /\ askedBar[c] # None /\ answerBar[c] = None
         /\ answerBar' = [answerBar EXCEPT ![c] = AnswerOf(c)']
<1>1. req' = req /\ pc[c] \in {"called", "next", "asking"}
  BY DEF Progress, RefuseArguments, StartChain, Ask, ResponseEnds, Accept,
     AttemptFails, ReadMore, Exhaust, Go
<1>2. TypeOK /\ req[c] # None
  BY <1>1 DEF IInv, CallInv
<1>3. askedBar' = askedBar
  BY <1>1, AskStays DEF askedBar
<1>4. \A d \in Calls \ {c} : AnswerOf(d)' = AnswerOf(d)
  BY <1>2, OneCallSteps DEF AnswerOf
<1>5. AnswerOf(c) = None
  BY <1>1 DEF AnswerOf, Final
<1> QED
  BY <1>2, <1>3, <1>4, <1>5, AskOfFacts DEF answerBar

\* Every step of a call is one of the promise, or none of it.
LEMMA ProgressKeepsPromise ==
  ASSUME IInv, NEW c \in Calls, Progress(c)
  PROVE  [Promise!Next]_<<askedBar, issued, answerBar>>
<1> USE AnswerSteps
<1> USE DEF Go, tsaVars
<1>1. TypeOK /\ CallInv(c)
  BY DEF IInv
<1>2. CASE StartChain(c) \/ Ask(c) \/ AttemptFails(c) \/ ReadMore(c)
  <2>1. pc'[c] \notin Final /\ issued' = issued
    BY <1>1, <1>2 DEF StartChain, Ask, AttemptFails, ReadMore, TypeOK, Final
  <2>2. AnswerOf(c)' = None
    BY <2>1 DEF AnswerOf
  <2>3. answerBar' = answerBar
    BY <2>2 DEF answerBar
  <2> QED
    BY <2>1, <2>3
<1>3. CASE RefuseArguments(c) \/ Exhaust(c)
  <2>1. pc'[c] \in Final /\ result' = result /\ issued' = issued
    BY <1>1, <1>3 DEF RefuseArguments, Exhaust, Raise, TypeOK, Final
  <2>2. result[c] = None
    BY <1>1, <1>3 DEF RefuseArguments, Exhaust, CallInv
  <2>3. AnswerOf(c)' = Promise!NoToken
    BY <2>1, <2>2 DEF AnswerOf, Promise!NoToken
  <2>4. Promise!Fail(c)
    BY <2>1, <2>3 DEF Promise!Fail
  <2> QED
    BY <2>4 DEF Promise!Next
<1>4. CASE Accept(c)
  <2>1. PICK t \in issued :
          /\ t.tsa = Current(c)
          /\ t.imprint = req[c].imprint
          /\ result' = [result EXCEPT ![c] = [token |-> t, tsa |-> Current(c),
                                              imprint |-> req[c].imprint]]
    BY <1>4 DEF Accept
  <2>2. pc[c] = "asking" /\ pc'[c] = "returned" /\ issued' = issued
    BY <1>1, <1>4 DEF Accept, TypeOK
  <2>3. t \in Tokens
    BY <1>1 DEF TypeOK
  <2>4. t = [tsa |-> Current(c), imprint |-> req[c].imprint]
    BY <2>1, <2>3 DEF Tokens
  <2>5. Promise!AskedFor(c, t)
    BY <1>1, <2>2, <2>4, SentNow DEF CallInv
  <2>6. result'[c] = Promise!Token(t)
    BY <1>1, <2>1 DEF Promise!Token, TypeOK
  <2>7. result'[c] # None
    <3>1. Promise!Token(t) \in TimestampTokens
      BY <2>3 DEF Promise!Token, TimestampTokens, Tokens
    <3> QED
      BY <2>6, <3>1, TimestampAssumption
  <2>8. AnswerOf(c)' = Promise!Token(t)
    BY <2>2, <2>6, <2>7 DEF AnswerOf, Final
  <2>9. Promise!Succeed(c)
    BY <2>2, <2>5, <2>8 DEF Promise!Succeed
  <2> QED
    BY <2>9 DEF Promise!Next
<1> QED
  BY <1>2, <1>3, <1>4 DEF Progress, ResponseEnds

\* acquire_timestamp_token keeps the promise: whatever number of calls share the
\* TSAs, each is answered once, by a token that a TSA of its chain signed over its
\* very imprint or by a failure, and the TSAs sign nothing else.
THEOREM PromiseKept == Spec => KeepsPromise
<1>1. Init => Promise!Init
  BY DEF Init, Promise!Init, askedBar, answerBar, AnswerOf, Final
<1>2. IInv /\ IInv' /\ [Next]_vars => [Promise!Next]_<<askedBar, issued, answerBar>>
  <2> SUFFICES ASSUME IInv, IInv', [Next]_vars
               PROVE  [Promise!Next]_<<askedBar, issued, answerBar>>
    OBVIOUS
  <2>1. ASSUME NEW c \in Calls, Call(c)
        PROVE  [Promise!Next]_<<askedBar, issued, answerBar>>
    <3>1. /\ pc[c] = "idle" /\ pc'[c] = "called" /\ UNCHANGED <<result, issued>>
          /\ req'[c] # None
      BY <2>1, TimestampAssumption DEF Call, Go, IInv, TypeOK, tsaVars
    <3>2. \A d \in Calls \ {c} : req'[d] = req[d] /\ pc'[d] = pc[d]
      BY <2>1, OneCallSteps DEF IInv
    <3>3. AskOf(c)' \in Promise!Asks
      <4>1. req'[c] \in Requests /\ ChainOf(c)' \in Seq(TSAs)
        BY <3>1, TimestampAssumption DEF IInv, TypeOK, Requests, ChainOf
      <4>2. {ChainOf(c)'[i] : i \in DOMAIN ChainOf(c)'} \in SUBSET TSAs
        BY <4>1
      <4>3. req'[c].imprint \in Imprints
        BY <4>1 DEF Requests
      <4> QED
        BY <4>2, <4>3 DEF AskOf, Promise!Asks
    <3>4. askedBar[c] = None /\ askedBar' = [askedBar EXCEPT ![c] = AskOf(c)']
      <4>1. req[c] = None
        BY <3>1 DEF IInv, CallInv
      <4>2. \A d \in Calls \ {c} : AskOf(d)' = AskOf(d)
        BY <3>2, AskStays
      <4> QED
        BY <3>1, <3>2, <4>1, <4>2 DEF askedBar
    <3>5. answerBar' = answerBar
      BY <3>1, <3>2 DEF answerBar, AnswerOf, Final
    <3>6. Promise!Ask(c)
      BY <3>1, <3>3, <3>4, <3>5 DEF Promise!Ask
    <3> QED
      BY <3>6 DEF Promise!Next
  <2>2. ASSUME NEW c \in Calls, Progress(c)
        PROVE  [Promise!Next]_<<askedBar, issued, answerBar>>
    BY <2>2, ProgressKeepsPromise
  <2>3. CASE Issue
    <3>1. PICK t \in sent : issued' = issued \union {t}
      BY <2>3 DEF Issue
    <3>2. PICK c \in Calls : Promise!AskedFor(c, t)
      BY DEF IInv, SentWasAsked
    <3>3. t \in Promise!Tokens
      BY DEF IInv, TypeOK, Tokens, Promise!Tokens
    <3>4. askedBar' = askedBar /\ answerBar' = answerBar
      BY <2>3, AskStays DEF Issue, askedBar, answerBar, AnswerOf
    <3>5. Promise!Sign
      BY <3>1, <3>2, <3>3, <3>4 DEF Promise!Sign
    <3> QED
      BY <3>5 DEF Promise!Next
  <2>4. CASE UNCHANGED vars
    BY <2>4, AskStays DEF vars, tsaVars, askedBar, answerBar, AnswerOf
  <2> QED
    BY <2>1, <2>2, <2>3, <2>4 DEF Next, AllEnded
<1> QED
  BY <1>1, <1>2, Invariance, PTL DEF Spec, KeepsPromise, Promise!Spec
=============================================================================
