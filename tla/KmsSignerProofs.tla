--------------------------- MODULE KmsSignerProofs ---------------------------
(***************************************************************************)
(* Proofs about module KmsSigner, for any number of threads, any keys and  *)
(* any transactions.  The invariant says what a thread may rely on where   *)
(* it is: past its address there is an address, past the policy its        *)
(* transaction conforms, and the only public key that is ever in anybody's *)
(* hand is the signer's.                                                   *)
(***************************************************************************)
EXTENDS KmsSigner, TLAPS

ThreadOK(t) ==
  /\ raw[t] \in {None, Key}
  /\ at[t] = "derive" => raw[t] = Key
  /\ at[t] # "done" => use[t] \in Uses /\ result[t] = None
  /\ at[t] \in {"type", "signing"} => use[t].op = "sign" /\ use[t].txn \in Txns
  /\ (at[t] \notin {"done", "type"} /\ use[t].op = "sign") => use[t].txn.type = "pay"
  /\ at[t] \in {"addressed", "signing"} => cached.address = Key
  /\ at[t] = "signing" => Conforms(use[t].txn, Key)

IInv ==
  /\ TypeOK
  /\ AddressIsTheKeys
  /\ SignatureFits
  /\ \A txn \in sent : txn.type = "pay" /\ Conforms(txn, Key)
  /\ \A t \in Threads : ThreadOK(t)

-------------------------------------------------------------------------------
\* What the policy lets through does nothing to the accounts but take its fee.
LEMMA ConformsMovesNothing ==
  ASSUME NEW txn \in Txns, txn.type = "pay", Conforms(txn, Key)
  PROVE  MovesNothing(txn, Key, [a \in Accounts |-> MaxFee])
<1> DEFINE b == [a \in Accounts |-> MaxFee]
<1>1. /\ txn.sender = Key /\ txn.receiver = Key /\ txn.amt = 0
      /\ txn.rekey_to = None /\ txn.close_remainder_to = None
      /\ txn.fee # None /\ MinFee <= txn.fee /\ txn.fee <= MaxFee
  BY DEF Conforms, FeeBounded
<1>2. Key \in Accounts /\ MinFee \in Nat /\ MaxFee \in Nat
  BY SignerAssumption, PolicyAssumption
<1>3. txn.fee \in Int
  BY <1>1, TransactionAssumption DEF Transactions
<1>4. FeePaid(b, txn) = [b EXCEPT ![Key] = MaxFee - txn.fee]
  BY <1>1, <1>2 DEF FeePaid
<1>5. BalanceAfter(b, txn) = Pay(FeePaid(b, txn), Key, Key, 0)
  BY <1>1 DEF BalanceAfter
<1>6. \A a \in Accounts :
        BalanceAfter(b, txn)[a] = IF a = Key THEN MaxFee - txn.fee ELSE MaxFee
  <2> TAKE a \in Accounts
  <2>1. FeePaid(b, txn)[a] = IF a = Key THEN MaxFee - txn.fee ELSE MaxFee
    BY <1>4
  <2>2. Pay(FeePaid(b, txn), Key, Key, 0)[a] = FeePaid(b, txn)[a] - (IF a = Key THEN 0 ELSE 0)
                                                                  + (IF a = Key THEN 0 ELSE 0)
    BY DEF Pay
  <2> QED BY <2>1, <2>2, <1>2, <1>3, <1>5
<1>7. b[Key] - BalanceAfter(b, txn)[Key] = txn.fee
  BY <1>2, <1>3, <1>6
<1>8. SignerAfter(txn) = Key
  BY <1>1 DEF SignerAfter
<1> QED BY <1>1, <1>2, <1>3, <1>6, <1>7, <1>8 DEF MovesNothing

\* An answer that is accepted holds the signer's key.
LEMMA AcceptedKey ==
  ASSUME NEW k \in Accounts, NEW a \in KeyAnswers(k), KeyAccepted(a)
  PROVE  a.pem = Key
  BY SignerAssumption DEF KeyAnswers, KeyAccepted

\* An answer that is accepted holds the key's signature over what was sent.
LEMMA AcceptedSignature ==
  ASSUME NEW k \in Accounts, NEW txn \in Txns, NEW r \in Received(txn),
         NEW a \in SignAnswers(k, r), SignatureAccepted(a)
  PROVE  a.signature = Signature(Key, txn)
<1>1. a.name = Key /\ a.verified_data_crc32c = TRUE /\ a.signature_crc32c = a.signature
  BY DEF SignatureAccepted, SignAnswers, Received
<1>2. k = Key
  BY <1>1, SignerAssumption DEF SignAnswers
<1>3. r.data = txn
  <2>1. r.verified = TRUE
    BY <1>1 DEF SignAnswers
  <2> QED BY <2>1 DEF Received
<1>4. Signature(k, txn) \in Signatures
  BY DEF Signature, Signatures, Data
<1>5. a.signature = Signature(k, r.data)
  BY <1>1, <1>3, <1>4, SignerAssumption DEF SignAnswers
<1> QED BY <1>2, <1>3, <1>5

\* The initial states satisfy the invariant.
LEMMA InitInv == Init => IInv
  BY SignerAssumption
  DEF Init, IInv, TypeOK, AddressIsTheKeys, Addressed, SignatureFits, Signed, ThreadOK, Busy

\* What holds of a thread stays true while it does not step and no address is
\* dropped.
LEMMA Undisturbed ==
  ASSUME NEW t \in Threads, ThreadOK(t),
         cached.address = Key => cached'.address = Key,
         at'[t] = at[t], use'[t] = use[t], raw'[t] = raw[t], result'[t] = result[t]
  PROVE  ThreadOK(t)'
  BY DEF ThreadOK

\* A step of one thread preserves the invariant if it preserves what the
\* invariant says of that thread, of the cache and of what is sent.
LEMMA OneSteps ==
  ASSUME IInv, NEW t \in Threads, TypeOK',
         cached'.key \in {None, Key}, cached'.address \in {None, Key},
         cached.address = Key => cached'.address = Key,
         \A txn \in sent' : txn.type = "pay" /\ Conforms(txn, Key),
         Addressed(t)' => result'[t].address = Key,
         Signed(t)' => /\ result'[t].txn = use'[t].txn /\ result'[t].txn.sender = Key
                       /\ result'[t].signature = Signature(Key, use'[t].txn),
         ThreadOK(t)',
         \A u \in Threads \ {t} :
           at'[u] = at[u] /\ use'[u] = use[u] /\ raw'[u] = raw[u] /\ result'[u] = result[u]
  PROVE  IInv'
<1>1. \A u \in Threads : ThreadOK(u)'
  BY Undisturbed DEF IInv
<1>2. AddressIsTheKeys'
  BY DEF IInv, AddressIsTheKeys, Addressed
<1>3. SignatureFits'
  BY DEF IInv, SignatureFits, Signed
<1> QED BY <1>1, <1>2, <1>3 DEF IInv

\* Calling preserves the invariant.
LEMMA CallStep ==
  ASSUME IInv, NEW t \in Threads, Call(t)
  PROVE  IInv'
<1>1. PICK u \in Uses :
        /\ use' = [use EXCEPT ![t] = u]
        /\ at' = [at EXCEPT ![t] = IF u.op = "sign" THEN "type" ELSE "address"]
  BY DEF Call
<1>2. /\ at[t] = "done" /\ result' = [result EXCEPT ![t] = None]
      /\ UNCHANGED <<backend, cached, raw, sent>>
  BY DEF Call
<1>3. u.op = "sign" => u.txn \in Txns
  BY DEF Uses
<1>4. TypeOK'
  BY <1>1, <1>2 DEF IInv, TypeOK, Busy
<1>5. use'[t] = u /\ result'[t] = None
      /\ at'[t] = IF u.op = "sign" THEN "type" ELSE "address"
  BY <1>1, <1>2 DEF IInv, TypeOK
<1>6. ThreadOK(t)'
  BY <1>2, <1>3, <1>5 DEF IInv, ThreadOK
<1>7. \A v \in Threads \ {t} :
        at'[v] = at[v] /\ use'[v] = use[v] /\ raw'[v] = raw[v] /\ result'[v] = result[v]
  BY <1>1, <1>2 DEF IInv, TypeOK
<1>8. ~Addressed(t)' /\ ~Signed(t)'
  BY <1>5 DEF Addressed, Signed
<1>9. /\ cached'.key \in {None, Key} /\ cached'.address \in {None, Key}
      /\ \A txn \in sent' : txn.type = "pay" /\ Conforms(txn, Key)
  BY <1>2 DEF IInv, AddressIsTheKeys
<1> QED BY <1>2, <1>4, <1>6, <1>7, <1>8, <1>9, OneSteps

\* Returning a value that is true preserves the invariant.
LEMMA ReturnStep ==
  ASSUME IInv, NEW t \in Threads, NEW from \in Busy, NEW value \in Results,
         Return(t, from, value), UNCHANGED <<backend, cached, use, sent>>,
         "address" \in DOMAIN value => value.address = Key,
         "signature" \in DOMAIN value =>
           /\ value.txn = use[t].txn /\ value.txn.sender = Key
           /\ value.signature = Signature(Key, use[t].txn)
  PROVE  IInv'
<1>1. /\ at' = [at EXCEPT ![t] = "done"]
      /\ result' = [result EXCEPT ![t] = value]
      /\ raw' = [raw EXCEPT ![t] = None]
  BY DEF Return, Go
<1>2. TypeOK'
  BY <1>1 DEF IInv, TypeOK
<1>3. at'[t] = "done" /\ result'[t] = value /\ raw'[t] = None
  BY <1>1 DEF IInv, TypeOK
<1>4. ThreadOK(t)'
  BY <1>3 DEF ThreadOK
<1>5. \A u \in Threads \ {t} : at'[u] = at[u] /\ raw'[u] = raw[u] /\ result'[u] = result[u]
  BY <1>1 DEF IInv, TypeOK
<1>6. /\ Addressed(t)' => result'[t].address = Key
      /\ Signed(t)' => /\ result'[t].txn = use'[t].txn /\ result'[t].txn.sender = Key
                       /\ result'[t].signature = Signature(Key, use'[t].txn)
  BY <1>3 DEF Addressed, Signed
<1>7. /\ cached'.key \in {None, Key} /\ cached'.address \in {None, Key}
      /\ \A txn \in sent' : txn.type = "pay" /\ Conforms(txn, Key)
  BY DEF IInv, AddressIsTheKeys
<1> QED BY <1>2, <1>4, <1>5, <1>6, <1>7, OneSteps

\* Raising preserves the invariant.
LEMMA RaiseStep ==
  ASSUME IInv, NEW t \in Threads, RefuseType(t) \/ KeyFails(t) \/ Refuse(t) \/ SignFails(t)
  PROVE  IInv'
<1>1. PICK from \in Busy, error \in {"SignerValidationError", "RuntimeError"} :
        Return(t, from, [error |-> error]) /\ UNCHANGED <<backend, cached, use, sent>>
  BY DEF RefuseType, KeyFails, Refuse, SignFails, Busy
<1>2. [error |-> error] \in Results
  BY DEF Results
<1>3. "address" \notin DOMAIN [error |-> error] /\ "signature" \notin DOMAIN [error |-> error]
  OBVIOUS
<1> QED BY <1>1, <1>2, <1>3, ReturnStep

\* Returning the address preserves the invariant.
LEMMA ReturnAddressStep ==
  ASSUME IInv, NEW t \in Threads, ReturnAddress(t)
  PROVE  IInv'
<1>1. cached.address = Key
  BY DEF IInv, ThreadOK, ReturnAddress, Return, Go
<1>2. Return(t, "addressed", [address |-> Key]) /\ UNCHANGED <<backend, cached, use, sent>>
  BY <1>1 DEF ReturnAddress
<1>3. [address |-> Key] \in Results
  BY SignerAssumption DEF Results
<1>4. "signature" \notin DOMAIN [address |-> Key] /\ [address |-> Key].address = Key
  OBVIOUS
<1> QED BY <1>2, <1>3, <1>4, ReturnStep DEF Busy

\* Signing preserves the invariant.
LEMMA SignStep ==
  ASSUME IInv, NEW t \in Threads, Sign(t)
  PROVE  IInv'
<1> DEFINE txn == use[t].txn
           value == [txn |-> txn, signature |-> Signature(Key, txn)]
<1>1. at[t] = "signing" /\ UNCHANGED <<backend, cached, use, sent>>
  BY DEF Sign
<1>2. txn \in Txns /\ txn.sender = Key
  BY <1>1 DEF IInv, ThreadOK, Conforms
<1>3. Return(t, "signing", value)
  <2>1. CASE /\ backend = "kms"
             /\ \E k \in Accounts, r \in Received(use[t].txn) : \E a \in SignAnswers(k, r) :
                  /\ SignatureAccepted(a)
                  /\ Return(t, "signing", [txn |-> use[t].txn, signature |-> a.signature])
    BY <2>1, <1>2, AcceptedSignature
  <2>2. CASE /\ backend = "mnemonic"
             /\ Return(t, "signing", [txn |-> use[t].txn, signature |-> Signature(Key, use[t].txn)])
    BY <2>2
  <2> QED BY <2>1, <2>2 DEF Sign
<1>4. value \in Results
  BY <1>2, SignerAssumption DEF Results, Signatures, Signature, Data
<1>5. /\ "address" \notin DOMAIN value
      /\ value.txn = use[t].txn /\ value.txn.sender = Key
      /\ value.signature = Signature(Key, use[t].txn)
  BY <1>2
<1> QED BY <1>1, <1>3, <1>4, <1>5, ReturnStep DEF Busy

\* The steps that leave the cache and what is sent alone preserve the invariant.
LEMMA MoveStep ==
  ASSUME IInv, NEW t \in Threads, PassType(t) \/ HaveAddress(t) \/ HaveKey(t) \/ FetchKey(t)
  PROVE  IInv'
<1>1. /\ UNCHANGED <<backend, cached, use, result, sent>>
      /\ at[t] \in {"type", "address"}
      /\ \E to \in Busy : at' = [at EXCEPT ![t] = to]
      /\ \E k \in {raw[t], cached.key} : raw' = [raw EXCEPT ![t] = k]
  <2>1. raw = [raw EXCEPT ![t] = raw[t]]
    BY DEF IInv, TypeOK
  <2> QED BY <2>1 DEF PassType, HaveAddress, HaveKey, FetchKey, Go, Busy
<1>2. TypeOK'
  BY <1>1 DEF IInv, TypeOK
<1>3. ThreadOK(t)'
  <2>1. ThreadOK(t) /\ cached.address \in {None, Key} /\ cached.key \in {None, Key}
    BY DEF IInv, AddressIsTheKeys
  <2>2. CASE PassType(t)
    <3>1. at[t] = "type" /\ at'[t] = "address" /\ raw' = raw /\ use[t].txn.type = "pay"
      BY <2>2 DEF PassType, Go, IInv, TypeOK
    <3> QED BY <3>1, <2>1, <1>1 DEF ThreadOK
  <2>3. CASE HaveAddress(t)
    <3>1. at[t] = "address" /\ at'[t] = "addressed" /\ raw' = raw /\ cached.address = Key
      BY <2>3, <2>1 DEF HaveAddress, Go, IInv, TypeOK
    <3> QED BY <3>1, <2>1, <1>1 DEF ThreadOK
  <2>4. CASE HaveKey(t)
    <3>1. at[t] = "address" /\ at'[t] = "derive" /\ raw'[t] = Key
      BY <2>4, <2>1 DEF HaveKey, Go, IInv, TypeOK
    <3> QED BY <3>1, <2>1, <1>1 DEF ThreadOK
  <2>5. CASE FetchKey(t)
    <3>1. at[t] = "address" /\ at'[t] = "fetching" /\ raw' = raw
      BY <2>5 DEF FetchKey, Go, IInv, TypeOK
    <3> QED BY <3>1, <2>1, <1>1 DEF ThreadOK
  <2> QED BY <2>2, <2>3, <2>4, <2>5
<1>4. \A u \in Threads \ {t} : at'[u] = at[u] /\ raw'[u] = raw[u]
  BY <1>1 DEF IInv, TypeOK
<1>5. /\ cached'.key \in {None, Key} /\ cached'.address \in {None, Key}
      /\ \A txn \in sent' : txn.type = "pay" /\ Conforms(txn, Key)
  BY <1>1 DEF IInv, AddressIsTheKeys
<1>6. ~Addressed(t)' /\ ~Signed(t)'
  BY <1>1 DEF IInv, ThreadOK, Addressed, Signed
<1> QED BY <1>1, <1>2, <1>3, <1>4, <1>5, <1>6, OneSteps

\* Caching the key that was fetched, or its address, preserves the invariant.
LEMMA CacheStep ==
  ASSUME IInv, NEW t \in Threads, GetKey(t) \/ Derive(t)
  PROVE  IInv'
<1>1. /\ UNCHANGED <<backend, use, result, sent>>
      /\ at[t] \in {"fetching", "derive"}
      /\ at' = [at EXCEPT ![t] = IF at[t] = "fetching" THEN "derive" ELSE "addressed"]
  BY DEF GetKey, Derive, Go
<1>2. /\ cached' = [cached EXCEPT !.key = Key] \/ cached' = [cached EXCEPT !.address = Key]
      /\ at[t] = "derive" => cached' = [cached EXCEPT !.address = Key]
      /\ raw' = [raw EXCEPT ![t] = Key]
  <2>1. CASE GetKey(t)
    BY <2>1, AcceptedKey DEF GetKey, Go
  <2>2. CASE Derive(t)
    <3>1. raw[t] = Key /\ raw' = raw
      BY <2>2 DEF Derive, Go, IInv, ThreadOK
    <3>2. raw = [raw EXCEPT ![t] = raw[t]]
      BY DEF IInv, TypeOK
    <3> QED BY <2>2, <3>1, <3>2 DEF Derive
  <2> QED BY <2>1, <2>2
<1>3. Key \in Accounts
  BY SignerAssumption
<1>4. TypeOK'
  BY <1>1, <1>2, <1>3 DEF IInv, TypeOK, Busy
<1>5. /\ cached'.key \in {None, Key} /\ cached'.address \in {None, Key}
      /\ cached.address = Key => cached'.address = Key
      /\ at[t] = "derive" => cached'.address = Key
  BY <1>2 DEF IInv, TypeOK, AddressIsTheKeys
<1>6. raw'[t] = Key /\ at'[t] = IF at[t] = "fetching" THEN "derive" ELSE "addressed"
  BY <1>1, <1>2 DEF IInv, TypeOK
<1>7. ThreadOK(t)'
  BY <1>1, <1>5, <1>6 DEF IInv, ThreadOK
<1>8. \A u \in Threads \ {t} : at'[u] = at[u] /\ raw'[u] = raw[u]
  BY <1>1, <1>2 DEF IInv, TypeOK
<1>9. ~Addressed(t)' /\ ~Signed(t)'
  BY <1>1 DEF IInv, ThreadOK, Addressed, Signed
<1>10. \A txn \in sent' : txn.type = "pay" /\ Conforms(txn, Key)
  BY <1>1 DEF IInv
<1> QED BY <1>1, <1>4, <1>5, <1>7, <1>8, <1>9, <1>10, OneSteps

\* Asking the backend to sign preserves the invariant.
LEMMA AskStep ==
  ASSUME IInv, NEW t \in Threads, AskToSign(t)
  PROVE  IInv'
<1>1. /\ at[t] = "addressed" /\ at' = [at EXCEPT ![t] = "signing"]
      /\ use[t].op = "sign" /\ Conforms(use[t].txn, cached.address)
      /\ sent' = sent \union {use[t].txn}
      /\ UNCHANGED <<backend, cached, use, raw, result>>
  BY DEF AskToSign, Go
<1>2. ThreadOK(t) /\ use[t] \in Uses /\ cached.address = Key /\ use[t].txn.type = "pay"
      /\ result[t] = None
  BY <1>1 DEF IInv, ThreadOK
<1>3. use[t].txn \in Txns
  BY <1>1, <1>2 DEF Uses
<1>4. TypeOK'
  BY <1>1, <1>3 DEF IInv, TypeOK, Busy
<1>5. at'[t] = "signing"
  BY <1>1 DEF IInv, TypeOK
<1>6. ThreadOK(t)'
  BY <1>1, <1>2, <1>3, <1>5 DEF ThreadOK
<1>7. \A u \in Threads \ {t} : at'[u] = at[u]
  BY <1>1 DEF IInv, TypeOK
<1>8. \A txn \in sent' : txn.type = "pay" /\ Conforms(txn, Key)
  BY <1>1, <1>2 DEF IInv
<1>9. ~Addressed(t)' /\ ~Signed(t)'
  BY <1>1, <1>2 DEF Addressed, Signed
<1>10. cached'.key \in {None, Key} /\ cached'.address \in {None, Key}
  BY <1>1 DEF IInv, AddressIsTheKeys
<1> QED BY <1>1, <1>4, <1>6, <1>7, <1>8, <1>9, <1>10, OneSteps

\* A stuttering step preserves the invariant.
LEMMA StutterStep == IInv /\ UNCHANGED vars => IInv'
<1> SUFFICES ASSUME IInv, UNCHANGED vars PROVE IInv'
  OBVIOUS
<1> USE DEF vars
<1>1. \A t \in Threads : ThreadOK(t)'
  BY Undisturbed DEF IInv
<1>2. TypeOK' /\ AddressIsTheKeys' /\ SignatureFits'
  BY DEF IInv, TypeOK, AddressIsTheKeys, Addressed, SignatureFits, Signed
<1> QED BY <1>1, <1>2 DEF IInv

\* The invariant is inductive: the key and the policy hold wherever a thread is.
THEOREM Invariance == Spec => []IInv
<1>1. IInv /\ [Next]_vars => IInv'
  <2> SUFFICES ASSUME IInv, [Next]_vars PROVE IInv'
    OBVIOUS
  <2> QED BY CallStep, RaiseStep, ReturnAddressStep, SignStep, MoveStep, CacheStep, AskStep,
             StutterStep
          DEF Next, Progress
<1> QED BY InitInv, <1>1, PTL DEF Spec

-------------------------------------------------------------------------------
\* Every variable of the signer has its type.
THEOREM TypeCorrect == Spec => []TypeOK
<1>1. IInv => TypeOK
  BY DEF IInv
<1> QED BY <1>1, Invariance, PTL

\* The cache and every address that is read are of the signer's own key.
THEOREM OwnAddress == Spec => []AddressIsTheKeys
<1>1. IInv => AddressIsTheKeys
  BY DEF IInv
<1> QED BY <1>1, Invariance, PTL

\* Every signature that is returned is of the signer's key over its transaction.
THEOREM OwnSignature == Spec => []SignatureFits
<1>1. IInv => SignatureFits
  BY DEF IInv
<1> QED BY <1>1, Invariance, PTL

\* What is given to the backend to sign takes a bounded fee and nothing else.
THEOREM OnlyAnchorsSent == Spec => []SentMovesNothing
<1>1. IInv => SentMovesNothing
  BY ConformsMovesNothing DEF IInv, SentMovesNothing, TypeOK
<1> QED BY <1>1, Invariance, PTL

\* An address that is cached stays, whatever the threads do.
THEOREM AddressKept == Spec => AddressStays
<1>1. IInv /\ [Next]_vars => (cached.address # None => cached'.address = cached.address)
  <2> SUFFICES ASSUME IInv, [Next]_vars, cached.address # None
               PROVE  cached'.address = cached.address
    OBVIOUS
  <2>1. cached.address = Key /\ cached \in [key: Accounts \union {None}, address: Accounts \union {None}]
    BY DEF IInv, AddressIsTheKeys, TypeOK
  <2>2. ASSUME NEW t \in Threads, GetKey(t) PROVE cached'.address = cached.address
    BY <2>1, <2>2 DEF GetKey
  <2>3. ASSUME NEW t \in Threads, Derive(t) PROVE cached'.address = cached.address
    <3>1. raw[t] = Key
      BY <2>3 DEF IInv, ThreadOK, Derive, Go
    <3> QED BY <2>1, <2>3, <3>1 DEF Derive
  <2>4. ASSUME NEW t \in Threads,
               \/ Call(t) \/ RefuseType(t) \/ PassType(t)
               \/ HaveAddress(t) \/ HaveKey(t) \/ FetchKey(t) \/ KeyFails(t)
               \/ ReturnAddress(t) \/ Refuse(t) \/ AskToSign(t) \/ Sign(t) \/ SignFails(t)
        PROVE  cached'.address = cached.address
    BY <2>4 DEF Call, RefuseType, PassType, HaveAddress, HaveKey, FetchKey, KeyFails,
                ReturnAddress, Refuse, AskToSign, Sign, SignFails
  <2>5. CASE UNCHANGED vars
    BY <2>5 DEF vars
  <2> QED BY <2>2, <2>3, <2>4, <2>5 DEF Next, Progress
<1>2. IInv /\ [Next]_vars => [cached.address # None => cached.address' = cached.address]_vars
  BY <1>1
<1> QED BY <1>2, Invariance, PTL DEF Spec, AddressStays

\* A step of a thread brings its use of the signer nearer to its end.
LEMMA ProgressAdvances ==
  ASSUME IInv, NEW t \in Threads, Progress(t)
  PROVE  /\ StepsLeft[at'[t]] < StepsLeft[at[t]]
         /\ \A u \in Threads \ {t} : UseState(u)' = UseState(u)
<1>1. \E from \in Busy, to \in Busy \union {"done"} :
        /\ at[t] = from /\ at' = [at EXCEPT ![t] = to] /\ StepsLeft[to] < StepsLeft[from]
  BY SMTT(60)
  DEF Progress, Go, Return, StepsLeft, Busy, RefuseType, PassType, HaveAddress, HaveKey, FetchKey,
      GetKey, KeyFails, Derive, ReturnAddress, Refuse, AskToSign, Sign, SignFails
<1>2. use' = use /\ \A u \in Threads \ {t} : raw'[u] = raw[u] /\ result'[u] = result[u]
  BY SMTT(60)
  DEF IInv, TypeOK, Progress, Return, RefuseType, PassType, HaveAddress, HaveKey, FetchKey,
      GetKey, KeyFails, Derive, ReturnAddress, Refuse, AskToSign, Sign, SignFails
<1>3. at \in [Threads -> Busy \union {"done"}]
  BY DEF IInv, TypeOK
<1> QED BY <1>1, <1>2, <1>3 DEF UseState

\* Every change of a use of the signer brings it nearer to its end, so that a
\* thread that is never stopped comes to it: what is left to fairness is that it
\* steps.
THEOREM UsesOnlyAdvance == Spec => UsesAdvance
<1> DEFINE Advances == \A t \in Threads : (at[t] # "done" /\ UseState(t)' # UseState(t)) =>
                         StepsLeft[at'[t]] < StepsLeft[at[t]]
<1>1. IInv /\ [Next]_vars => Advances
  <2> SUFFICES ASSUME IInv, [Next]_vars, NEW t \in Threads,
                      at[t] # "done", UseState(t)' # UseState(t)
               PROVE  StepsLeft[at'[t]] < StepsLeft[at[t]]
    OBVIOUS
  <2>1. ASSUME NEW u \in Threads, Progress(u) PROVE StepsLeft[at'[t]] < StepsLeft[at[t]]
    BY <2>1, ProgressAdvances
  <2>2. ASSUME NEW u \in Threads, Call(u) PROVE FALSE
    <3>1. t # u
      BY <2>2 DEF Call
    <3> QED BY <2>2, <3>1 DEF Call, IInv, TypeOK, UseState
  <2>3. CASE UNCHANGED vars
    BY <2>3 DEF vars, UseState
  <2> QED BY <2>1, <2>2, <2>3 DEF Next
<1>2. IInv /\ [Next]_vars => [Advances]_vars
  BY <1>1
<1> QED BY <1>2, Invariance, PTL DEF Spec, UsesAdvance
=============================================================================
