------------------------------- MODULE KmsSigner -------------------------------
(***************************************************************************)
(* The signers (signers/google_kms.py, signers/mnemonic.py) under their    *)
(* policy.  Threads share one signer object, which has one key: they read  *)
(* its address and sign transactions, over and over.  The KMS signer       *)
(* fetches its public key on first use and caches it; its requests fail,   *)
(* reach the KMS garbled, or are answered for another key version or with  *)
(* any field garbled.  The mnemonic signer asks nobody.                    *)
(***************************************************************************)
EXTENDS SignerPolicy

CONSTANTS
  Threads,    \* the threads that share the signer
  Key,        \* the signer's key version, one of Accounts
  Ed25519,    \* the key versions of that algorithm
  Garbled,    \* bytes that were changed on their way
  GarbledCrc  \* a checksum that was

\* A checksum goes by what it is the checksum of.
Signature(key, data) == [key |-> key, data |-> data]
Data == Txns \union {Garbled}
Signatures == [key: Accounts, data: Data]

Uses == [op: {"address"}, txn: {None}] \union [op: {"sign"}, txn: Txns]
Results ==
  [error: {"SignerValidationError", "RuntimeError"}]
  \union [address: Accounts]
  \union [txn: Txns, signature: Signatures]

ASSUME SignerAssumption ==
  /\ Key \in Accounts /\ Ed25519 \subseteq Accounts
  /\ Garbled \notin Accounts \union Txns \union Signatures
  /\ GarbledCrc \notin Accounts \union Signatures \union {Garbled}
  /\ None \notin Results \union Uses

VARIABLES
  backend,  \* "kms" or "mnemonic"
  cached,   \* [key, address]: _cached_raw_pubkey and _cached_address
  at,       \* where each thread is
  use,      \* what it does there
  raw,      \* the public key it has in hand
  result,   \* what it returned or raised last
  sent      \* history: the transactions that the backend was asked to sign

vars == <<backend, cached, at, use, raw, result, sent>>

-------------------------------------------------------------------------------
\* The KMS's answer to get_public_key for key version k, any field garbled.
KeyAnswers(k) == [name: {k, Garbled}, pem: {k, Garbled}, pem_crc32c: {k, GarbledCrc}]

\* Mutated form of KeyAccepted: the checksum is not looked at.
KeyUnchecked(a) == a.name = Key

\* Mutated form of KeyAccepted: the name is not looked at.
KeyOfAnyName(a) == a.pem_crc32c = a.pem /\ a.pem \in Ed25519

KeyAccepted(a) == a.name = Key /\ a.pem_crc32c = a.pem /\ a.pem \in Ed25519

\* What the KMS gets to sign: data whose checksum fits, data whose checksum got
\* lost, or other data whose checksum got lost.  Where a checksum does not fit
\* the KMS refuses.
Received(data) ==
  {[data |-> data, verified |-> TRUE], [data |-> data, verified |-> FALSE],
   [data |-> Garbled, verified |-> FALSE]}

\* Its answer for key version k, any field garbled or missing.
SignAnswers(k, received) ==
  LET signature == Signature(k, received.data) IN
  [name: {k, Garbled}, verified_data_crc32c: {received.verified, FALSE},
   signature: {signature, Garbled}, signature_crc32c: {signature, GarbledCrc}]

\* Mutated form of SignatureAccepted: verified_data_crc32c is not looked at.
SignatureUnverified(a) == a.name = Key /\ a.signature_crc32c = a.signature

\* A garbled signature is of another length or has another checksum.
SignatureAccepted(a) ==
  a.name = Key /\ a.verified_data_crc32c /\ a.signature_crc32c = a.signature

-------------------------------------------------------------------------------
Go(t, from, to) == at[t] = from /\ at' = [at EXCEPT ![t] = to]

Busy == {"type", "address", "fetching", "derive", "addressed", "signing"}

Init ==
  /\ backend \in {"kms", "mnemonic"}
  /\ cached = [key |-> None, address |-> IF backend = "mnemonic" THEN Key ELSE None]
  /\ at = [t \in Threads |-> "done"]
  /\ use = [t \in Threads |-> None]
  /\ raw = [t \in Threads |-> None]
  /\ result = [t \in Threads |-> None]
  /\ sent = {}

\* A thread uses the signer, for the first time or again.
Call(t) ==
  /\ at[t] = "done"
  /\ \E u \in Uses :
       /\ use' = [use EXCEPT ![t] = u]
       /\ at' = [at EXCEPT ![t] = IF u.op = "sign" THEN "type" ELSE "address"]
  /\ result' = [result EXCEPT ![t] = None]
  /\ UNCHANGED <<backend, cached, raw, sent>>

Return(t, from, value) ==
  /\ Go(t, from, "done")
  /\ result' = [result EXCEPT ![t] = value]
  /\ raw' = [raw EXCEPT ![t] = None]

\* The first check: not a PaymentTxn.
RefuseType(t) ==
  /\ Return(t, "type", [error |-> "SignerValidationError"])
  /\ use[t].txn.type # "pay"
  /\ UNCHANGED <<backend, cached, use, sent>>

PassType(t) ==
  /\ Go(t, "type", "address")
  /\ use[t].txn.type = "pay"
  /\ UNCHANGED <<backend, cached, use, raw, result, sent>>

\* The address is there.
HaveAddress(t) ==
  /\ Go(t, "address", "addressed")
  /\ cached.address # None
  /\ UNCHANGED <<backend, cached, use, raw, result, sent>>

\* The public key is there, its address not yet.
HaveKey(t) ==
  /\ Go(t, "address", "derive")
  /\ cached.address = None /\ cached.key # None
  /\ raw' = [raw EXCEPT ![t] = cached.key]
  /\ UNCHANGED <<backend, cached, use, result, sent>>

FetchKey(t) ==
  /\ Go(t, "address", "fetching")
  /\ cached = [key |-> None, address |-> None]
  /\ UNCHANGED <<backend, cached, use, raw, result, sent>>

\* Between FetchKey and the answer other threads may have cached the key.
GetKey(t) ==
  /\ Go(t, "fetching", "derive")
  /\ \E k \in Accounts : \E a \in KeyAnswers(k) :
       /\ KeyAccepted(a)
       /\ cached' = [cached EXCEPT !.key = a.pem]
       /\ raw' = [raw EXCEPT ![t] = a.pem]
  /\ UNCHANGED <<backend, use, result, sent>>

\* Mutated form of KeyFails: a failure drops what is cached.
KeyFailsAndForgets(t) ==
  /\ Return(t, "fetching", [error |-> "RuntimeError"])
  /\ cached' = [key |-> None, address |-> None]
  /\ UNCHANGED <<backend, use, sent>>

\* The request fails, or its answer is refused.
KeyFails(t) ==
  /\ Return(t, "fetching", [error |-> "RuntimeError"])
  /\ UNCHANGED <<backend, cached, use, sent>>

Derive(t) ==
  /\ Go(t, "derive", "addressed")
  /\ cached' = [cached EXCEPT !.address = raw[t]]
  /\ UNCHANGED <<backend, use, raw, result, sent>>

ReturnAddress(t) ==
  /\ Return(t, "addressed", [address |-> cached.address])
  /\ use[t].op = "address"
  /\ UNCHANGED <<backend, cached, use, sent>>

Refuse(t) ==
  /\ Return(t, "addressed", [error |-> "SignerValidationError"])
  /\ use[t].op = "sign" /\ ~Conforms(use[t].txn, cached.address)
  /\ UNCHANGED <<backend, cached, use, sent>>

AskToSign(t) ==
  /\ Go(t, "addressed", "signing")
  /\ use[t].op = "sign" /\ Conforms(use[t].txn, cached.address)
  /\ sent' = sent \union {use[t].txn}
  /\ UNCHANGED <<backend, cached, use, raw, result>>

\* The KMS answers, or algosdk signs.
Sign(t) ==
  /\ at[t] = "signing"
  /\ \/ /\ backend = "kms"
        /\ \E k \in Accounts, r \in Received(use[t].txn) : \E a \in SignAnswers(k, r) :
             /\ SignatureAccepted(a)
             /\ Return(t, "signing", [txn |-> use[t].txn, signature |-> a.signature])
     \/ /\ backend = "mnemonic"
        /\ Return(t, "signing", [txn |-> use[t].txn, signature |-> Signature(Key, use[t].txn)])
  /\ UNCHANGED <<backend, cached, use, sent>>

\* Mutated form of SignFails: the request is made again.
SignAgain(t) ==
  /\ Go(t, "signing", "addressed")
  /\ UNCHANGED <<backend, cached, use, raw, result, sent>>

\* The request or algosdk fails, or the KMS's answer is refused.
SignFails(t) ==
  /\ Return(t, "signing", [error |-> "RuntimeError"])
  /\ UNCHANGED <<backend, cached, use, sent>>

Progress(t) ==
  \/ RefuseType(t) \/ PassType(t)
  \/ HaveAddress(t) \/ HaveKey(t) \/ FetchKey(t)
  \/ GetKey(t) \/ KeyFails(t) \/ Derive(t)
  \/ ReturnAddress(t) \/ Refuse(t) \/ AskToSign(t)
  \/ Sign(t) \/ SignFails(t)

Next == \E t \in Threads : Call(t) \/ Progress(t)

Spec == Init /\ [][Next]_vars

\* A thread that is scheduled takes its steps, and a request to the KMS is
\* answered or fails.
FairSpec == Spec /\ \A t \in Threads : WF_vars(Progress(t))

-------------------------------------------------------------------------------
(***************************************************************************)
(* Properties.                                                             *)
(***************************************************************************)

\* Every variable has its type: bytes that were garbled are in none.
TypeOK ==
  /\ backend \in {"kms", "mnemonic"}
  /\ cached \in [key: Accounts \union {None}, address: Accounts \union {None}]
  /\ at \in [Threads -> Busy \union {"done"}]
  /\ use \in [Threads -> Uses \union {None}]
  /\ raw \in [Threads -> Accounts \union {None}]
  /\ result \in [Threads -> Results \union {None}]
  /\ sent \subseteq Txns

Signed(t) == result[t] # None /\ "signature" \in DOMAIN result[t]
Addressed(t) == result[t] # None /\ "address" \in DOMAIN result[t]

\* Whatever the threads' requests were answered, and however they raced, the
\* signer caches no key but its own, and every address that a thread reads is
\* that key's (GoogleKMSSigner.address, _fetch_raw_public_key).
AddressIsTheKeys ==
  /\ cached.key \in {None, Key} /\ cached.address \in {None, Key}
  /\ \A t \in Threads : Addressed(t) => result[t].address = Key

\* A transaction comes back signed by the signer's own key, over that very
\* transaction and from that key's account: no answer that was garbled or is for
\* another key version gets through (_kms_sign).
SignatureFits ==
  \A t \in Threads : Signed(t) =>
    /\ result[t].txn = use[t].txn /\ result[t].txn.sender = Key
    /\ result[t].signature = Signature(Key, use[t].txn)

\* Nothing is ever given to the backend to sign that would move money, but for a
\* bounded fee, or the right to sign: not even where no signature comes back
\* (sign_transaction, which validates before it asks).
SentMovesNothing ==
  \A txn \in sent : MovesNothing(txn, Key, [a \in Accounts |-> MaxFee])

\* Once there is an address it is never lost or replaced, whatever fails later:
\* a thread that has read it may go on using it.
AddressStays == [][cached.address # None => cached.address' = cached.address]_vars

\* How many changes a use of the signer has at most before it.
StepsLeft == [type |-> 6, address |-> 5, fetching |-> 4, derive |-> 3, addressed |-> 2,
              signing |-> 1, done |-> 0]

UseState(t) == <<at[t], use[t], raw[t], result[t]>>

\* Every change of a use brings it nearer to its end, however the threads race
\* for the cache and whatever the KMS answers: a key is fetched once at most and
\* a signature is asked for once at most, with no retry.
UsesAdvance ==
  [][\A t \in Threads : (at[t] # "done" /\ UseState(t)' # UseState(t)) =>
       StepsLeft[at'[t]] < StepsLeft[at[t]]]_vars

\* Every use of the signer ends, in a result or in an error.
UseEnds == \A t \in Threads : (at[t] # "done") ~> (at[t] = "done")
=============================================================================
