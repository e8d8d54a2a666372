------------------------------ MODULE Timestamp ------------------------------
(***************************************************************************)
(* acquire_timestamp_token (src/actproof/timestamp.py): a chain of         *)
(* RFC 3161 authorities (TSAs) is asked in order and the first token that  *)
(* verifies is returned, with one attempt recorded per TSA asked.  Any     *)
(* number of calls run at once against the same TSAs.  Each action is the  *)
(* code up to and including its next read from the network.                *)
(***************************************************************************)
EXTENDS Integers, Sequences

CONSTANTS
  Calls,         \* the calls to acquire_timestamp_token
  TSAs,          \* the endpoints
  Digests,       \* the digests callers have stamped
  Algs, Sizes,   \* the hash_alg names and imprint lengths callers pass
  Chains,        \* the chains callers pass
  DefaultChain,  \* DEFAULT_TSA_CHAIN
  None

\* _EXPECTED_DIGEST_BYTES, whose keys are those of _DIGEST_MAP.
ExpectedDigestBytes ==
  [a \in {"sha-224", "sha3-224", "sha-256", "sha3-256",
          "sha-384", "sha3-384", "sha-512", "sha3-512"} |->
     CASE a \in {"sha-224", "sha3-224"} -> 28
       [] a \in {"sha-256", "sha3-256"} -> 32
       [] a \in {"sha-384", "sha3-384"} -> 48
       [] OTHER -> 64]

Imprints == [digest: Digests, bytes: Sizes]
Requests == [imprint: Imprints, alg: Algs, chain: Chains \union {None},
             raise: BOOLEAN]

\* What a TSA signs: the imprint it was sent.
Tokens == [tsa: TSAs, imprint: Imprints]

\* The TimestampToken of receipt.py: the signed bytes, and beside them the name
\* of the chain entry and the imprint that was asked for.
TimestampTokens == [token: Tokens, tsa: TSAs, imprint: Imprints]
TSAAttempts == [tsa: TSAs, ok: BOOLEAN]
Reasons == {"imprint", "algorithm", "empty", "all failed"}

ASSUME TimestampAssumption ==
  /\ Chains \subseteq Seq(TSAs)
  /\ DefaultChain \in Seq(TSAs) \ {<<>>}
  /\ None \notin Requests \union TimestampTokens \union Chains \union Reasons

VARIABLES
  pc,        \* where each call is
  req,       \* its arguments
  attempts,  \* the attempts it has recorded
  result,    \* the token it returned
  error,     \* why it raised
  sent,      \* the requests that have reached a TSA
  issued,    \* the tokens the TSAs have signed
  chunk      \* flips with every piece of a response a call reads

tsaVars == <<sent, issued>>
vars == <<pc, req, attempts, result, error, tsaVars, chunk>>

PCs == {"idle", "called", "next", "asking", "returned", "raised"}
Final == {"returned", "raised"}

ChainOf(c) == IF req[c].chain = None THEN DefaultChain ELSE req[c].chain

\* The TSA whose turn it is.
Position(c) == Len(attempts[c]) + 1
LastFirst(c) == ChainOf(c)[Len(ChainOf(c)) - Len(attempts[c])]  \* mutated
Current(c) == ChainOf(c)[Position(c)]

Go(c, from, to) == pc[c] = from /\ pc' = [pc EXCEPT ![c] = to]

Raise(c, reason) == error' = [error EXCEPT ![c] = reason] /\ UNCHANGED result

\* Mutated form of Record: the attempt does not say which TSA it was.
NamelessAttempt(c, ok) ==
  attempts' = [attempts EXCEPT ![c] = Append(@, [tsa |-> None, ok |-> ok])]

Record(c, ok) ==
  attempts' = [attempts EXCEPT ![c] = Append(@, [tsa |-> Current(c), ok |-> ok])]

Init ==
  /\ pc = [c \in Calls |-> "idle"]
  /\ req = [c \in Calls |-> None]
  /\ attempts = [c \in Calls |-> <<>>]
  /\ result = [c \in Calls |-> None]
  /\ error = [c \in Calls |-> None]
  /\ sent = {}
  /\ issued = {}
  /\ chunk = [c \in Calls |-> FALSE]

(***************************************************************************)
(* The arguments.                                                          *)
(***************************************************************************)

Call(c) ==
  /\ Go(c, "idle", "called")
  /\ \E r \in Requests : req' = [req EXCEPT ![c] = r]
  /\ UNCHANGED <<attempts, result, error, tsaVars, chunk>>

\* _validate_imprint lets an unknown algorithm pass ...
BadImprint(c) ==
  /\ req[c].alg \in DOMAIN ExpectedDigestBytes
  /\ req[c].imprint.bytes # ExpectedDigestBytes[req[c].alg]

\* ... and _digest_enum refuses it.
BadAlgorithm(c) == req[c].alg \notin DOMAIN ExpectedDigestBytes

RefuseArguments(c) ==
  /\ Go(c, "called", "raised")
  /\ \/ BadImprint(c) /\ Raise(c, "imprint")
     \/ BadAlgorithm(c) /\ Raise(c, "algorithm")
     \/ ~BadImprint(c) /\ ~BadAlgorithm(c) /\ ChainOf(c) = <<>> /\ Raise(c, "empty")
  /\ UNCHANGED <<req, attempts, tsaVars, chunk>>

StartChain(c) ==
  /\ Go(c, "called", "next")
  /\ ~BadImprint(c) /\ ~BadAlgorithm(c) /\ ChainOf(c) # <<>>
  /\ UNCHANGED <<req, attempts, result, error, tsaVars, chunk>>

(***************************************************************************)
(* The loop over the chain.                                                *)
(***************************************************************************)

\* signer.sign posts the request, which may never arrive.
Ask(c) ==
  /\ Go(c, "next", "asking")
  /\ Position(c) <= Len(ChainOf(c))
  /\ sent' \in {sent, sent \union {[tsa |-> Current(c), imprint |-> req[c].imprint]}}
  /\ UNCHANGED <<req, attempts, result, error, issued, chunk>>

\* Mutated form of Accept: the answer is not verified against the imprint.
AcceptUnverified(c) ==
  /\ Go(c, "asking", "returned")
  /\ \E token \in issued :
       /\ token.tsa = Current(c)
       /\ result' = [result EXCEPT ![c] = [token |-> token, tsa |-> Current(c),
                                           imprint |-> req[c].imprint]]
  /\ Record(c, TRUE)
  /\ UNCHANGED <<req, error, tsaVars, chunk>>

\* The TSA's answer is a token of its own, perhaps of another request; verifier.
\* verify holds it against the imprint, and the first that verifies is returned.
Accept(c) ==
  /\ Go(c, "asking", "returned")
  /\ \E token \in issued :
       /\ token.tsa = Current(c)
       /\ token.imprint = req[c].imprint
       /\ result' = [result EXCEPT ![c] = [token |-> token, tsa |-> Current(c),
                                           imprint |-> req[c].imprint]]
  /\ Record(c, TRUE)
  /\ UNCHANGED <<req, error, tsaVars, chunk>>

\* Mutated form of AttemptFails: the failed attempt is not recorded, so the same
\* TSA is asked again.
RetrySameTSA(c) ==
  /\ Go(c, "asking", "next")
  /\ UNCHANGED <<req, attempts, result, error, tsaVars, chunk>>

\* No connection, a timeout, an HTTP error, an answer that does not parse, one
\* that does not verify: the next TSA's turn.
AttemptFails(c) ==
  /\ Go(c, "asking", "next")
  /\ Record(c, FALSE)
  /\ UNCHANGED <<req, result, error, tsaVars, chunk>>

\* Another piece of the response arrives within the read timeout.
ReadMore(c) ==
  /\ pc[c] = "asking"
  /\ chunk' = [chunk EXCEPT ![c] = ~@]
  /\ UNCHANGED <<pc, req, attempts, result, error, tsaVars>>

\* Mutated form of Exhaust: gives up at the last TSA without asking it.
ExhaustEarly(c) ==
  /\ Go(c, "next", IF req[c].raise THEN "raised" ELSE "returned")
  /\ Position(c) >= Len(ChainOf(c))
  /\ IF req[c].raise THEN Raise(c, "all failed") ELSE UNCHANGED <<result, error>>
  /\ UNCHANGED <<req, attempts, tsaVars, chunk>>

\* Every TSA failed.
Exhaust(c) ==
  /\ Go(c, "next", IF req[c].raise THEN "raised" ELSE "returned")
  /\ Position(c) > Len(ChainOf(c))
  /\ IF req[c].raise THEN Raise(c, "all failed") ELSE UNCHANGED <<result, error>>
  /\ UNCHANGED <<req, attempts, tsaVars, chunk>>

(***************************************************************************)
(* The TSAs.                                                               *)
(***************************************************************************)

\* A TSA signs a request that reached it, be its sender still waiting or not.
Issue ==
  /\ \E r \in sent : issued' = issued \union {r}
  /\ UNCHANGED <<pc, req, attempts, result, error, sent, chunk>>

ResponseEnds(c) == Accept(c) \/ AttemptFails(c)

Progress(c) ==
  \/ RefuseArguments(c) \/ StartChain(c) \/ Ask(c)
  \/ ResponseEnds(c) \/ ReadMore(c) \/ Exhaust(c)

\* Every call has ended and every request is answered.
AllEnded == (\A c \in Calls : pc[c] \in Final) /\ UNCHANGED vars

Next == (\E c \in Calls : Call(c) \/ Progress(c)) \/ Issue \/ AllEnded

Spec == Init /\ [][Next]_vars

\* The code runs on and every single read ends, in data or in the read timeout:
\* all that the timeouts of _build_transport give.
FairSpec == Spec /\ \A c \in Calls : WF_vars(Progress(c))

\* Moreover no response comes in pieces for ever.
FiniteResponses == FairSpec /\ \A c \in Calls : SF_vars(ResponseEnds(c))

-------------------------------------------------------------------------------
(***************************************************************************)
(* Properties.                                                             *)
(***************************************************************************)

\* Every variable has its type.
TypeOK ==
  /\ pc \in [Calls -> PCs]
  /\ req \in [Calls -> Requests \union {None}]
  /\ attempts \in [Calls -> Seq(TSAAttempts)]
  /\ result \in [Calls -> TimestampTokens \union {None}]
  /\ error \in [Calls -> Reasons \union {None}]
  /\ sent \subseteq Tokens
  /\ issued \subseteq sent
  /\ chunk \in [Calls -> BOOLEAN]

\* The first n TSAs of the chain of c were each asked once, in order, and failed.
FirstFailed(c, n) ==
  /\ n \in 0..Len(ChainOf(c))
  /\ n <= Len(attempts[c])
  /\ \A i \in 1..n : attempts[c][i] = [tsa |-> ChainOf(c)[i], ok |-> FALSE]

\* A token is of the earliest TSA in the chain that did not fail: the attempts
\* are the chain up to it, in order, all failed but the last, which the token
\* names.
FirstSuccessWins ==
  \A c \in Calls : result[c] # None =>
    LET n == Len(attempts[c]) IN
    /\ n \in 1..Len(ChainOf(c))
    /\ FirstFailed(c, n - 1)
    /\ attempts[c][n] = [tsa |-> ChainOf(c)[n], ok |-> TRUE]
    /\ result[c].tsa = ChainOf(c)[n]

\* The bytes of a token are over the imprint the caller gave, which is also the
\* one written beside them, whatever answers crossed or came late; and the
\* imprint has the length of its algorithm.
TokenIsOverImprint ==
  \A c \in Calls : result[c] # None =>
    /\ result[c].token \in issued
    /\ result[c].token.imprint = req[c].imprint
    /\ result[c].imprint = req[c].imprint
    /\ req[c].imprint.bytes = ExpectedDigestBytes[req[c].alg]

\* A call gives up only when it has asked the whole chain, and every attempt it
\* reports failed.
GivesUpAtTheEnd ==
  \A c \in Calls :
    \/ pc[c] = "returned" /\ result[c] = None
    \/ error[c] = "all failed"
    => /\ Len(attempts[c]) = Len(ChainOf(c))
       /\ FirstFailed(c, Len(attempts[c]))
       /\ req[c].raise <=> pc[c] = "raised"

AskOf(c) ==
  [imprint |-> req[c].imprint,
   tsas |-> {ChainOf(c)[i] : i \in DOMAIN ChainOf(c)},
   valid |-> ~BadImprint(c) /\ ~BadAlgorithm(c)]

\* An exception and a missing token are both no token.
AnswerOf(c) ==
  CASE pc[c] \notin Final -> None
    [] pc[c] \in Final /\ result[c] # None -> result[c]
    [] OTHER -> [token |-> None, tsa |-> None, imprint |-> None]

askedBar == [c \in Calls |-> IF req[c] = None THEN None ELSE AskOf(c)]
answerBar == [c \in Calls |-> AnswerOf(c)]

Promise == INSTANCE Acquisition
  WITH asked <- askedBar, signed <- issued, answer <- answerBar

ASSUME AcquisitionAssumption == None \notin Promise!Asks

\* The calls keep the promise of module Acquisition, and so give module Issuer
\* what its step Stamp takes: one answer each, which is a token over the very
\* imprint or a failure, whatever answers crossed, came late or were given up;
\* and no TSA is ever shown an imprint that nobody asked it to have stamped.
KeepsPromise == Promise!Spec

\* A call ends.  ("sensible connect/read timeouts so a misbehaving TSA does not
\* stall the whole chain", timestamp.py, _build_transport.)
AcquisitionEnds == \A c \in Calls : pc[c] = "called" ~> pc[c] \in Final

\* How many changes a call has at most before it: three for each TSA that was not
\* asked yet.
Remaining(c) ==
  LET unasked == Len(ChainOf(c)) - Len(attempts[c]) IN
  CASE pc[c] = "called" -> 3 * unasked + 3
    [] pc[c] = "next" -> 3 * unasked + 2
    [] pc[c] = "asking" -> 3 * unasked + 1
    [] OTHER -> 0

CallState(c) == <<pc[c], req[c], attempts[c], result[c], error[c]>>

\* Every change of a call that was made brings it nearer to its end, for a chain
\* of any length: no TSA is asked a second time, and nothing is changed once the
\* call has ended.  Only the pieces of a response are without number.
CallsAdvance ==
  [][\A c \in Calls : (pc[c] # "idle" /\ CallState(c)' # CallState(c)) =>
       Remaining(c)' \in Nat /\ Remaining(c)' < Remaining(c)]_vars

-------------------------------------------------------------------------------
(***************************************************************************)
(* The inductive invariant.                                                *)
(***************************************************************************)

\* The attempts of a call are one failure per TSA of the chain before the
\* current one, and at the end of the call perhaps a success.
CallInv(c) ==
  /\ pc[c] = "idle" <=> req[c] = None
  /\ pc[c] \in {"idle", "called"} => attempts[c] = <<>>
  /\ result[c] # None => pc[c] = "returned"
  /\ error[c] = "all failed" => pc[c] = "raised"
  /\ pc[c] \in {"next", "asking", "returned"} => ~BadImprint(c) /\ ~BadAlgorithm(c)
  /\ pc[c] \in {"next", "asking"} => FirstFailed(c, Len(attempts[c]))
  /\ pc[c] = "asking" => Position(c) <= Len(ChainOf(c))

\* What reached a TSA is what some call asked it for.
SentWasAsked == \A t \in sent : \E c \in Calls : Promise!AskedFor(c, t)

IInv ==
  /\ TypeOK
  /\ SentWasAsked
  /\ \A c \in Calls : CallInv(c)
  /\ FirstSuccessWins
  /\ TokenIsOverImprint
  /\ GivesUpAtTheEnd
=============================================================================
