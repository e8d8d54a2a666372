----------------------------- MODULE Acquisition ------------------------------
(***************************************************************************)
(* What acquiring a timestamp promises its callers, with nothing of whom   *)
(* is asked when: an authority (TSA) signs only imprints that somebody     *)
(* asked it to have stamped, and each caller is answered at most once, by  *)
(* a token over its very imprint from a TSA it allowed, or by a failure.   *)
(* A caller told of a failure learns nothing of what was signed.           *)
(***************************************************************************)
CONSTANTS
  Calls,     \* those who ask
  TSAs,      \* the authorities
  Imprints,  \* what can be stamped
  None       \* no request, answer or token

VARIABLES
  asked,   \* what each call asked for
  signed,  \* the tokens that the TSAs have signed
  answer   \* the answer each call got

Asks == [imprint: Imprints, tsas: SUBSET TSAs, valid: BOOLEAN]
Tokens == [tsa: TSAs, imprint: Imprints]

\* The answer to a caller: the signed bytes, and beside them whose they are and
\* what they are over.
Token(t) == [token |-> t, tsa |-> t.tsa, imprint |-> t.imprint]
NoToken == [token |-> None, tsa |-> None, imprint |-> None]

\* The token t answers what call c asked for.
AskedFor(c, t) ==
  /\ asked[c] # None
  /\ asked[c].valid
  /\ t.tsa \in asked[c].tsas
  /\ t.imprint = asked[c].imprint

Init ==
  /\ asked = [c \in Calls |-> None]
  /\ signed = {}
  /\ answer = [c \in Calls |-> None]

Ask(c) ==
  /\ asked[c] = None
  /\ \E a \in Asks : asked' = [asked EXCEPT ![c] = a]
  /\ UNCHANGED <<signed, answer>>

\* A TSA signs what somebody asked for, who may have been answered by now.
Sign ==
  /\ \E c \in Calls, t \in Tokens : AskedFor(c, t) /\ signed' = signed \union {t}
  /\ UNCHANGED <<asked, answer>>

Succeed(c) ==
  /\ answer[c] = None
  /\ \E t \in signed : AskedFor(c, t) /\ answer' = [answer EXCEPT ![c] = Token(t)]
  /\ UNCHANGED <<asked, signed>>

Fail(c) ==
  /\ asked[c] # None /\ answer[c] = None
  /\ answer' = [answer EXCEPT ![c] = NoToken]
  /\ UNCHANGED <<asked, signed>>

Next == Sign \/ \E c \in Calls : Ask(c) \/ Succeed(c) \/ Fail(c)

Spec == Init /\ [][Next]_<<asked, signed, answer>>
=============================================================================
