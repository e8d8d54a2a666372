------------------------------ MODULE Commitment ------------------------------
(***************************************************************************)
(* What anchoring promises its callers, with nothing of how it is done:    *)
(* callers ask for a note to be committed on a network, public blocks come *)
(* to hold commitments that were asked for, and each caller is answered at *)
(* most once and truthfully.  A caller told of a failure learns nothing of *)
(* whether its commitment exists or will.                                  *)
(***************************************************************************)
EXTENDS Integers

CONSTANTS
  Calls,     \* those who ask
  Notes,     \* what can be committed
  Networks,  \* where
  Ids,       \* the public identifiers of commitments
  None       \* nowhere: a draft, or a request that is invalid

VARIABLES
  asked,   \* what each call asked for
  chain,   \* the commitments in blocks
  answer   \* the answer each call got

Asks == [note: Notes, net: Networks \union {None}]
Commitments == [net: Networks, note: Notes, id: Ids, round: Nat]
Answers == [kind: {"draft", "submitted", "confirmed", "failed"},
            id: Ids \union {None}, round: Nat]

\* Call c asked for the commitment e.
AskedFor(c, e) ==
  /\ asked[c] # None
  /\ asked[c].net = e.net
  /\ asked[c].note = e.note

\* Every commitment of a chain is owed to a call of its own.
Owed(commitments) ==
  \E owner \in [commitments -> Calls] :
    /\ \A e \in commitments : AskedFor(owner[e], e)
    /\ \A e, f \in commitments : owner[e] = owner[f] => e = f

Init ==
  /\ asked = [c \in Calls |-> None]
  /\ chain = {}
  /\ answer = [c \in Calls |-> None]

Ask(c) ==
  /\ asked[c] = None
  /\ \E a \in Asks : asked' = [asked EXCEPT ![c] = a]
  /\ UNCHANGED <<chain, answer>>

\* A block: newer than those before it on its network, and nothing in it is
\* already in another one.
Commit ==
  /\ chain \subseteq chain'
  /\ chain' # chain
  /\ \A e \in chain' \ chain :
       /\ e \in Commitments
       /\ \A f \in chain : f.id # e.id /\ (f.net = e.net => f.round < e.round)
  /\ Owed(chain')
  /\ UNCHANGED <<asked, answer>>

Truthful(c, a) ==
  /\ a.kind = "draft" => asked[c].net = None
  /\ a.kind \in {"submitted", "confirmed"} => asked[c].net # None /\ a.id \in Ids
  /\ a.kind = "confirmed" =>
       [net |-> asked[c].net, note |-> asked[c].note,
        id |-> a.id, round |-> a.round] \in chain

Answer(c) ==
  /\ asked[c] # None /\ answer[c] = None
  /\ answer'[c] \in Answers
  /\ answer' = [answer EXCEPT ![c] = answer'[c]]
  /\ Truthful(c, answer'[c])
  /\ UNCHANGED <<asked, chain>>

Next == Commit \/ \E c \in Calls : Ask(c) \/ Answer(c)

Spec == Init /\ [][Next]_<<asked, chain, answer>>
=============================================================================
