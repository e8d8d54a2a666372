-------------------------------- MODULE Verify --------------------------------
(***************************************************************************)
(* verify_receipt (actproof/verify.py): six checks of a receipt against    *)
(* its manifest, a catalogue, an indexer of the chain and the timestamp's  *)
(* signature.  Any number of verifications run while the chain grows, and  *)
(* with it the indexers, which lag behind.  A receipt is one that a        *)
(* correct issuer could have written, with any fields changed since.  One  *)
(* action for the checks that need no network, and one for each read.      *)
(***************************************************************************)
EXTENDS ReceiptChecks, Sequences

CONSTANT Verifiers  \* the calls of verify_receipt

VARIABLES
  onChain,  \* the transactions in blocks
  indexed,  \* those the indexers have seen
  at,       \* where each verification is
  held,     \* the receipt it is given
  opts,     \* its options
  checks    \* the statuses of the checks that ran, in order

chainVars == <<onChain, indexed>>
verifyVars == <<at, held, opts, checks>>
vars == <<chainVars, verifyVars>>

-------------------------------------------------------------------------------
Go(v, from, to) == at[v] = from /\ at' = [at EXCEPT ![v] = to]

ChainInit == onChain = {} /\ indexed = {}

VerifyInit ==
  /\ at = [v \in Verifiers |-> "idle"]
  /\ held = [v \in Verifiers |-> None]
  /\ opts = [v \in Verifiers |-> None]
  /\ checks = [v \in Verifiers |-> <<>>]

\* A transaction gets into a block; ids are never used twice.
Confirm ==
  /\ \E e \in Entries : /\ \A f \in onChain : f.id # e.id
                        /\ onChain' = onChain \union {e}
  /\ UNCHANGED <<indexed, verifyVars>>

Index ==
  /\ \E e \in onChain \ indexed : indexed' = indexed \union {e}
  /\ UNCHANGED <<onChain, verifyVars>>

\* The receipt that a correct issuer writes for hash h.
Issued(h, b, n, id, round) ==
  [profile |-> "actproof-jcs-v1", manifest |-> h,
   declared |-> [hash |-> h, exact |-> TRUE], batching |-> b,
   net |-> n, txid |-> id, round |-> round, payload |-> Payload(h, b),
   token |-> [imprint |-> h, genuine |-> TRUE]]

\* A draft has neither a transaction id nor a round.
AsIssued(r) ==
  \E h \in Hashes, b \in Batchings, n \in Networks, id \in Ids \union {None},
     round \in Rounds \union {None} :
    /\ id = None => round = None
    /\ r = Issued(h, b, n, id, round)

\* A verification is given a receipt as issued, or one that another has been given.
Hold(v) ==
  /\ Go(v, "idle", "holding")
  /\ \/ \E h \in Hashes, b \in Batchings, n \in Networks, id \in Ids \union {None},
           round \in Rounds \union {None} :
          /\ id = None => round = None
          /\ held' = [held EXCEPT ![v] = Issued(h, b, n, id, round)]
     \/ \E w \in Verifiers : at[w] # "idle" /\ held' = [held EXCEPT ![v] = held[w]]
  /\ UNCHANGED <<chainVars, opts, checks>>

\* One field of the receipt is changed before it is verified.
Change(v) ==
  /\ at[v] = "holding"
  /\ held' \in
       {[held EXCEPT ![v].profile = "unsupported"]}
       \union {[held EXCEPT ![v].manifest = x] : x \in Hashes \union {None}}
       \union {[held EXCEPT ![v].declared = x] : x \in Declarations \union {None}}
       \union {[held EXCEPT ![v].batching = x] : x \in Batchings}
       \union {[held EXCEPT ![v].net = x] : x \in Names}
       \union {[held EXCEPT ![v].txid = x] : x \in Ids \union {None}}
       \union {[held EXCEPT ![v].round = x] : x \in Rounds \union {None}}
       \union {[held EXCEPT ![v].payload = x] : x \in Payloads}
       \union {[held EXCEPT ![v].token = x] : x \in TokenSet \union {None}}
  /\ UNCHANGED <<chainVars, at, opts, checks>>

\* The four checks that need no network.
CheckLocally(v) ==
  /\ Go(v, "holding", "anchor")
  /\ \E o \in Options : opts' = [opts EXCEPT ![v] = o]
  /\ \E conformance \in CatalogueStatuses :
       checks' = [checks EXCEPT ![v] =
         <<ProfileStatus(held[v]), ManifestHashStatus(held[v]), NoteStatus(held[v]),
           conformance>>]
  /\ UNCHANGED <<chainVars, held>>

\* The indexer is asked at one moment, and its answer is not looked at again.
CheckAnchor(v) ==
  /\ Go(v, "anchor", "timestamp")
  /\ \E status \in AnchorStatuses(indexed, held[v], opts[v]) :
       checks' = [checks EXCEPT ![v] = Append(@, status)]
  /\ UNCHANGED <<chainVars, held, opts>>

CheckTimestamp(v) ==
  /\ Go(v, "timestamp", "done")
  /\ checks' = [checks EXCEPT ![v] = Append(@, TokenStatus(held[v], opts[v]))]
  /\ UNCHANGED <<chainVars, held, opts>>

AllDone == (\A v \in Verifiers : at[v] = "done") /\ UNCHANGED vars

Next ==
  \/ Confirm
  \/ Index
  \/ \E v \in Verifiers :
       Hold(v) \/ Change(v) \/ CheckLocally(v) \/ CheckAnchor(v) \/ CheckTimestamp(v)
  \/ AllDone

Init == ChainInit /\ VerifyInit

Spec == Init /\ [][Next]_vars

-------------------------------------------------------------------------------
(***************************************************************************)
(* Properties.                                                             *)
(***************************************************************************)

\* VerificationResult.ok, once the call has returned.
Ok(v) ==
  /\ at[v] = "done"
  /\ \A i \in 1..6 : checks[v][i] \in {"PASS", "SKIP"}

\* Every variable has its type, and the indexers know nothing but the chain.
TypeOK ==
  /\ onChain \subseteq Entries
  /\ indexed \subseteq onChain
  /\ at \in [Verifiers -> {"idle", "holding", "anchor", "timestamp", "done"}]
  /\ held \in [Verifiers -> Receipts \union {None}]
  /\ opts \in [Verifiers -> Options \union {None}]
  /\ checks \in [Verifiers -> Seq(Status)]

\* A receipt that is ok with neither the anchor nor the timestamp skipped binds
\* its manifest: on the network that was asked, a block holds the transaction it
\* names with a note of that manifest's hash, and a genuine token is over the
\* hash.  The checks never compare the three with each other: each compares one
\* with a field of the receipt, and the fields may have been changed
\* (verify_receipt, _check_manifest_hash to _check_timestamp_signature).
OkMeansBound ==
  \A v \in Verifiers : (Ok(v) /\ checks[v][5] # "SKIP" /\ checks[v][6] # "SKIP") =>
    /\ held[v].manifest # None
    /\ \E e \in onChain :
         /\ e.id = held[v].txid
         /\ e.net = IndexerNet(held[v], opts[v])
         /\ e.note = Payload(held[v].manifest, held[v].batching)
    /\ held[v].token = [imprint |-> held[v].manifest, genuine |-> TRUE]

\* Two verifications of one receipt that ask indexers of one network never
\* contradict each other about its anchor, whenever they ask and whatever the
\* indexers have seen by then: one may end in ERROR, but PASS and FAIL exclude
\* each other (_check_anchor_on_chain).
VerdictsAgree ==
  \A v, w \in Verifiers :
    (/\ at[v] = "done" /\ at[w] = "done"
     /\ held[v] = held[w]
     /\ IndexerNet(held[v], opts[v]) = IndexerNet(held[w], opts[w])
     /\ checks[v][5] = "PASS") => checks[w][5] # "FAIL"

\* A receipt as it was issued never FAILs but for what lies outside it: a
\* catalogue, a transaction that carries another note, a missing tsp_client.
\* That its transaction is not in a block, or not indexed yet, is no failure.
IssuedNeverFails ==
  \A v \in Verifiers : (at[v] = "done" /\ AsIssued(held[v])) =>
    /\ \A i \in 1..3 : checks[v][i] = "PASS"
    /\ checks[v][6] \in {"FAIL", "ERROR"} => ~opts[v].tsp
    /\ checks[v][5] = "FAIL" =>
         \E e \in onChain : e.id = held[v].txid /\ e.note # held[v].payload

\* "The receipt claims a block round; the indexer confirms the transaction is at
\* that round." (verify.py): the round of an anchor that passes is its block's.
RoundIsConfirmed ==
  \A v \in Verifiers :
    (at[v] = "done" /\ checks[v][5] = "PASS" /\ held[v].round # None) =>
      \E e \in onChain : e.id = held[v].txid /\ e.round = held[v].round
=============================================================================
