-------------------------------- MODULE Algod --------------------------------
(***************************************************************************)
(* The Algorand networks an issuer can reach, as src/actproof/anchor.py    *)
(* uses them through algosdk's AlgodClient: suggested_params,              *)
(* send_transaction and pending_transaction_info.  External to the         *)
(* repository; only what those three calls can tell their caller is kept.  *)
(*                                                                         *)
(* A transaction is identified by its contents (an Algorand txid is a hash *)
(* of the unsigned transaction), so two requests with the same contents    *)
(* are one transaction.  The account that pays is the same for all.        *)
(***************************************************************************)
EXTENDS Integers

CONSTANTS
  Hashes,       \* the manifest hashes callers anchor
  ProfileLens,  \* the lengths of the batching profile strings callers pass
  Validity,     \* rounds a transaction stays valid after its first (1000 there)
  MaxRound      \* bound on the rounds a network produces

ASSUME AlgodAssumption == Validity \in Nat /\ MaxRound \in Nat \ {0}

Networks == {"mainnet", "testnet"}

\* The note a transaction carries commits to a manifest hash and names the
\* batching profile; a profile string is represented by its length.
Notes == [hash: Hashes, profile: ProfileLens]

Txns == [net: Networks, note: Notes, first: 1..MaxRound]

\* A block entry: `txn' is in the block of round `round'.
Entries == [txn: Txns, round: 1..MaxRound]

VARIABLES
  round,      \* the last round of each network
  accepted,   \* transactions a node has ever accepted for broadcast
  rejected,   \* accepted ones the node now reports with a pool-error
  ledger      \* the entries of the blocks, of every network

algodVars == <<round, accepted, rejected, ledger>>

OnLedger == {e.txn : e \in ledger}

AlgodInit ==
  /\ round = [n \in Networks |-> 1]
  /\ accepted = {}
  /\ rejected = {}
  /\ ledger = {}

(***************************************************************************)
(* What a call to the node does.                                           *)
(***************************************************************************)

\* The node takes a transaction unless it is in a block, in the pool or past
\* its last valid round.
Admits(t) ==
  /\ t \notin OnLedger
  /\ t \in accepted => t \in rejected
  /\ round[t.net] < t.first + Validity

Submit(t) ==
  /\ Admits(t)
  /\ accepted' = accepted \union {t}
  /\ rejected' = rejected \ {t}
  /\ UNCHANGED <<round, ledger>>

\* The answers of pending_transaction_info.
ConfirmedIn(t, r) == [txn |-> t, round |-> r] \in ledger

ReportsPoolError(t) == t \notin OnLedger /\ t \in rejected

ReportsPending(t) == t \notin OnLedger /\ t \notin rejected

(***************************************************************************)
(* What the network does on its own.                                       *)
(***************************************************************************)

\* Network n closes its next block with some of the transactions it knows and
\* that are valid in that round.  A node's pool-error does not keep one out:
\* another node may still hold it.
NewRound(n) ==
  /\ round[n] < MaxRound
  /\ round' = [round EXCEPT ![n] = @ + 1]
  /\ \E block \in SUBSET {t \in accepted \ OnLedger :
                            /\ t.net = n
                            /\ round[n] < t.first + Validity} :
       ledger' = ledger \union {[txn |-> t, round |-> round[n] + 1] : t \in block}
  /\ UNCHANGED <<accepted, rejected>>

\* The node drops a transaction from its pool (fee, overspend, expiry) and
\* reports a pool-error for it from then on.
Evict(t) ==
  /\ t \in accepted \ (rejected \union OnLedger)
  /\ rejected' = rejected \union {t}
  /\ UNCHANGED <<round, accepted, ledger>>

AlgodStep ==
  \/ \E n \in Networks : NewRound(n)
  \/ \E t \in accepted : Evict(t)

=============================================================================
