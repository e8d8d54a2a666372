----------------------------- MODULE SignerPolicy -----------------------------
(***************************************************************************)
(* The signing policy of AlgorandSigner (signers/interface.py): which      *)
(* transactions validate_transaction lets through, and, as the reference   *)
(* it is held against, what a transaction does to the accounts.            *)
(***************************************************************************)
EXTENDS Integers

CONSTANTS
  Accounts,  \* the accounts; a key and its address go by the account's name
  Prefixes,  \* the prefixes of notes
  Allowed,   \* those that the signer was given
  MinFee,    \* ALGORAND_MIN_FEE_MICROALGOS
  MaxFee,    \* max_fee_microalgos
  MaxNote,   \* ALGORAND_MAX_NOTE_BYTES
  Txns,      \* the transactions that are presented
  None       \* Python's None, and a value of the wrong type

\* type is the class of the transaction: a PaymentTxn or another.
Transactions ==
  [type: {"pay", "other"}, sender: Accounts, receiver: Accounts, amt: Nat,
   rekey_to: Accounts \union {None}, close_remainder_to: Accounts \union {None},
   group: BOOLEAN, lease: BOOLEAN, fee: Int \union {None},
   note: [prefix: Prefixes \union {None}, length: Nat] \union {None}]

\* What AlgorandSigner.__init__ requires of the policy.
ASSUME PolicyAssumption ==
  /\ Allowed # {} /\ Allowed \subseteq Prefixes
  /\ MinFee \in Nat /\ MaxFee \in Nat /\ MinFee <= MaxFee
  /\ MaxNote \in Nat

ASSUME TransactionAssumption ==
  /\ Txns \subseteq Transactions
  /\ None \notin Accounts \union Prefixes \union Txns \union Int
  /\ None \notin [prefix: Prefixes \union {None}, length: Nat]

FeeBounded(txn) == txn.fee # None /\ MinFee <= txn.fee /\ txn.fee <= MaxFee

NoteAllowed(txn) ==
  txn.note # None /\ txn.note.length <= MaxNote /\ txn.note.prefix \in Allowed

\* Mutated form of Conforms: the optional fields are not looked at.
ConformsInPart(txn, address) ==
  /\ txn.sender = address
  /\ txn.receiver = address
  /\ txn.amt = 0
  /\ FeeBounded(txn)
  /\ NoteAllowed(txn)

\* The checks of a payment that follow the check of its type.
Conforms(txn, address) ==
  /\ txn.sender = address
  /\ txn.receiver = address
  /\ txn.amt = 0
  /\ txn.rekey_to = None
  /\ txn.close_remainder_to = None
  /\ ~txn.group
  /\ ~txn.lease
  /\ FeeBounded(txn)
  /\ NoteAllowed(txn)

-------------------------------------------------------------------------------
(***************************************************************************)
(* What a payment does once it is in a block, by the protocol: the balance *)
(* of every account and who may sign for it.                               *)
(***************************************************************************)
Pay(balance, from, to, amount) ==
  [a \in Accounts |->
     balance[a] - (IF a = from THEN amount ELSE 0) + (IF a = to THEN amount ELSE 0)]

FeePaid(balance, txn) == [balance EXCEPT ![txn.sender] = @ - txn.fee]

\* A payment with its fee; what remains then goes to close_remainder_to.
BalanceAfter(balance, txn) ==
  LET paid == Pay(FeePaid(balance, txn), txn.sender, txn.receiver, txn.amt)
  IN IF txn.close_remainder_to = None
     THEN paid
     ELSE Pay(paid, txn.sender, txn.close_remainder_to, paid[txn.sender])

SignerAfter(txn) == IF txn.rekey_to = None THEN txn.sender ELSE txn.rekey_to

\* A transaction that leaves the accounts as they are, but for a bounded fee of
\* its sender, which is the account itself.
MovesNothing(txn, account, balance) ==
  /\ txn.type = "pay" /\ txn.sender = account
  /\ SignerAfter(txn) = account
  /\ \A a \in Accounts \ {account} : BalanceAfter(balance, txn)[a] = balance[a]
  /\ balance[account] - BalanceAfter(balance, txn)[account] \in MinFee..MaxFee
=============================================================================
