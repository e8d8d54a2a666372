----------------------------- MODULE MCKmsSigner -----------------------------
(***************************************************************************)
(* An instance of module KmsSigner for TLC: an anchoring transaction, and  *)
(* those that differ from it in one thing, at the bounds where there are   *)
(* some.  The signer's account k1 and another, k2, are the accounts.       *)
(***************************************************************************)
EXTENDS KmsSigner, TLC

CONSTANTS k1, k2, p1, p2

Anchor ==
  [type |-> "pay", sender |-> k1, receiver |-> k1, amt |-> 0, rekey_to |-> None,
   close_remainder_to |-> None, group |-> FALSE, lease |-> FALSE, fee |-> MinFee,
   note |-> [prefix |-> p1, length |-> MaxNote]]

MCTxns ==
  {Anchor,
   [Anchor EXCEPT !.type = "other"],
   [Anchor EXCEPT !.sender = k2],
   [Anchor EXCEPT !.receiver = k2],
   [Anchor EXCEPT !.receiver = k2, !.amt = 1],
   [Anchor EXCEPT !.rekey_to = k2],
   [Anchor EXCEPT !.close_remainder_to = k2],
   [Anchor EXCEPT !.group = TRUE],
   [Anchor EXCEPT !.lease = TRUE],
   [Anchor EXCEPT !.note = None],
   [Anchor EXCEPT !.note.prefix = p2],
   [Anchor EXCEPT !.note.length = MaxNote + 1]}
  \union {[Anchor EXCEPT !.fee = f] : f \in {None, MinFee - 1, MaxFee, MaxFee + 1}}
=============================================================================
