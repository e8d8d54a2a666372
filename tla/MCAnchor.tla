------------------------------- MODULE MCAnchor -------------------------------
(***************************************************************************)
(* Anchor on a small instance: see the cfg files for the values.           *)
(***************************************************************************)
EXTENDS AnchorCommitment, TLC

\* Calls and hashes are interchangeable in every safety property.
Symmetry == Permutations(Calls) \union Permutations(Hashes)

\* One network may run through its MaxRound rounds while the other stands
\* still, or each produces one block.
FewRounds == round["mainnet"] + round["testnet"] <= 4

\* A client of the caller's own is one of mainnet handed to a DEMO call.
FewClients ==
  \A c \in Calls : req[c] # None =>
    \/ req[c].client = None
    \/ req[c].mode = "DEMO" /\ req[c].client = "mainnet"
=============================================================================
