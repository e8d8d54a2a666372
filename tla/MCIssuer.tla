------------------------------ MODULE MCIssuer ------------------------------
(***************************************************************************)
(* Instances of module Issuer for TLC.                                     *)
(***************************************************************************)
EXTENDS Lifecycle, TLC

Symmetry == Permutations(Calls) \union Permutations(Hashes)

\* Only one network is used when all runs have the same mode.
OneNetwork == round["mainnet"] = 1

\* --evidence-output is never looked at.
NoEvidenceOption == \A c \in Calls : args[c] # None => ~args[c].evidence

\* Runs that stamp: the ones with the longer way to go.
StampedRuns == \A c \in Calls : args[c] # None => ~args[c].skip
=============================================================================
