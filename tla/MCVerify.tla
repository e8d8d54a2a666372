------------------------------- MODULE MCVerify -------------------------------
(***************************************************************************)
(* Instances of module Verify for TLC.                                     *)
(***************************************************************************)
EXTENDS Verify, FiniteSets, TLC

CONSTANT MaxChanges  \* how many fields of a receipt are changed

Symmetry == Permutations(Verifiers) \union Permutations(Hashes)

Differ(r, s) == {f \in DOMAIN r : r[f] # s[f]}

\* A receipt is at most MaxChanges fields away from one as issued: Change steps.
FewChanges ==
  \A v \in Verifiers : at[v] = "holding" =>
    \E h \in Hashes, n \in Networks, id \in Ids \union {None}, round \in Rounds \union {None} :
      /\ id = None => round = None
      /\ Cardinality(Differ(held[v], Issued(h, held[v].batching, n, id, round))) <= MaxChanges

\* Two verifications have the same receipt, as issued, and run side by side only
\* with options that leave the question about its anchor open: the rest is
\* for one alone.  Hold, Change and CheckLocally steps are cut off.
OneReceipt ==
  \A v, w \in Verifiers : (v # w /\ at[v] # "idle" /\ at[w] # "idle") =>
    /\ held[v] = held[w] /\ AsIssued(held[v])
    /\ opts[v] # None => opts[v].skip = {} /\ opts[v].tsp /\ opts[v].sdk

\* Left out: the outcomes of the catalogue check that settle ok by themselves or
\* count as PASS does, and options that no check reads.  CheckLocally steps.
FewOptions ==
  \A v \in Verifiers : opts[v] # None =>
    /\ checks[v][4] = "PASS"
    /\ opts[v].sdk \/ opts[v].client = None
    /\ "timestamp" \in opts[v].skip => opts[v].tsp
    /\ "anchor" \in opts[v].skip => opts[v].client = None /\ opts[v].sdk

\* The steps before the anchor is asked for read nothing of the chain: it is
\* enough to take them before it grows.
LocalFirst == onChain # {} => \A v \in Verifiers : at[v] # "holding"

Constraint == FewChanges /\ OneReceipt /\ FewOptions /\ LocalFirst
=============================================================================
