----------------------------- MODULE MCTimestamp -----------------------------
(***************************************************************************)
(* Instances of module Timestamp for TLC: two TSAs, and the chains that    *)
(* tell apart no chain given, an empty one, one TSA and two.               *)
(***************************************************************************)
EXTENDS Timestamp

CONSTANTS t1, t2, d1, c1

MCDefaultChain == <<t1, t2>>
MCChains == {<<>>, <<t2, t1>>}
MCOneChain == {<<t2, t1>>}

\* Of the requests that are refused for their imprint or algorithm one of each
\* kind is enough, and the digests are interchangeable: c1 uses d1.  Only Call
\* steps are cut off.
FewRequests ==
  /\ \A c \in Calls : (req[c] # None /\ (BadImprint(c) \/ BadAlgorithm(c))) =>
       req[c].imprint.digest = d1 /\ req[c].chain = None /\ req[c].raise
  /\ req[c1] # None => req[c1].imprint.digest = d1
=============================================================================
