----------------------------- MODULE MCValidation -----------------------------
(***************************************************************************)
(* An instance of module Validation for TLC: a first release of two files  *)
(* and a deprecated one, in several forms, and a second one, in which act  *)
(* type t1 keeps its version and changes its text.                         *)
(***************************************************************************)
EXTENDS Validation, TLC

CONSTANTS t1, t2, f1, e1, s1, s2

Entry1 ==
  [form |-> "entry", schema |-> "v3", schemas |-> {s1}, type |-> t1, version |-> 1,
   required |-> {f1}, labels |-> {}, supports |-> {e1}]
Entry2 == [Entry1 EXCEPT !.schemas = {s1, s2}, !.labels = {e1}, !.supports = {}]
Other1 == [Entry1 EXCEPT !.schema = "v2", !.type = t2, !.required = {}, !.supports = {}]

\* What the second file may be instead of an entry of t2.
Others == {Other1, Entry2, Absent} \union
          {[Other1 EXCEPT !.form = form] : form \in {"malformed", "other", "broken"}}

MCTexts == {Entry1, Entry2} \union (Others \ {Absent})

MCRelease(version, spec, first, second, v2, v3) ==
  [acts |-> (1 :> first @@ 2 :> second @@ 3 :> Entry2),
   schemas |-> ("v2" :> v2 @@ "v3" :> v3), version |-> version, spec |-> spec]

MCReleases ==
  {MCRelease(1, 1, Entry1, second, s1, s1) : second \in Others}
  \union {MCRelease(1, None, Entry1, Other1, s1, Absent),
          MCRelease(2, 2, Entry2, Other1, s1, s2), MCRelease(2, 2, Entry2, Absent, s1, s2)}

Active == {l \in Loaders : at[l] # "idle"}

\* What is done before the scan, what after it for a schema_path and what for a
\* package are independent: one of them at a time.
FewOptions ==
  \A l \in Active :
    /\ opts[l].packaged => opts[l].schema = None /\ ~opts[l].validate
    /\ opts[l].schema # None => opts[l].schema # s2 /\ ~opts[l].validate

\* One load alone has all options and all releases.  Two are one after the other,
\* of releases of one file that can be read, and both unvalidated, which lets more
\* catalogues through.  A load that an upgrade disturbs makes its digest after that.
Simple(l) ==
  /\ acts[2] = Absent /\ target.acts[2] = Absent
  /\ at[l] # "failed"
  /\ digest[l] # None => still[l] # None \/ UpgradeIsOver
  /\ warned[l] = {}
  /\ opts[l].packaged

TwoLoads ==
  \A k, l \in Active : k # l => Simple(l) /\ ~(at[k] \in Loading /\ at[l] \in Loading)

\* Issuing and validating read no file: they come when two loads are over and any
\* upgrade is, and what one process issues the other holds against its catalogue.
IssueLast ==
  \A l \in Loaders : manifest[l] # None =>
    /\ UpgradeIsOver
    /\ \A k \in Loaders : at[k] \notin Loading \union {"idle"}
    /\ \A k \in Loaders : manifest[k] # None => k = l

\* An import before the load matters where the module is another one by then.
EarlyImport ==
  \A l \in Loaders :
    /\ imported[l] # Absent /\ at[l] = "idle" => target.acts[2] = Absent /\ imported[l] = 1
    /\ imported[l] # Absent /\ at[l] = "resolve" => imported[l] # module

Constraint == FewOptions /\ TwoLoads /\ IssueLast /\ EarlyImport

\* An upgrade makes no difference when no load is left to read it: then one that
\* has begun only comes to its end before anything is issued.
UpgradeIsSeen ==
  \/ UNCHANGED diskVars
  \/ \E l \in Loaders : at[l] \in Loading
  \/ /\ \A l \in Active : Simple(l)
     /\ \E l \in Loaders : at[l] = "idle" \/ (at[l] = "loaded" /\ ~UpgradeIsOver)

\* It is one of entries to as many entries, and the module comes last.
UpgradeInOrder ==
  /\ target' # target =>
       {target.acts[2], target'.acts[2]} \in {{Absent}, {Other1}}
  /\ module' # module =>
       acts = target.acts /\ schemas = target.schemas /\ metadata = target.version

Upgrades == UpgradeIsSeen /\ UpgradeInOrder

Symmetry == Permutations(Loaders)
=============================================================================
