----------------------------- MODULE VerifyProofs -----------------------------
(***************************************************************************)
(* Proofs about module Verify, for any number of verifications, any        *)
(* receipts and any chain.  The invariant says of every verification what  *)
(* its statuses were computed from: the first three and the last from the  *)
(* receipt, the fifth from a transaction that is in a block.  A block is   *)
(* never taken back and an id names one transaction, so what the fifth     *)
(* status says stays true, and true for every other verification.          *)
(***************************************************************************)
EXTENDS Verify, TLAPS

UniqueIds == \A e, f \in onChain : e.id = f.id => e = f

Asked(v, e) == e.id = held[v].txid /\ e.net = IndexerNet(held[v], opts[v])

\* What a verification has found so far.
LocalStatuses(v) ==
  /\ checks[v][1] = ProfileStatus(held[v])
  /\ checks[v][2] = ManifestHashStatus(held[v])
  /\ checks[v][3] = NoteStatus(held[v])

AnchorStatus(v) ==
  /\ checks[v][5] = "PASS" => \E e \in onChain : Asked(v, e) /\ e.note = held[v].payload
  /\ checks[v][5] = "FAIL" => \E e \in onChain : Asked(v, e) /\ e.note # held[v].payload

VerifierOK(v) ==
  /\ at[v] = "idle" => held[v] = None
  /\ at[v] # "idle" => held[v] \in Receipts
  /\ at[v] \notin {"idle", "holding"} => opts[v] \in Options /\ LocalStatuses(v)
  /\ at[v] = "anchor" => Len(checks[v]) = 4
  /\ at[v] = "timestamp" => Len(checks[v]) = 5 /\ AnchorStatus(v)
  /\ at[v] = "done" => /\ Len(checks[v]) = 6 /\ AnchorStatus(v)
                       /\ checks[v][6] = TokenStatus(held[v], opts[v])

IInv == TypeOK /\ UniqueIds /\ \A v \in Verifiers : VerifierOK(v)

-------------------------------------------------------------------------------
\* The statuses are statuses: the cases of each check cover every receipt.
LEMMA StatusTypes ==
  ASSUME NEW r \in Receipts, NEW o \in Options, NEW seen
  PROVE  /\ ProfileStatus(r) \in Status
         /\ ManifestHashStatus(r) \in Status
         /\ NoteStatus(r) \in Status
         /\ AnchorStatuses(seen, r, o) \subseteq Status
         /\ TokenStatus(r, o) \in Status
<1>1. ProfileStatus(r) \in Status
  BY DEF ProfileStatus, Status
<1>2. ManifestHashStatus(r) \in Status
  BY DEF ManifestHashStatus, Status
<1>3. NoteStatus(r) \in Status
  BY DEF NoteStatus, Status
<1>4. AnchorStatuses(seen, r, o) \subseteq Status
  BY DEF AnchorStatuses, EntryStatus, Status
<1>5. TokenStatus(r, o) \in Status
  BY DEF TokenStatus, Status
<1> QED BY <1>1, <1>2, <1>3, <1>4, <1>5

\* A receipt as issued is a receipt.
LEMMA IssuedType ==
  ASSUME NEW h \in Hashes, NEW b \in Batchings, NEW n \in Networks,
         NEW id \in Ids \union {None}, NEW round \in Rounds \union {None}
  PROVE  Issued(h, b, n, id, round) \in Receipts
<1>1. [hash |-> h, exact |-> TRUE] \in Declarations /\ [imprint |-> h, genuine |-> TRUE] \in TokenSet
  BY DEF Declarations, TokenSet
<1>2. Payload(h, b) \in Payloads
  BY DEF Payload, Payloads
<1> QED BY <1>1, <1>2 DEF Issued, Receipts, Names

\* A receipt with a field changed is one.
LEMMA ChangeType ==
  ASSUME NEW v \in Verifiers, TypeOK, VerifierOK(v), Change(v)
  PROVE  held' \in [Verifiers -> Receipts \union {None}] /\ held'[v] \in Receipts
<1> held \in [Verifiers -> Receipts \union {None}]
  BY DEF TypeOK
<1>1. held[v] \in Receipts
  BY DEF VerifierOK, Change
<1>2. \E r \in Receipts : held' = [held EXCEPT ![v] = r]
  <2> DEFINE With(f, x) == [held[v] EXCEPT ![f] = x]
  <2>1. CASE held' = [held EXCEPT ![v].profile = "unsupported"]
    <3>1. [held[v] EXCEPT !.profile = "unsupported"] \in Receipts
      BY <1>1 DEF Receipts
    <3> QED BY <3>1, <2>1
  <2>2. CASE \E x \in Hashes \union {None} : held' = [held EXCEPT ![v].manifest = x]
    <3>1. \A x \in Hashes \union {None} : [held[v] EXCEPT !.manifest = x] \in Receipts
      BY <1>1 DEF Receipts
    <3> QED BY <3>1, <2>2
  <2>3. CASE \E x \in Declarations \union {None} : held' = [held EXCEPT ![v].declared = x]
    <3>1. \A x \in Declarations \union {None} : [held[v] EXCEPT !.declared = x] \in Receipts
      BY <1>1 DEF Receipts
    <3> QED BY <3>1, <2>3
  <2>4. CASE \E x \in Batchings : held' = [held EXCEPT ![v].batching = x]
    <3>1. \A x \in Batchings : [held[v] EXCEPT !.batching = x] \in Receipts
      BY <1>1 DEF Receipts
    <3> QED BY <3>1, <2>4
  <2>5. CASE \E x \in Names : held' = [held EXCEPT ![v].net = x]
    <3>1. \A x \in Names : [held[v] EXCEPT !.net = x] \in Receipts
      BY <1>1 DEF Receipts
    <3> QED BY <3>1, <2>5
  <2>6. CASE \E x \in Ids \union {None} : held' = [held EXCEPT ![v].txid = x]
    <3>1. \A x \in Ids \union {None} : [held[v] EXCEPT !.txid = x] \in Receipts
      BY <1>1 DEF Receipts
    <3> QED BY <3>1, <2>6
  <2>7. CASE \E x \in Rounds \union {None} : held' = [held EXCEPT ![v].round = x]
    <3>1. \A x \in Rounds \union {None} : [held[v] EXCEPT !.round = x] \in Receipts
      BY <1>1 DEF Receipts
    <3> QED BY <3>1, <2>7
  <2>8. CASE \E x \in Payloads : held' = [held EXCEPT ![v].payload = x]
    <3>1. \A x \in Payloads : [held[v] EXCEPT !.payload = x] \in Receipts
      BY <1>1 DEF Receipts
    <3> QED BY <3>1, <2>8
  <2>9. CASE \E x \in TokenSet \union {None} : held' = [held EXCEPT ![v].token = x]
    <3>1. \A x \in TokenSet \union {None} : [held[v] EXCEPT !.token = x] \in Receipts
      BY <1>1 DEF Receipts
    <3> QED BY <3>1, <2>9
  <2> QED BY <2>1, <2>2, <2>3, <2>4, <2>5, <2>6, <2>7, <2>8, <2>9 DEF Change
<1> QED BY <1>2

\* The initial states satisfy the invariant.
LEMMA InitInv == Init => IInv
  BY DEF Init, ChainInit, VerifyInit, IInv, TypeOK, UniqueIds, VerifierOK

\* What a verification has found stays true while it does not step itself.
LEMMA Undisturbed ==
  ASSUME NEW v \in Verifiers, VerifierOK(v), onChain \subseteq onChain',
         at'[v] = at[v], held'[v] = held[v], opts'[v] = opts[v], checks'[v] = checks[v]
  PROVE  VerifierOK(v)'
  BY DEF VerifierOK, LocalStatuses, AnchorStatus, Asked

\* The growing chain preserves the invariant.
LEMMA ChainStep ==
  ASSUME IInv, Confirm \/ Index
  PROVE  IInv'
<1> USE DEF chainVars, verifyVars
<1>1. onChain \subseteq onChain'
  BY DEF Confirm, Index
<1>2. \A v \in Verifiers : VerifierOK(v)'
  BY <1>1, Undisturbed DEF IInv, Confirm, Index
<1>3. CASE Confirm
  <2>1. TypeOK'
    BY <1>3 DEF Confirm, IInv, TypeOK
  <2>2. UniqueIds'
    BY <1>3 DEF Confirm, IInv, UniqueIds
  <2> QED BY <2>1, <2>2, <1>2 DEF IInv
<1>4. CASE Index
  <2>1. TypeOK'
    BY <1>4 DEF Index, IInv, TypeOK
  <2>2. UniqueIds'
    BY <1>4 DEF Index, IInv, UniqueIds
  <2> QED BY <2>1, <2>2, <1>2 DEF IInv
<1> QED BY <1>3, <1>4

\* A step of one verification preserves the invariant if it preserves what the
\* invariant says of that verification, and the types.
LEMMA OneSteps ==
  ASSUME IInv, NEW v \in Verifiers, UNCHANGED chainVars,
         TypeOK', VerifierOK(v)',
         \A w \in Verifiers \ {v} :
           at'[w] = at[w] /\ held'[w] = held[w] /\ opts'[w] = opts[w] /\ checks'[w] = checks[w]
  PROVE  IInv'
<1>1. \A w \in Verifiers : VerifierOK(w)'
  BY Undisturbed DEF IInv, chainVars
<1>2. UniqueIds'
  BY DEF IInv, UniqueIds, chainVars
<1> QED BY <1>1, <1>2 DEF IInv

\* Being given a receipt preserves the invariant.
LEMMA HoldStep ==
  ASSUME IInv, NEW v \in Verifiers, Hold(v)
  PROVE  IInv'
<1> USE DEF chainVars, Go
<1>1. \E r \in Receipts : held' = [held EXCEPT ![v] = r]
  BY IssuedType DEF Hold, IInv, VerifierOK
<1>2. TypeOK'
  BY <1>1 DEF IInv, TypeOK, Hold
<1>3. VerifierOK(v)'
  BY <1>1 DEF IInv, TypeOK, Hold, VerifierOK
<1>4. \A w \in Verifiers \ {v} :
        at'[w] = at[w] /\ held'[w] = held[w] /\ opts'[w] = opts[w] /\ checks'[w] = checks[w]
  BY <1>1 DEF IInv, TypeOK, Hold
<1>5. UNCHANGED chainVars
  BY DEF Hold
<1> QED BY <1>2, <1>3, <1>4, <1>5, OneSteps

\* Changing a field preserves the invariant.
LEMMA ChangeStep ==
  ASSUME IInv, NEW v \in Verifiers, Change(v)
  PROVE  IInv'
<1> USE DEF chainVars
<1>1. held' \in [Verifiers -> Receipts \union {None}] /\ held'[v] \in Receipts
  BY ChangeType DEF IInv
<1>2. TypeOK'
  BY <1>1 DEF IInv, TypeOK, Change
<1>3. VerifierOK(v)'
  BY <1>1 DEF IInv, TypeOK, Change, VerifierOK
<1>4. \A w \in Verifiers \ {v} : held'[w] = held[w]
  BY DEF IInv, TypeOK, Change
<1>5. UNCHANGED <<onChain, indexed, at, opts, checks>>
  BY DEF Change
<1> QED BY <1>2, <1>3, <1>4, <1>5, OneSteps

\* The four local checks preserve the invariant.
LEMMA LocalStep ==
  ASSUME IInv, NEW v \in Verifiers, CheckLocally(v)
  PROVE  IInv'
<1> USE DEF chainVars, Go
<1>1. held[v] \in Receipts /\ held' = held /\ at[v] = "holding" /\ UNCHANGED chainVars
  BY DEF IInv, VerifierOK, CheckLocally
<1>2. PICK o \in Options : opts' = [opts EXCEPT ![v] = o]
  BY DEF CheckLocally
<1>3. PICK conformance \in CatalogueStatuses :
        checks' = [checks EXCEPT ![v] =
          <<ProfileStatus(held[v]), ManifestHashStatus(held[v]), NoteStatus(held[v]),
            conformance>>]
  BY DEF CheckLocally
<1> DEFINE four == <<ProfileStatus(held[v]), ManifestHashStatus(held[v]),
                     NoteStatus(held[v]), conformance>>
<1>4. four \in Seq(Status) /\ Len(four) = 4
  <2>1. /\ ProfileStatus(held[v]) \in Status
        /\ ManifestHashStatus(held[v]) \in Status
        /\ NoteStatus(held[v]) \in Status
    BY <1>1, StatusTypes
  <2>2. conformance \in Status
    BY DEF CatalogueStatuses, Status
  <2> HIDE DEF four
  <2>3. \A a, b, c, d \in Status : <<a, b, c, d>> \in Seq(Status) /\ Len(<<a, b, c, d>>) = 4
    OBVIOUS
  <2> QED BY <2>1, <2>2, <2>3 DEF four
<1>5. at' = [at EXCEPT ![v] = "anchor"]
  BY DEF CheckLocally
<1>6. TypeOK'
  BY <1>1, <1>2, <1>3, <1>4, <1>5 DEF IInv, TypeOK
<1>7. checks'[v] = four
  BY <1>3 DEF IInv, TypeOK
<1>8. LocalStatuses(v)'
  BY <1>1, <1>7 DEF LocalStatuses
<1>9. VerifierOK(v)'
  <2>1. at'[v] = "anchor" /\ opts'[v] = o /\ held'[v] = held[v] /\ Len(checks'[v]) = 4
    BY <1>1, <1>2, <1>4, <1>5, <1>7 DEF IInv, TypeOK
  <2> QED BY <2>1, <1>1, <1>8 DEF VerifierOK
<1>10. \A w \in Verifiers \ {v} :
         at'[w] = at[w] /\ held'[w] = held[w] /\ opts'[w] = opts[w] /\ checks'[w] = checks[w]
  BY <1>1, <1>2, <1>3, <1>5 DEF IInv, TypeOK
<1> QED BY <1>1, <1>6, <1>9, <1>10, OneSteps

\* What is found at the indexer is in a block, and says what the status says.
LEMMA FoundOnChain ==
  ASSUME IInv, NEW v \in Verifiers, NEW status \in AnchorStatuses(indexed, held[v], opts[v])
  PROVE  /\ status = "PASS" => \E e \in onChain : Asked(v, e) /\ e.note = held[v].payload
         /\ (status = "FAIL" /\ held[v].payload \in Payloads) =>
              \E e \in onChain : Asked(v, e) /\ e.note # held[v].payload
<1>1. status \in {"PASS", "FAIL"} =>
        \E e \in Found(indexed, held[v], opts[v]) : status = EntryStatus(held[v], e)
  BY DEF AnchorStatuses
<1>2. \A e \in Found(indexed, held[v], opts[v]) : e \in onChain /\ Asked(v, e)
  BY DEF Found, Asked, IInv, TypeOK
<1>3. \A e \in Entries :
        /\ EntryStatus(held[v], e) = "PASS" => e.note = held[v].payload
        /\ (EntryStatus(held[v], e) = "FAIL" /\ held[v].payload \in Payloads) =>
             e.note # held[v].payload
  BY DEF EntryStatus
<1>4. onChain \subseteq Entries
  BY DEF IInv, TypeOK
<1> QED BY <1>1, <1>2, <1>3, <1>4

\* Appending a status keeps those that are there.
LEMMA Appended ==
  ASSUME NEW s \in Seq(Status), NEW x \in Status
  PROVE  /\ Append(s, x) \in Seq(Status)
         /\ Len(Append(s, x)) = Len(s) + 1
         /\ \A i \in 1..Len(s) : Append(s, x)[i] = s[i]
         /\ Append(s, x)[Len(s) + 1] = x
  OBVIOUS

\* The anchor check preserves the invariant.
LEMMA AnchorStep ==
  ASSUME IInv, NEW v \in Verifiers, CheckAnchor(v)
  PROVE  IInv'
<1> USE DEF chainVars, Go
<1>1. /\ held[v] \in Receipts /\ opts[v] \in Options /\ LocalStatuses(v)
      /\ checks[v] \in Seq(Status) /\ Len(checks[v]) = 4
  BY DEF IInv, TypeOK, VerifierOK, CheckAnchor
<1>2. PICK status \in AnchorStatuses(indexed, held[v], opts[v]) :
        checks' = [checks EXCEPT ![v] = Append(@, status)]
  BY DEF CheckAnchor
<1>3. UNCHANGED <<onChain, indexed, held, opts>> /\ at' = [at EXCEPT ![v] = "timestamp"]
  BY DEF CheckAnchor
<1>4. status \in Status
  BY <1>1, StatusTypes
<1>5. checks'[v] = Append(checks[v], status)
  BY <1>2 DEF IInv, TypeOK
<1>6. /\ checks'[v] \in Seq(Status) /\ Len(checks'[v]) = 5
      /\ \A i \in 1..4 : checks'[v][i] = checks[v][i]
      /\ checks'[v][5] = status
  <2> DEFINE s == checks[v]
  <2>1. s \in Seq(Status) /\ Len(s) = 4
    BY <1>1
  <2> HIDE DEF s
  <2>2. /\ Append(s, status) \in Seq(Status) /\ Len(Append(s, status)) = 5
        /\ \A i \in 1..4 : Append(s, status)[i] = s[i]
        /\ Append(s, status)[5] = status
    <3>1. /\ Append(s, status) \in Seq(Status) /\ Len(Append(s, status)) = Len(s) + 1
          /\ \A i \in 1..Len(s) : Append(s, status)[i] = s[i]
          /\ Append(s, status)[Len(s) + 1] = status
      BY <2>1, <1>4, Appended
    <3> QED BY <2>1, <3>1
  <2> QED BY <2>2, <1>5 DEF s
<1>7. TypeOK'
  <2>1. checks' \in [Verifiers -> Seq(Status)]
    BY <1>2, <1>5, <1>6 DEF IInv, TypeOK
  <2> QED BY <1>3, <2>1 DEF IInv, TypeOK
<1>8. AnchorStatus(v)'
  <2>1. held[v].payload \in Payloads
    BY <1>1 DEF Receipts
  <2> QED BY <2>1, <1>3, <1>6, FoundOnChain DEF AnchorStatus, Asked
<1>9. LocalStatuses(v)'
  BY <1>1, <1>3, <1>6 DEF LocalStatuses
<1>10. VerifierOK(v)'
  <2>1. at'[v] = "timestamp"
    BY <1>3 DEF IInv, TypeOK
  <2> QED BY <2>1, <1>1, <1>3, <1>6, <1>8, <1>9 DEF VerifierOK
<1>11. \A w \in Verifiers \ {v} : at'[w] = at[w] /\ checks'[w] = checks[w]
  BY <1>2, <1>3 DEF IInv, TypeOK
<1> QED BY <1>3, <1>7, <1>10, <1>11, OneSteps

\* The timestamp check preserves the invariant.
LEMMA TimestampStep ==
  ASSUME IInv, NEW v \in Verifiers, CheckTimestamp(v)
  PROVE  IInv'
<1> USE DEF chainVars, Go
<1> DEFINE status == TokenStatus(held[v], opts[v])
<1>1. /\ held[v] \in Receipts /\ opts[v] \in Options /\ LocalStatuses(v) /\ AnchorStatus(v)
      /\ checks[v] \in Seq(Status) /\ Len(checks[v]) = 5
  BY DEF IInv, TypeOK, VerifierOK, CheckTimestamp
<1>2. checks' = [checks EXCEPT ![v] = Append(@, status)]
  BY DEF CheckTimestamp
<1>3. UNCHANGED <<onChain, indexed, held, opts>> /\ at' = [at EXCEPT ![v] = "done"]
  BY DEF CheckTimestamp
<1>4. status \in Status
  BY <1>1, StatusTypes
<1> HIDE DEF status
<1>5. checks'[v] = Append(checks[v], status)
  BY <1>2 DEF IInv, TypeOK
<1>6. /\ checks'[v] \in Seq(Status) /\ Len(checks'[v]) = 6
      /\ \A i \in 1..5 : checks'[v][i] = checks[v][i]
      /\ checks'[v][6] = status
  BY <1>1, <1>4, <1>5, Appended
<1>7. TypeOK'
  <2>1. checks' \in [Verifiers -> Seq(Status)]
    BY <1>2, <1>5, <1>6 DEF IInv, TypeOK
  <2> QED BY <1>3, <2>1 DEF IInv, TypeOK
<1>8. AnchorStatus(v)'
  BY <1>1, <1>3, <1>6 DEF AnchorStatus, Asked
<1>9. LocalStatuses(v)'
  BY <1>1, <1>3, <1>6 DEF LocalStatuses
<1>10. VerifierOK(v)'
  <2>1. at'[v] = "done"
    BY <1>3 DEF IInv, TypeOK
  <2>2. checks'[v][6] = TokenStatus(held'[v], opts'[v])
    BY <1>3, <1>6 DEF status
  <2> QED BY <2>1, <2>2, <1>1, <1>3, <1>6, <1>8, <1>9 DEF VerifierOK
<1>11. \A w \in Verifiers \ {v} : at'[w] = at[w] /\ checks'[w] = checks[w]
  BY <1>2, <1>3 DEF IInv, TypeOK
<1> QED BY <1>3, <1>7, <1>10, <1>11, OneSteps

\* A stuttering step preserves the invariant.
LEMMA StutterStep == IInv /\ UNCHANGED vars => IInv'
<1> SUFFICES ASSUME IInv, UNCHANGED vars PROVE IInv'
  OBVIOUS
<1> USE DEF vars, chainVars, verifyVars
<1>1. \A v \in Verifiers : VerifierOK(v)'
  BY Undisturbed DEF IInv
<1>2. TypeOK' /\ UniqueIds'
  BY DEF IInv, TypeOK, UniqueIds
<1> QED BY <1>1, <1>2 DEF IInv

\* The invariant is inductive: every status agrees with what it was computed from.
THEOREM Invariance == Spec => []IInv
<1>1. IInv /\ [Next]_vars => IInv'
  BY ChainStep, HoldStep, ChangeStep, LocalStep, AnchorStep, TimestampStep, StutterStep
  DEF Next, AllDone
<1> QED BY InitInv, <1>1, PTL DEF Spec

-------------------------------------------------------------------------------
\* Every variable of verify_receipt's model has its type.
THEOREM TypeCorrect == Spec => []TypeOK
<1>1. IInv => TypeOK
  BY DEF IInv
<1> QED BY <1>1, Invariance, PTL

\* A receipt that is ok binds its manifest to a block and to a genuine token.
THEOREM OkBinds == Spec => []OkMeansBound
<1>1. IInv => OkMeansBound
  <2> SUFFICES ASSUME IInv, NEW v \in Verifiers, Ok(v), checks[v][5] # "SKIP",
                      checks[v][6] # "SKIP"
               PROVE  /\ held[v].manifest # None
                      /\ \E e \in onChain :
                           /\ e.id = held[v].txid
                           /\ e.net = IndexerNet(held[v], opts[v])
                           /\ e.note = Payload(held[v].manifest, held[v].batching)
                      /\ held[v].token = [imprint |-> held[v].manifest, genuine |-> TRUE]
    BY DEF OkMeansBound
  <2>1. at[v] = "done" /\ \A i \in 1..6 : checks[v][i] \in {"PASS", "SKIP"}
    BY DEF Ok
  <2>2. /\ LocalStatuses(v) /\ AnchorStatus(v)
        /\ checks[v][6] = TokenStatus(held[v], opts[v])
    BY <2>1 DEF IInv, VerifierOK
  <2>3. /\ ManifestHashStatus(held[v]) \in {"PASS", "SKIP"}
        /\ NoteStatus(held[v]) \in {"PASS", "SKIP"}
        /\ checks[v][5] = "PASS"
        /\ TokenStatus(held[v], opts[v]) = "PASS"
    BY <2>1, <2>2 DEF LocalStatuses
  <2>4. held[v].manifest # None /\ held[v].declared = [hash |-> held[v].manifest, exact |-> TRUE]
    BY <2>3 DEF ManifestHashStatus
  <2>5. held[v].declared # None /\ held[v].payload = Payload(held[v].declared.hash, held[v].batching)
    BY <2>3 DEF NoteStatus
  <2>6. held[v].token = [imprint |-> held[v].declared.hash, genuine |-> TRUE]
    BY <2>3 DEF TokenStatus
  <2>7. held[v].declared.hash = held[v].manifest
    BY <2>4
  <2>8. \E e \in onChain : Asked(v, e) /\ e.note = held[v].payload
    BY <2>2, <2>3 DEF AnchorStatus
  <2> QED BY <2>4, <2>5, <2>6, <2>7, <2>8 DEF Asked
<1> QED BY <1>1, Invariance, PTL

\* Two verifications of one receipt never contradict each other on its anchor.
THEOREM NoContradiction == Spec => []VerdictsAgree
<1>1. IInv => VerdictsAgree
  <2> SUFFICES ASSUME IInv, NEW v \in Verifiers, NEW w \in Verifiers,
                      at[v] = "done", at[w] = "done", held[v] = held[w],
                      IndexerNet(held[v], opts[v]) = IndexerNet(held[w], opts[w]),
                      checks[v][5] = "PASS", checks[w][5] = "FAIL"
               PROVE  FALSE
    BY DEF VerdictsAgree
  <2>1. PICK e \in onChain : Asked(v, e) /\ e.note = held[v].payload
    BY DEF IInv, VerifierOK, AnchorStatus
  <2>2. PICK f \in onChain : Asked(w, f) /\ f.note # held[w].payload
    BY DEF IInv, VerifierOK, AnchorStatus
  <2>3. e = f
    BY <2>1, <2>2 DEF IInv, UniqueIds, Asked
  <2> QED BY <2>1, <2>2, <2>3
<1> QED BY <1>1, Invariance, PTL

\* The checks of an issued receipt fail only for what lies outside the receipt.
THEOREM IssuedAccepted == Spec => []IssuedNeverFails
<1>1. IInv => IssuedNeverFails
  <2> SUFFICES ASSUME IInv, NEW v \in Verifiers, at[v] = "done", AsIssued(held[v])
               PROVE  /\ \A i \in 1..3 : checks[v][i] = "PASS"
                      /\ checks[v][6] \in {"FAIL", "ERROR"} => ~opts[v].tsp
                      /\ checks[v][5] = "FAIL" =>
                           \E e \in onChain : e.id = held[v].txid /\ e.note # held[v].payload
    BY DEF IssuedNeverFails
  <2> DEFINE r == held[v]
  <2>1. /\ LocalStatuses(v) /\ AnchorStatus(v)
        /\ checks[v][6] = TokenStatus(r, opts[v])
        /\ opts[v] \in Options
    BY DEF IInv, VerifierOK
  <2>2. PICK h \in Hashes : /\ r.profile = "actproof-jcs-v1" /\ r.manifest = h
                            /\ r.declared = [hash |-> h, exact |-> TRUE]
                            /\ r.payload = Payload(h, r.batching)
                            /\ r.token = [imprint |-> h, genuine |-> TRUE]
    <3>1. PICK h \in Hashes, b \in Batchings, n \in Networks, id \in Ids \union {None},
               round \in Rounds \union {None} : r = Issued(h, b, n, id, round)
      BY DEF AsIssued
    <3>2. /\ r.profile = "actproof-jcs-v1" /\ r.manifest = h /\ r.batching = b
          /\ r.declared = [hash |-> h, exact |-> TRUE]
          /\ r.payload = Payload(h, b)
          /\ r.token = [imprint |-> h, genuine |-> TRUE]
      BY <3>1 DEF Issued
    <3> QED BY <3>2
  <2>3. h # None /\ r.declared # None /\ r.token # None /\ r.declared.hash = h
    <3>1. r.declared \in Declarations /\ r.token \in TokenSet /\ r.declared.hash = h
      BY <2>2 DEF Declarations, TokenSet
    <3> QED BY <3>1, VerifyAssumption
  <2> HIDE DEF r
  <2>4. ProfileStatus(r) = "PASS"
    BY <2>2 DEF ProfileStatus
  <2>5. ManifestHashStatus(r) = "PASS"
    BY <2>2, <2>3 DEF ManifestHashStatus
  <2>6. NoteStatus(r) = "PASS"
    BY <2>2, <2>3 DEF NoteStatus
  <2>7. \A i \in 1..3 : checks[v][i] = "PASS"
    BY <2>1, <2>4, <2>5, <2>6 DEF LocalStatuses, r
  <2>8. TokenStatus(r, opts[v]) \in {"FAIL", "ERROR"} => ~opts[v].tsp
    BY <2>2, <2>3, <2>1 DEF TokenStatus, Options
  <2>9. checks[v][5] = "FAIL" =>
          \E e \in onChain : e.id = held[v].txid /\ e.note # held[v].payload
    BY <2>1 DEF AnchorStatus, Asked
  <2> QED BY <2>1, <2>7, <2>8, <2>9 DEF r
<1> QED BY <1>1, Invariance, PTL
=============================================================================
