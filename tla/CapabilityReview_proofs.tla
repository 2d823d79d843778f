----------------------- MODULE CapabilityReview_proofs -----------------------
(***************************************************************************)
(* ReviewInv is inductive, so every named invariant of CapabilityReview holds    *)
(* for every set of products, capabilities, evidence rows and requests; and *)
(* CapabilityReview implements ReviewGate.                                  *)
(***************************************************************************)
EXTENDS CapabilityReview, FiniteSetTheorems, TLAPS

USE NoneAreNone, MaxSuggestionsIsNat

\* The empty candidate list is within the bound the code cuts the list to.
LEMMA IdleIsRequest == Idle \in Request /\ Cardinality(Idle.candidates) <= MaxSuggestions
  BY FS_EmptySet DEF Idle, Request

\* Logging an event of the right type keeps the log well typed and only adds
\* vetted capabilities.
LEMMA LogGrows ==
    ASSUME audit \subseteq Event,
           NEW kind \in {"created", "deleted", "classified", "confirmed", "rejected", "matched"},
           NEW p \in Products, NEW c \in Capabilities \cup {NoCapability},
           Log(kind, p, c)
    PROVE  /\ audit' \subseteq Event
           /\ \A q \in Products : Vetted(q) \subseteq Vetted(q)'
           /\ kind = "confirmed" /\ c \in Capabilities => c \in Vetted(p)'
           /\ \A q \in Products : kind # "confirmed" => Vetted(q)' = Vetted(q)
  BY DEF Log, Event, Vetted

LEMMA InitIInv == ReviewInit => ReviewInv
<1> SUFFICES ASSUME ReviewInit PROVE ReviewInv
  OBVIOUS
<1>1. ReviewTypeOK
  BY IdleIsRequest DEF ReviewInit, ReviewTypeOK, Row, NoRow
<1>2. ReviewedIffConfirmed /\ EvidencePerRow
  BY DEF ReviewInit, ReviewedIffConfirmed, EvidencePerRow, NoRow
<1>3. CascadeComplete /\ SnapshotVetted /\ OpportunityNeedsReview
  BY DEF ReviewInit, CascadeComplete, SnapshotVetted, OpportunityNeedsReview, NoRow
<1> QED
  BY <1>1, <1>2, <1>3 DEF ReviewInv

-----------------------------------------------------------------------------
\* One lemma per handler, with one step per conjunct it can disturb.

LEMMA CreateStep ==
    ASSUME ReviewInv, NEW p \in Products, CreateProduct(p)
    PROVE  ReviewInv'
<1> USE DEF ReviewInv
<1>1. /\ audit' \subseteq Event
      /\ \A q \in Products : Vetted(q)' = Vetted(q)
  BY LogGrows DEF CreateProduct, ReviewTypeOK
<1>2. ReviewTypeOK'
  BY <1>1 DEF CreateProduct, ReviewTypeOK
<1>3. ReviewedIffConfirmed' /\ EvidencePerRow'
  BY <1>1 DEF CreateProduct, ReviewedIffConfirmed, EvidencePerRow
<1>4. CascadeComplete'
  BY DEF CreateProduct, CascadeComplete, ReviewTypeOK
<1>5. SnapshotVetted' /\ OpportunityNeedsReview'
  BY <1>1 DEF CreateProduct, SnapshotVetted, OpportunityNeedsReview, ReviewTypeOK, Request
<1> QED
  BY <1>2, <1>3, <1>4, <1>5

\* The cascade removes every row of the product and leaves the others.
LEMMA DeleteStep ==
    ASSUME ReviewInv, NEW p \in Products, DeleteProduct(p)
    PROVE  ReviewInv'
<1> USE DEF ReviewInv
<1>1. /\ audit' \subseteq Event
      /\ \A q \in Products : Vetted(q)' = Vetted(q)
  BY LogGrows DEF DeleteProduct, ReviewTypeOK
<1>2. \A q \in Products, c \in Capabilities :
        /\ q = p => link'[q][c].by = "none"
        /\ q # p => link'[q][c] = link[q][c]
  BY DEF DeleteProduct, ReviewTypeOK, NoRow
<1>3. ReviewTypeOK'
  BY <1>1 DEF DeleteProduct, ReviewTypeOK, Row, NoRow
<1>4. ReviewedIffConfirmed' /\ EvidencePerRow'
  <2>1. ReviewedIffConfirmed'
    BY <1>1, <1>2 DEF DeleteProduct, ReviewedIffConfirmed
  <2>2. EvidencePerRow'
    BY <1>2 DEF DeleteProduct, EvidencePerRow
  <2> QED
    BY <2>1, <2>2
<1>5. CascadeComplete'
  BY <1>2 DEF DeleteProduct, CascadeComplete, ReviewTypeOK
<1>6. SnapshotVetted' /\ OpportunityNeedsReview'
  BY <1>1 DEF DeleteProduct, SnapshotVetted, OpportunityNeedsReview, ReviewTypeOK, Request
<1> QED
  BY <1>3, <1>4, <1>5, <1>6

LEMMA ConfirmStep ==
    ASSUME ReviewInv, NEW p \in Products, NEW c \in Capabilities, Confirm(p, c)
    PROVE  ReviewInv'
<1> USE DEF ReviewInv
<1>1. /\ audit' \subseteq Event
      /\ \A q \in Products : Vetted(q) \subseteq Vetted(q)'
      /\ c \in Vetted(p)'
  BY LogGrows DEF Confirm, ReviewTypeOK
<1>2. link[p][c] \in Row /\ link[p][c].ev \in Evidence
  BY DEF Confirm, ReviewTypeOK, Row, ReviewedIffConfirmed
<1>3. reviewed' = reviewed \cup {link[p][c].ev}
  BY <1>2, NoneAreNone DEF Confirm
<1>4. \A q \in Products, d \in Capabilities :
        link'[q][d] = IF q = p /\ d = c THEN [link[p][c] EXCEPT !.by = "analyst"]
                                        ELSE link[q][d]
  BY DEF Confirm, ReviewTypeOK
<1>5. ReviewTypeOK'
  BY <1>1, <1>2, <1>3 DEF Confirm, ReviewTypeOK, Row
<1>6. \A q \in Products, d \in Capabilities :
        /\ link'[q][d].ev = link[q][d].ev
        /\ link'[q][d].by = IF q = p /\ d = c THEN "analyst" ELSE link[q][d].by
  BY <1>2, <1>4 DEF ReviewTypeOK, Row
<1>7. ReviewedIffConfirmed'
  BY <1>1, <1>3, <1>6 DEF Confirm, ReviewedIffConfirmed, EvidencePerRow
<1>8. EvidencePerRow'
  BY <1>3, <1>6, NoneAreNone DEF Confirm, EvidencePerRow, ReviewTypeOK
<1>9. CascadeComplete'
  BY <1>6 DEF Confirm, CascadeComplete
<1>10. SnapshotVetted' /\ OpportunityNeedsReview'
  BY <1>1 DEF Confirm, SnapshotVetted, OpportunityNeedsReview, ReviewTypeOK, Request
<1> QED
  BY <1>5, <1>7, <1>8, <1>9, <1>10

LEMMA RejectStep ==
    ASSUME ReviewInv, NEW p \in Products, NEW c \in Capabilities, Reject(p, c)
    PROVE  ReviewInv'
<1> USE DEF ReviewInv
<1>1. /\ audit' \subseteq Event
      /\ \A q \in Products : Vetted(q)' = Vetted(q)
  BY LogGrows DEF Reject, ReviewTypeOK
<1>2. \A q \in Products, d \in Capabilities :
        /\ q = p /\ d = c => link'[q][d].by = "none"
        /\ ~(q = p /\ d = c) => link'[q][d] = link[q][d]
  BY DEF Reject, ReviewTypeOK, NoRow
<1>3. ReviewTypeOK'
  BY <1>1 DEF Reject, ReviewTypeOK, Row, NoRow
<1>4. ReviewedIffConfirmed' /\ EvidencePerRow'
  <2>1. ReviewedIffConfirmed'
    BY <1>1, <1>2 DEF Reject, ReviewedIffConfirmed
  <2>2. EvidencePerRow'
    BY <1>2 DEF Reject, EvidencePerRow
  <2> QED
    BY <2>1, <2>2
<1>5. CascadeComplete'
  BY <1>2 DEF Reject, CascadeComplete
<1>6. SnapshotVetted' /\ OpportunityNeedsReview'
  BY <1>1 DEF Reject, SnapshotVetted, OpportunityNeedsReview, ReviewTypeOK, Request
<1> QED
  BY <1>3, <1>4, <1>5, <1>6

LEMMA ClassifyReadStep ==
    ASSUME ReviewInv, NEW r \in Requests, NEW p \in Products,
           NEW candidates \in SUBSET Capabilities, ClassifyRead(r, p, candidates)
    PROVE  ReviewInv'
<1> USE DEF ReviewInv
<1> DEFINE new == [op |-> "classify", product |-> p,
                   candidates |-> candidates, confirmed |-> Confirmed(p)]
<1>1. new \in Request /\ new.confirmed \subseteq Vetted(p)
  BY DEF Request, Confirmed, ReviewedIffConfirmed
<1>2. \A s \in Requests : request'[s] = IF s = r THEN new ELSE request[s]
  BY DEF ClassifyRead, ReviewTypeOK
<1>3. ReviewTypeOK'
  BY <1>1 DEF ClassifyRead, ReviewTypeOK
<1>4. SnapshotVetted'
  BY <1>1, <1>2 DEF ClassifyRead, SnapshotVetted, Vetted
<1>5. UNCHANGED <<product, link, claim, reviewed, opportunities, audit>>
  BY DEF ClassifyRead
<1> QED
  BY <1>3, <1>4, <1>5 DEF ReviewedIffConfirmed, EvidencePerRow, CascadeComplete,
     OpportunityNeedsReview, Vetted

\* The evidence a run writes is fresh: claimed by no row and reviewed by nobody.
LEMMA ClassifyCommitStep ==
    ASSUME ReviewInv, NEW r \in Requests, ClassifyCommit(r)
    PROVE  ReviewInv'
<1> USE DEF ReviewInv
<1> DEFINE q == request[r]
           p == q.product
           todo == ToSuggest(q)
<1>1. q \in Request /\ p \in Products /\ todo \subseteq Capabilities
  BY DEF ClassifyCommit, ReviewTypeOK, Request, Idle, ToSuggest
<1>2. PICK ev \in Injection(todo, FreeEvidence) :
        /\ link' = [link EXCEPT ![p] = [c \in Capabilities |->
               IF c \in todo THEN [by |-> "ai_suggested", ev |-> ev[c]] ELSE link[p][c]]]
        /\ claim' = [e \in Evidence |-> IF e \in Range(ev) THEN p ELSE claim[e]]
  BY DEF ClassifyCommit
<1>3. /\ ev \in [todo -> FreeEvidence]
      /\ \A c, d \in todo : c # d => ev[c] # ev[d]
      /\ \A c \in todo : ev[c] \in Evidence /\ claim[ev[c]] = NoProduct /\ claim'[ev[c]] = p
      /\ \A e \in Evidence : claim[e] # NoProduct => claim'[e] = claim[e]
  BY <1>2 DEF Injection, IsInjective, Range, FreeEvidence
<1>4. /\ audit' \subseteq Event
      /\ \A s \in Products : Vetted(s)' = Vetted(s)
  BY <1>1, LogGrows DEF ClassifyCommit, ReviewTypeOK
<1>5. \A s \in Products, c \in Capabilities :
        /\ s = p /\ c \in todo =>
              link'[s][c].by = "ai_suggested" /\ link'[s][c].ev = ev[c]
        /\ ~(s = p /\ c \in todo) => link'[s][c] = link[s][c]
  BY <1>1, <1>2 DEF ReviewTypeOK
<1>6. ReviewTypeOK'
  <2>1. link' \in [Products -> [Capabilities -> Row]]
    <3>1. [c \in Capabilities |->
             IF c \in todo THEN [by |-> "ai_suggested", ev |-> ev[c]] ELSE link[p][c]]
          \in [Capabilities -> Row]
      BY <1>1, <1>3 DEF ReviewTypeOK, Row
    <3> QED
      BY <1>1, <1>2, <3>1 DEF ReviewTypeOK
  <2>2. claim' \in [Evidence -> Products \cup {NoProduct}]
    BY <1>1, <1>2 DEF ReviewTypeOK
  <2>3. request' \in [Requests -> Request]
        /\ \A s \in Requests : Cardinality(request'[s].candidates) <= MaxSuggestions
    BY IdleIsRequest DEF ClassifyCommit, ReviewTypeOK
  <2> QED
    BY <1>4, <2>1, <2>2, <2>3 DEF ClassifyCommit, ReviewTypeOK
<1>7. ReviewedIffConfirmed'
  <2>1. reviewed' = reviewed /\ \A c \in todo : ev[c] \notin reviewed
    BY <1>3 DEF ClassifyCommit, EvidencePerRow
  <2>2. ASSUME NEW s \in Products, NEW c \in Capabilities
        PROVE  ReviewedIffConfirmed!(s, c)'
    BY <1>3, <1>4, <1>5, <2>1 DEF ReviewedIffConfirmed
  <2> QED
    BY <2>2 DEF ReviewedIffConfirmed
<1>8. EvidencePerRow'
  <2>1. \A s \in Products, c \in Capabilities : link[s][c].by # "none" =>
          /\ link[s][c].ev \in Evidence
          /\ claim[link[s][c].ev] = s
    BY DEF ReviewTypeOK, Row, ReviewedIffConfirmed, EvidencePerRow
  <2>2. \A s \in Products, c \in Capabilities :
          link'[s][c].by # "none" => claim'[link'[s][c].ev] = s
    BY <1>1, <1>3, <1>5, <2>1, NoneAreNone
  <2>3. \A e \in reviewed' : claim'[e] # NoProduct
    BY <1>3 DEF ClassifyCommit, EvidencePerRow, ReviewTypeOK
  <2>4. ASSUME NEW s \in Products, NEW t \in Products,
               NEW c \in Capabilities, NEW d \in Capabilities,
               link'[s][c].by # "none", s # t \/ c # d, link'[t][d].by # "none"
        PROVE  link'[s][c].ev # link'[t][d].ev
    <3>1. CASE (s = p /\ c \in todo) /\ (t = p /\ d \in todo)
      BY <1>3, <1>5, <2>4, <3>1
    <3>2. CASE (s = p /\ c \in todo) /\ ~(t = p /\ d \in todo)
      BY <1>3, <1>5, <2>1, <2>4, <3>2, NoneAreNone
    <3>3. CASE ~(s = p /\ c \in todo) /\ (t = p /\ d \in todo)
      BY <1>3, <1>5, <2>1, <2>4, <3>3, NoneAreNone
    <3>4. CASE ~(s = p /\ c \in todo) /\ ~(t = p /\ d \in todo)
      BY <1>5, <2>4, <3>4 DEF EvidencePerRow
    <3> QED
      BY <3>1, <3>2, <3>3, <3>4
  <2> QED
    BY <2>2, <2>3, <2>4 DEF EvidencePerRow
<1>9. CascadeComplete'
  BY <1>5 DEF ClassifyCommit, CascadeComplete
<1>10. SnapshotVetted' /\ OpportunityNeedsReview'
  <2>1. OpportunityNeedsReview'
    BY <1>4 DEF ClassifyCommit, OpportunityNeedsReview
  <2>2. \A s \in Requests : request'[s] # Idle =>
          request'[s] = request[s] /\ request[s].product \in Products
    BY DEF ClassifyCommit, ReviewTypeOK, Request
  <2>3. SnapshotVetted'
    BY <1>4, <2>2 DEF SnapshotVetted
  <2> QED
    BY <2>1, <2>3
<1> QED
  BY <1>6, <1>7, <1>8, <1>9, <1>10

LEMMA MatchReadStep ==
    ASSUME ReviewInv, NEW r \in Requests, NEW p \in Products, MatchRead(r, p)
    PROVE  ReviewInv'
<1> USE DEF ReviewInv
<1> DEFINE new == [op |-> "match", product |-> p,
                   candidates |-> {}, confirmed |-> Confirmed(p)]
<1>1. new \in Request /\ new.confirmed \subseteq Vetted(p)
  BY DEF Request, Confirmed, ReviewedIffConfirmed
<1>2. \A s \in Requests : request'[s] = IF s = r THEN new ELSE request[s]
  BY DEF MatchRead, ReviewTypeOK
<1>3. ReviewTypeOK'
  BY <1>1, IdleIsRequest DEF MatchRead, ReviewTypeOK, Idle
<1>4. SnapshotVetted'
  BY <1>1, <1>2 DEF MatchRead, SnapshotVetted, Vetted
<1>5. UNCHANGED <<product, link, claim, reviewed, opportunities, audit>>
  BY DEF MatchRead
<1> QED
  BY <1>3, <1>4, <1>5 DEF ReviewedIffConfirmed, EvidencePerRow, CascadeComplete,
     OpportunityNeedsReview, Vetted

\* A non-empty result needs a non-empty snapshot, and a snapshot is vetted.
LEMMA MatchCommitStep ==
    ASSUME ReviewInv, NEW r \in Requests, NEW found \in SUBSET Programmes,
           MatchCommit(r, found)
    PROVE  ReviewInv'
<1> USE DEF ReviewInv
<1> DEFINE q == request[r]
<1>1. q \in Request /\ q # Idle /\ q.product \in Products
  BY DEF MatchCommit, ReviewTypeOK, Request, Idle
<1>2. /\ audit' \subseteq Event
      /\ \A s \in Products : Vetted(s)' = Vetted(s)
  BY <1>1, LogGrows DEF MatchCommit, ReviewTypeOK
<1>3. found # {} => Vetted(q.product) # {}
  BY <1>1 DEF MatchCommit, SnapshotVetted
<1>4. ReviewTypeOK'
  BY <1>1, <1>2, IdleIsRequest DEF MatchCommit, ReviewTypeOK
<1>5. ReviewedIffConfirmed' /\ EvidencePerRow'
  BY <1>2 DEF MatchCommit, ReviewedIffConfirmed, EvidencePerRow
<1>6. CascadeComplete'
  BY <1>1 DEF MatchCommit, CascadeComplete, ReviewTypeOK
<1>7. SnapshotVetted'
  BY <1>2 DEF MatchCommit, SnapshotVetted, ReviewTypeOK, Request
<1>8. OpportunityNeedsReview'
  BY <1>1, <1>2, <1>3 DEF MatchCommit, OpportunityNeedsReview, ReviewTypeOK
<1> QED
  BY <1>4, <1>5, <1>6, <1>7, <1>8

LEMMA RollbackStep ==
    ASSUME ReviewInv, NEW r \in Requests, Rollback(r)
    PROVE  ReviewInv'
<1> USE DEF ReviewInv
<1>1. ReviewTypeOK'
  BY IdleIsRequest DEF Rollback, ReviewTypeOK
<1>2. SnapshotVetted'
  BY DEF Rollback, SnapshotVetted, ReviewTypeOK, Vetted
<1>3. UNCHANGED <<product, link, claim, reviewed, opportunities, audit>>
  BY DEF Rollback
<1> QED
  BY <1>1, <1>2, <1>3 DEF ReviewedIffConfirmed, EvidencePerRow, CascadeComplete,
     OpportunityNeedsReview, Vetted

LEMMA StutterStep == ReviewInv /\ UNCHANGED reviewVars => ReviewInv'
<1> SUFFICES ASSUME ReviewInv, UNCHANGED reviewVars PROVE ReviewInv'
  OBVIOUS
<1>1. UNCHANGED <<product, link, claim, reviewed, opportunities, audit, request>>
  BY DEF reviewVars
<1>2. ReviewTypeOK'
  BY <1>1 DEF ReviewInv, ReviewTypeOK
<1>3. ReviewedIffConfirmed' /\ EvidencePerRow' /\ CascadeComplete'
  BY <1>1 DEF ReviewInv, ReviewedIffConfirmed, EvidencePerRow, CascadeComplete, Vetted
<1>4. SnapshotVetted' /\ OpportunityNeedsReview'
  BY <1>1 DEF ReviewInv, SnapshotVetted, OpportunityNeedsReview, Vetted
<1> QED
  BY <1>2, <1>3, <1>4 DEF ReviewInv

LEMMA NextStep == ReviewInv /\ [ReviewNext]_reviewVars => ReviewInv'
<1> SUFFICES ASSUME ReviewInv, [ReviewNext]_reviewVars PROVE ReviewInv'
  OBVIOUS
<1>1. CASE \E p \in Products : CreateProduct(p) \/ DeleteProduct(p)
  BY <1>1, CreateStep, DeleteStep
<1>2. CASE \E p \in Products, c \in Capabilities : Confirm(p, c) \/ Reject(p, c)
  BY <1>2, ConfirmStep, RejectStep
<1>3. CASE \E r \in Requests, p \in Products, candidates \in SUBSET Capabilities :
             ClassifyRead(r, p, candidates)
  BY <1>3, ClassifyReadStep
<1>4. CASE \E r \in Requests, p \in Products : MatchRead(r, p)
  BY <1>4, MatchReadStep
<1>5. CASE \E r \in Requests, found \in SUBSET Programmes : MatchCommit(r, found)
  BY <1>5, MatchCommitStep
<1>6. CASE \E r \in Requests : ClassifyCommit(r) \/ Rollback(r)
  BY <1>6, ClassifyCommitStep, RollbackStep
<1>7. CASE UNCHANGED reviewVars
  BY <1>7, StutterStep
<1> QED
  BY <1>1, <1>2, <1>3, <1>4, <1>5, <1>6, <1>7 DEF ReviewNext

-----------------------------------------------------------------------------
\* The inductive invariant, and with it every invariant the runs check.
THEOREM Invariance == ReviewSpec => []ReviewInv
  BY InitIInv, NextStep, PTL DEF ReviewSpec

\* Every variable keeps its type.
THEOREM TypeCorrect == ReviewSpec => []ReviewTypeOK
<1>1. ReviewInv => ReviewTypeOK
  BY DEF ReviewInv
<1> QED
  BY <1>1, Invariance, PTL

\* What the platform shows as an analyst's decision is one, and what it shows as
\* a suggestion is unreviewed, for any number of concurrent requests.
THEOREM ReviewIsHonest == ReviewSpec => []ReviewedIffConfirmed
<1>1. ReviewInv => ReviewedIffConfirmed
  BY DEF ReviewInv
<1> QED
  BY <1>1, Invariance, PTL

\* Confirming one suggestion never marks the evidence of another as reviewed.
THEOREM EvidenceIsPerRow == ReviewSpec => []EvidencePerRow
<1>1. ReviewInv => EvidencePerRow
  BY DEF ReviewInv
<1> QED
  BY <1>1, Invariance, PTL

\* What a request in flight has read as confirmed was confirmed by a person.
THEOREM SnapshotIsVetted == ReviewSpec => []SnapshotVetted
<1>1. ReviewInv => SnapshotVetted
  BY DEF ReviewInv
<1> QED
  BY <1>1, Invariance, PTL

\* No request, however stale, leaves a row behind for a product that is gone.
THEOREM CascadeIsComplete == ReviewSpec => []CascadeComplete
<1>1. ReviewInv => CascadeComplete
  BY DEF ReviewInv
<1> QED
  BY <1>1, Invariance, PTL

\* The pipeline of a product is filled only after a person confirmed one of its
\* capabilities.
THEOREM PipelineIsGated == ReviewSpec => []OpportunityNeedsReview
<1>1. ReviewInv => OpportunityNeedsReview
  BY DEF ReviewInv
<1> QED
  BY <1>1, Invariance, PTL

-----------------------------------------------------------------------------
\* CapabilityReview implements ReviewGate: a confirmation vets, a match commit
\* generates, a deletion discards, and every other step leaves the gate alone.
THEOREM ImplementsGate == ReviewSpec => GateSpec
<1> DEFINE vt == [p \in Products |-> Vetted(p)]
<1>1. ReviewInit => Gate!GateInit
  BY DEF ReviewInit, Gate!GateInit, Vetted
<1>2. ReviewInv /\ [ReviewNext]_reviewVars => [Gate!GateNext]_(Gate!gateVars)
  <2> SUFFICES ASSUME ReviewInv, [ReviewNext]_reviewVars
               PROVE  Gate!GateNext \/ UNCHANGED <<vt, opportunities>>
    BY DEF Gate!gateVars
  <2> USE DEF ReviewInv
  <2>1. ASSUME NEW p \in Products, DeleteProduct(p)
        PROVE  Gate!Discard(p)
    <3>1. \A q \in Products : Vetted(q)' = Vetted(q)
      BY <2>1, LogGrows DEF DeleteProduct, ReviewTypeOK
    <3> QED
      BY <2>1, <3>1 DEF Gate!Discard, DeleteProduct
  <2>2. ASSUME NEW p \in Products, NEW c \in Capabilities, Confirm(p, c)
        PROVE  Gate!Vet(p, c)
    <3>1. \A q \in Products : Vetted(q)' = IF q = p THEN Vetted(q) \cup {c} ELSE Vetted(q)
      BY <2>2, NoneAreNone DEF Confirm, Log, Vetted
    <3> QED
      BY <2>2, <3>1 DEF Gate!Vet, Confirm
  <2>3. ASSUME NEW r \in Requests, NEW found \in SUBSET Programmes, MatchCommit(r, found)
        PROVE  Gate!GateNext \/ UNCHANGED <<vt, opportunities>>
    <3> DEFINE p == request[r].product
    <3>1. request[r] # Idle /\ p \in Products
      BY <2>3 DEF MatchCommit, ReviewTypeOK, Request, Idle
    <3>2. \A q \in Products : Vetted(q)' = Vetted(q)
      BY <2>3, <3>1, LogGrows DEF MatchCommit, ReviewTypeOK
    <3>3. CASE found = {}
      <4>1. opportunities' = opportunities
        BY <2>3, <3>1, <3>3 DEF MatchCommit, ReviewTypeOK
      <4> QED
        BY <3>2, <4>1
    <3>4. CASE found # {}
      <4>1. Vetted(p) # {}
        BY <2>3, <3>1, <3>4 DEF MatchCommit, SnapshotVetted
      <4>2. Gate!Generate(p, found)
        BY <2>3, <3>1, <3>2, <4>1 DEF Gate!Generate, MatchCommit
      <4> QED
        BY <3>1, <4>2 DEF Gate!GateNext
    <3> QED
      BY <3>3, <3>4
  <2>4. ASSUME NEW p \in Products,
               \/ CreateProduct(p)
               \/ \E c \in Capabilities : Reject(p, c)
        PROVE  UNCHANGED <<vt, opportunities>>
    <3>1. \A q \in Products : Vetted(q)' = Vetted(q)
      BY <2>4, LogGrows DEF CreateProduct, Reject, ReviewTypeOK
    <3> QED
      BY <2>4, <3>1 DEF CreateProduct, Reject
  <2>5. ASSUME NEW r \in Requests, ClassifyCommit(r)
        PROVE  UNCHANGED <<vt, opportunities>>
    <3>1. request[r].product \in Products
      BY <2>5 DEF ClassifyCommit, ReviewTypeOK, Request, Idle
    <3>2. \A q \in Products : Vetted(q)' = Vetted(q)
      BY <2>5, <3>1, LogGrows DEF ClassifyCommit, ReviewTypeOK
    <3> QED
      BY <2>5, <3>2 DEF ClassifyCommit
  <2>6. ASSUME NEW r \in Requests, NEW p \in Products,
               \/ \E candidates \in SUBSET Capabilities : ClassifyRead(r, p, candidates)
               \/ MatchRead(r, p)
        PROVE  UNCHANGED <<vt, opportunities>>
    BY <2>6 DEF ClassifyRead, MatchRead, Vetted
  <2>7. ASSUME NEW r \in Requests, Rollback(r)
        PROVE  UNCHANGED <<vt, opportunities>>
    BY <2>7 DEF Rollback, Vetted
  <2>8. CASE UNCHANGED reviewVars
    BY <2>8 DEF reviewVars, Vetted
  <2> QED
    BY <2>1, <2>2, <2>3, <2>4, <2>5, <2>6, <2>7, <2>8 DEF ReviewNext, Gate!GateNext
<1> QED
  BY <1>1, <1>2, Invariance, PTL DEF ReviewSpec, GateSpec, Gate!GateSpec
=============================================================================
