-------------------------- MODULE CapabilityReview --------------------------
(***************************************************************************)
(* The human-in-the-loop gate of src/api/app/main.py: a classifier may     *)
(* SUGGEST capabilities of a product, only an analyst CONFIRMS one, and    *)
(* only confirmed capabilities turn tenders into opportunities.            *)
(*                                                                         *)
(* classify and match-programmes read the database, compute, and write in  *)
(* one later commit: each is a read step and a commit step of a request,   *)
(* and every other request may commit in between (one session per request, *)
(* READ COMMITTED, no row is locked by the reads).  The other handlers are *)
(* one conditional UPDATE or DELETE each, so they are single steps.        *)
(***************************************************************************)
EXTENDS Naturals, FiniteSets, Functions

CONSTANTS
    Products, Capabilities, Programmes,
    Evidence,          \* identifiers of evidence rows (bounds classify runs)
    Requests,          \* slots for classify and match requests in flight
    NoProduct, NoCapability, NoEvidence,
    MaxSuggestions     \* 3 in the code: candidates[:3]

ASSUME NoneAreNone ==
    /\ NoProduct \notin Products
    /\ NoCapability \notin Capabilities
    /\ NoEvidence \notin Evidence
ASSUME MaxSuggestionsIsNat == MaxSuggestions \in Nat

VARIABLES
    product,        \* product[p]: is the row not yet there, live, or deleted
    link,           \* link[p][c]: the product_capabilities row of (p, c)
    claim,          \* claim[e]: the product evidence row e was written for
    reviewed,       \* evidence rows with reviewed_by set
    opportunities,  \* opportunities[p]: programmes p has an opportunity for
    audit,          \* the audit_log, as the set of events recorded
    request         \* request[r]: what an in-flight request has read

reviewVars == <<product, link, claim, reviewed, opportunities, audit, request>>

-----------------------------------------------------------------------------
Row == [by : {"none", "ai_suggested", "analyst"}, ev : Evidence \cup {NoEvidence}]
NoRow == [by |-> "none", ev |-> NoEvidence]

Event ==
    [event : {"created", "deleted", "classified", "confirmed", "rejected", "matched"},
     product : Products, capability : Capabilities \cup {NoCapability}]

Idle == [op |-> "idle", product |-> NoProduct, candidates |-> {}, confirmed |-> {}]
Request ==
    {Idle} \cup [op : {"classify", "match"}, product : Products,
                 candidates : SUBSET Capabilities, confirmed : SUBSET Capabilities]

Log(kind, p, c) ==
    audit' = audit \cup {[event |-> kind, product |-> p, capability |-> c]}

\* Mutant: the query forgets "and classified_by = 'analyst'".
ConfirmedOrSuggested(p) == {c \in Capabilities : link[p][c].by # "none"}

\* _load_confirmed_capabilities, and the same query in classify_product
Confirmed(p) == {c \in Capabilities : link[p][c].by = "analyst"}
FreeEvidence == {e \in Evidence : claim[e] = NoProduct}

ReviewInit ==
    /\ product = [p \in Products |-> "absent"]
    /\ link = [p \in Products |-> [c \in Capabilities |-> NoRow]]
    /\ claim = [e \in Evidence |-> NoProduct]
    /\ reviewed = {}
    /\ opportunities = [p \in Products |-> {}]
    /\ audit = {}
    /\ request = [r \in Requests |-> Idle]

-----------------------------------------------------------------------------
CreateProduct(p) ==
    /\ product[p] = "absent"
    /\ product' = [product EXCEPT ![p] = "live"]
    /\ Log("created", p, NoCapability)
    /\ UNCHANGED <<link, claim, reviewed, opportunities, request>>

\* Mutant: the links do not cascade.
DeleteProductLeavesLinks(p) ==
    /\ product[p] = "live"
    /\ product' = [product EXCEPT ![p] = "deleted"]
    /\ opportunities' = [opportunities EXCEPT ![p] = {}]
    /\ Log("deleted", p, NoCapability)
    /\ UNCHANGED <<link, claim, reviewed, request>>

\* on delete cascade: the links and the opportunities go with the product,
\* the evidence rows (no foreign key to the product) stay
DeleteProduct(p) ==
    /\ product[p] = "live"
    /\ product' = [product EXCEPT ![p] = "deleted"]
    /\ link' = [link EXCEPT ![p] = [c \in Capabilities |-> NoRow]]
    /\ opportunities' = [opportunities EXCEPT ![p] = {}]
    /\ Log("deleted", p, NoCapability)
    /\ UNCHANGED <<claim, reviewed, request>>

\* The candidates depend on the taxonomy and the product's text: any few of
\* the capabilities.
ClassifyRead(r, p, candidates) ==
    /\ request[r] = Idle
    /\ product[p] = "live"
    /\ Cardinality(candidates) <= MaxSuggestions
    /\ request' = [request EXCEPT ![r] =
           [op |-> "classify", product |-> p,
            candidates |-> candidates, confirmed |-> Confirmed(p)]]
    /\ UNCHANGED <<product, link, claim, reviewed, opportunities, audit>>

ToSuggest(q) == q.candidates \ q.confirmed

\* Mutant: on conflict, only the evidence is updated and classified_by stays.
ClassifyCommitKeepsAuthor(r) ==
    LET q == request[r] IN
    /\ q.op = "classify"
    /\ ToSuggest(q) # {} => product[q.product] = "live"
    /\ \E ev \in Injection(ToSuggest(q), FreeEvidence) :
        /\ link' = [link EXCEPT ![q.product] = [c \in Capabilities |->
               IF c \notin ToSuggest(q) THEN link[q.product][c]
               ELSE [by |-> IF link[q.product][c].by = "none" THEN "ai_suggested"
                            ELSE link[q.product][c].by, ev |-> ev[c]]]]
        /\ claim' = [e \in Evidence |-> IF e \in Range(ev) THEN q.product ELSE claim[e]]
    /\ Log("classified", q.product, NoCapability)
    /\ request' = [request EXCEPT ![r] = Idle]
    /\ UNCHANGED <<product, reviewed, opportunities>>

\* Mutant: one evidence row for the whole run.
ClassifyCommitSharing(r) ==
    LET q == request[r] IN
    /\ q.op = "classify"
    /\ ToSuggest(q) # {} => product[q.product] = "live"
    /\ \E e \in FreeEvidence :
        /\ link' = [link EXCEPT ![q.product] = [c \in Capabilities |->
               IF c \in ToSuggest(q) THEN [by |-> "ai_suggested", ev |-> e]
                                     ELSE link[q.product][c]]]
        /\ claim' = [claim EXCEPT ![e] = q.product]
    /\ Log("classified", q.product, NoCapability)
    /\ request' = [request EXCEPT ![r] = Idle]
    /\ UNCHANGED <<product, reviewed, opportunities>>

\* Fresh evidence and an upsert per candidate, then one commit.  The upsert
\* sets classified_by whatever it finds; its foreign key needs the product.
ClassifyCommit(r) ==
    LET q == request[r] IN
    /\ q.op = "classify"
    /\ ToSuggest(q) # {} => product[q.product] = "live"
    /\ \E ev \in Injection(ToSuggest(q), FreeEvidence) :
        /\ link' = [link EXCEPT ![q.product] = [c \in Capabilities |->
               IF c \in ToSuggest(q) THEN [by |-> "ai_suggested", ev |-> ev[c]]
                                     ELSE link[q.product][c]]]
        /\ claim' = [e \in Evidence |-> IF e \in Range(ev) THEN q.product ELSE claim[e]]
    /\ Log("classified", q.product, NoCapability)
    /\ request' = [request EXCEPT ![r] = Idle]
    /\ UNCHANGED <<product, reviewed, opportunities>>

\* Mutant: the missing row is not noticed, and its missing evidence neither.
ConfirmUnchecked(p, c) ==
    /\ link' = [link EXCEPT ![p][c].by = "analyst"]
    /\ reviewed' = reviewed \cup {link[p][c].ev}
    /\ Log("confirmed", p, c)
    /\ UNCHANGED <<product, claim, opportunities, request>>

\* Mutant: the confirmation is not logged.
ConfirmUnlogged(p, c) ==
    /\ link[p][c].by # "none"
    /\ link' = [link EXCEPT ![p][c].by = "analyst"]
    /\ reviewed' = reviewed \cup ({link[p][c].ev} \ {NoEvidence})
    /\ UNCHANGED <<product, claim, opportunities, audit, request>>

\* One UPDATE ... RETURNING evidence_id, then the evidence row it points at
Confirm(p, c) ==
    /\ link[p][c].by # "none"
    /\ link' = [link EXCEPT ![p][c].by = "analyst"]
    /\ reviewed' = reviewed \cup ({link[p][c].ev} \ {NoEvidence})
    /\ Log("confirmed", p, c)
    /\ UNCHANGED <<product, claim, opportunities, request>>

Reject(p, c) ==
    /\ link[p][c].by # "none"
    /\ link' = [link EXCEPT ![p][c] = NoRow]
    /\ Log("rejected", p, c)
    /\ UNCHANGED <<product, claim, reviewed, opportunities, request>>

MatchRead(r, p) ==
    /\ request[r] = Idle
    /\ product[p] = "live"
    /\ request' = [request EXCEPT ![r] =
           [op |-> "match", product |-> p, candidates |-> {}, confirmed |-> Confirmed(p)]]
    /\ UNCHANGED <<product, link, claim, reviewed, opportunities, audit>>

\* Mutant: without confirmed capabilities the run goes on.
MatchCommitUngated(r, found) ==
    LET q == request[r] IN
    /\ q.op = "match"
    /\ found # {} => product[q.product] = "live"
    /\ opportunities' = [opportunities EXCEPT ![q.product] = @ \cup found]
    /\ Log("matched", q.product, NoCapability)
    /\ request' = [request EXCEPT ![r] = Idle]
    /\ UNCHANGED <<product, link, claim, reviewed>>

\* Which programmes score high enough depends on tenders and taxonomy, but
\* the loop runs over the confirmed capabilities read above and no others.
MatchCommit(r, found) ==
    LET q == request[r] IN
    /\ q.op = "match"
    /\ q.confirmed = {} => found = {}
    /\ found # {} => product[q.product] = "live"
    /\ opportunities' = [opportunities EXCEPT ![q.product] = @ \cup found]
    /\ Log("matched", q.product, NoCapability)
    /\ request' = [request EXCEPT ![r] = Idle]
    /\ UNCHANGED <<product, link, claim, reviewed>>

\* A request that ends without its commit: a violated foreign key (the
\* product is gone), a lost connection, the end of the process.
Rollback(r) ==
    /\ request[r] # Idle
    /\ request' = [request EXCEPT ![r] = Idle]
    /\ UNCHANGED <<product, link, claim, reviewed, opportunities, audit>>

ReviewNext ==
    \/ \E p \in Products : CreateProduct(p) \/ DeleteProduct(p)
    \/ \E p \in Products, c \in Capabilities : Confirm(p, c) \/ Reject(p, c)
    \/ \E r \in Requests, p \in Products, candidates \in SUBSET Capabilities :
           ClassifyRead(r, p, candidates)
    \/ \E r \in Requests, p \in Products : MatchRead(r, p)
    \/ \E r \in Requests, found \in SUBSET Programmes : MatchCommit(r, found)
    \/ \E r \in Requests : ClassifyCommit(r) \/ Rollback(r)

ReviewSpec == ReviewInit /\ [][ReviewNext]_reviewVars

-----------------------------------------------------------------------------
ReviewTypeOK ==
    /\ product \in [Products -> {"absent", "live", "deleted"}]
    /\ link \in [Products -> [Capabilities -> Row]]
    /\ claim \in [Evidence -> Products \cup {NoProduct}]
    /\ reviewed \subseteq Evidence
    /\ opportunities \in [Products -> SUBSET Programmes]
    /\ audit \subseteq Event
    /\ request \in [Requests -> Request]
    /\ \A r \in Requests : Cardinality(request[r].candidates) <= MaxSuggestions

Vetted(p) == {c \in Capabilities :
    [event |-> "confirmed", product |-> p, capability |-> c] \in audit}

\* A row that is shown as an analyst's carries evidence a person reviewed and
\* a logged confirmation; a row that is shown as a suggestion carries evidence
\* nobody reviewed.  Evidence is replaced by classify and marked by confirm,
\* in any order (main.py 2654-2704, 2711-2742).
ReviewedIffConfirmed ==
    \A p \in Products, c \in Capabilities :
        /\ link[p][c].by = "analyst" =>
               /\ link[p][c].ev \in reviewed
               /\ c \in Vetted(p)
        /\ link[p][c].by = "ai_suggested" =>
               /\ link[p][c].ev \in Evidence
               /\ link[p][c].ev \notin reviewed

\* Two rows never share evidence, a row's evidence was written for its own
\* product, and no one reviewed evidence before it was written: confirming one
\* suggestion must not mark another one as reviewed (main.py 2672-2704).
EvidencePerRow ==
    /\ \A e \in reviewed : claim[e] # NoProduct
    /\ \A p, q \in Products, c, d \in Capabilities :
        /\ link[p][c].by # "none" => claim[link[p][c].ev] = p
        /\ link[p][c].by # "none" /\ (p # q \/ c # d) /\ link[q][d].by # "none" =>
               link[p][c].ev # link[q][d].ev

\* Nothing derived from a product outlives it: a classify or match request
\* that read the product before it was deleted leaves no row behind
\* (delete_product and migration 011).
CascadeComplete ==
    \A p \in Products : product[p] # "live" =>
        /\ opportunities[p] = {}
        /\ \A c \in Capabilities : link[p][c].by = "none"

\* An opportunity exists only for a product of which a person confirmed some
\* capability: no sequence of suggestions, however stale the match request's
\* reading, fills the pipeline (main.py 2612-2624, programme_matching 47-57).
OpportunityNeedsReview ==
    \A p \in Products : opportunities[p] # {} => Vetted(p) # {}

\* What a request has read as confirmed was confirmed by a person, however much
\* has been rejected or deleted since it read.
SnapshotVetted ==
    \A r \in Requests : request[r] # Idle =>
        request[r].confirmed \subseteq Vetted(request[r].product)

ReviewInv ==
    /\ ReviewTypeOK
    /\ ReviewedIffConfirmed
    /\ EvidencePerRow
    /\ CascadeComplete
    /\ SnapshotVetted
    /\ OpportunityNeedsReview

\* main.py 2659-2660: "Confirming is a deliberate human step; a re-run of an
\* automated classifier must never undo it."
RerunNeverUnconfirms ==
    [][\A p \in Products, c \in Capabilities :
         link[p][c].by = "analyst" => link'[p][c].by # "ai_suggested"]_reviewVars

\* The module implements the gate: the vetted capabilities are the logged
\* confirmations (main.py 2612-2624).
Gate == INSTANCE ReviewGate WITH vetted <- [p \in Products |-> Vetted(p)]
GateSpec == Gate!GateSpec
=============================================================================
