------------------------------ MODULE Matching ------------------------------
(***************************************************************************)
(* One product against the ingested programmes                             *)
(* (app/programme_matching.py, app/matching_scoring.py, app/scoring.py),   *)
(* the opportunities POST /products/{id}/match-programmes stores, and the  *)
(* public preview.  Between two matches programmes arrive and change,      *)
(* capabilities are confirmed and withdrawn, and keywords of the taxonomy  *)
(* are added and removed.  An approved code suggestion may map any code,   *)
(* also a sentinel.                                                        *)
(***************************************************************************)
EXTENDS CapabilityResolver

CONSTANTS
    Programmes,
    Codes,          \* the codes programmes carry
    Sentinels,      \* ORGANISATION_SENTINEL_CODES: the buyer stands for a code
    Keywords,
    About,          \* About[k]: the capability keyword k belongs to
    Weight,         \* Weight[k]: its weight
    Long,           \* keywords of five or more characters, or several words
    Standalone,     \* keywords that are evidence without any code
    KeywordOnly     \* KEYWORD_ONLY_MATCHING

ASSUME MatchingAssumptions ==
    /\ Codes \subseteq Seq(Nat) /\ Sentinels \subseteq Codes
    /\ IsFiniteSet(Keywords)
    /\ About \in [Keywords -> Capabilities] /\ Weight \in [Keywords -> Nat]
    /\ Long \subseteq Keywords /\ Standalone \subseteq Keywords /\ KeywordOnly \in BOOLEAN

VARIABLES
    programme,  \* programme[p]: its code and the keywords its title contains
    confirmed,  \* capabilities an analyst has confirmed for the product
    taxonomy,   \* keywords in capability_taxonomy_keywords
    stored      \* stored[p]: the opportunity of the product and p

matchingVars == <<programme, confirmed, taxonomy, stored>>

-----------------------------------------------------------------------------
MinimumScore == 2                       \* MINIMUM_SCORE_TO_SUGGEST
MaxScore == 100
CategoryBonus == 3                      \* CATEGORY_MATCH_BONUS

NotIngested == [there |-> FALSE, code |-> <<>>, title |-> {}]
Ingested == [there : {TRUE}, code : Codes \cup {<<>>}, title : SUBSET Keywords]
NoOpportunity == [basis |-> "none", confidence |-> "low", score |-> 0]
Stored == [basis : {"code", "keyword"}, confidence : {"low", "medium", "high"},
           score : MinimumScore..MaxScore]

Confidence(score) == IF score >= 6 THEN "high" ELSE IF score >= 3 THEN "medium" ELSE "low"

\* score_text: the keywords of c in the title, and the sum of their weights
MatchedKeywords(c, title) == {k \in taxonomy : About[k] = c /\ k \in title}
KeywordScore(c, title) == MapThenSumSet(LAMBDA k : Weight[k], MatchedKeywords(c, title))

\* Mutant: a shared category counts like a keyword.
CombineUngated(category, keywordScore) ==
    LET total == keywordScore + (IF category THEN CategoryBonus ELSE 0)
        capped == IF total > MaxScore THEN MaxScore ELSE total
    IN [score |-> capped, confidence |-> Confidence(capped)]

\* combine_score: without a keyword a shared category is "low".
CombineScore(category, keywordScore) ==
    LET total == keywordScore + (IF category THEN CategoryBonus ELSE 0)
        capped == IF total > MaxScore THEN MaxScore ELSE total
    IN [score |-> capped, confidence |-> IF keywordScore = 0 THEN "low" ELSE Confidence(capped)]

\* Mutant: a prefix is compared like a code.
IsCandidateByEquality(c, p) ==
    /\ programme[p].there
    /\ \/ programme[p].code \in Sentinels
       \/ <<programme[p].code, c>> \in ExactCodes \cup CodePrefixes

\* _load_candidate_programmes: any prefix, not only the longest
IsCandidate(c, p) ==
    /\ programme[p].there
    /\ \/ programme[p].code \in Sentinels
       \/ <<programme[p].code, c>> \in ExactCodes
       \/ \E m \in CodePrefixes : m[2] = c /\ IsPrefix(m[1], programme[p].code)

Hit(basis, score, confidence) == [basis |-> basis, score |-> score, confidence |-> confidence]
Suggestible(matches) == {m \in matches : m.score >= MinimumScore}

\* The code loop of match_product_to_programmes.  A sentinel counts as a
\* category like any code, but needs a keyword that is not a short acronym.
CodeMatches(p) ==
    LET title == programme[p].title
        found(c) == CombineScore(TRUE, KeywordScore(c, title))
        reached == {c \in confirmed :
                      /\ IsCandidate(c, p)
                      /\ programme[p].code \in Sentinels => MatchedKeywords(c, title) \cap Long # {}}
    IN Suggestible({Hit("code", found(c).score, found(c).confidence) : c \in reached})

\* The keyword loop: no code of c, a standalone keyword, never "high"
KeywordMatches(p) ==
    LET title == programme[p].title
        found(c) == CombineScore(FALSE, KeywordScore(c, title))
        named == {c \in confirmed :
                    /\ KeywordOnly /\ programme[p].there /\ ~IsCandidate(c, p)
                    /\ MatchedKeywords(c, title) \cap Standalone # {}}
    IN Suggestible({Hit("keyword", found(c).score,
                          IF found(c).confidence = "high" THEN "medium" ELSE found(c).confidence)
                    : c \in named})

\* What the upserts leave: all matches are written in descending order of
\* their score, so that of several code matches (one per capability) the
\* LOWEST is kept; of the keyword matches only the best is in the list, and
\* only for a programme without a code match.
Upserted(p) ==
    IF CodeMatches(p) # {}
    THEN {m \in CodeMatches(p) : \A n \in CodeMatches(p) : m.score <= n.score}
    ELSE {m \in KeywordMatches(p) : \A n \in KeywordMatches(p) : m.score >= n.score}

-----------------------------------------------------------------------------
MatchingInit ==
    /\ programme = [p \in Programmes |-> NotIngested]
    /\ confirmed = {} /\ taxonomy = {}
    /\ stored = [p \in Programmes |-> NoOpportunity]

\* The upsert of an ingestion run: a later notice of a tender replaces its name,
\* and for most sources its code; all rows of a source without codes have its
\* sentinel.
Ingest(p) ==
    /\ \E r \in Ingested :
          /\ programme[p].there /\ {programme[p].code, r.code} \cap Sentinels # {}
                => r.code = programme[p].code
          /\ programme' = [programme EXCEPT ![p] = r]
    /\ UNCHANGED <<confirmed, taxonomy, stored>>

Confirm(c) == confirmed' = confirmed \cup {c} /\ UNCHANGED <<programme, taxonomy, stored>>
Withdraw(c) == confirmed' = confirmed \ {c} /\ UNCHANGED <<programme, taxonomy, stored>>
Learn(k) == taxonomy' = taxonomy \cup {k} /\ UNCHANGED <<programme, confirmed, stored>>
\* An admin removes a keyword, or a rejection retracts a learned one.
Unlearn(k) == taxonomy' = taxonomy \ {k} /\ UNCHANGED <<programme, confirmed, stored>>

\* One transaction; a programme that no longer matches keeps its row.
MatchProduct ==
    /\ \E new \in [Programmes -> UNION {{stored[p]} \cup Upserted(p) : p \in Programmes}] :
          /\ \A p \in Programmes :
                IF Upserted(p) = {} THEN new[p] = stored[p] ELSE new[p] \in Upserted(p)
          /\ stored' = new
    /\ UNCHANGED <<programme, confirmed, taxonomy>>

MatchingNext ==
    \/ \E p \in Programmes : Ingest(p)
    \/ \E c \in Capabilities : Confirm(c) \/ Withdraw(c)
    \/ \E k \in Keywords : Learn(k) \/ Unlearn(k)
    \/ MatchProduct

MatchingSpec == MatchingInit /\ [][MatchingNext]_matchingVars

-----------------------------------------------------------------------------
\* preview_match_for_text: the (at most three) capabilities a text is about,
\* and the programmes of their codes; a sentinel would credit them all.
PreviewCapabilities(text) ==
    LET scoring == {c \in Capabilities : KeywordScore(c, text) >= MinimumScore}
    IN {top \in SUBSET scoring :
          /\ Cardinality(top) = IF Cardinality(scoring) < 3 THEN Cardinality(scoring) ELSE 3
          /\ \A c \in top, d \in scoring \ top : KeywordScore(c, text) >= KeywordScore(d, text)}
\* Mutant: the sentinels are left in.
PreviewWithSentinels(top) == {p \in Programmes : \E c \in top : IsCandidate(c, p)}
PreviewProgrammes(top) ==
    {p \in Programmes : programme[p].code \notin Sentinels /\ \E c \in top : IsCandidate(c, p)}

-----------------------------------------------------------------------------
MatchingTypeOK ==
    /\ programme \in [Programmes -> Ingested \cup {NotIngested}]
    /\ confirmed \in SUBSET Capabilities
    /\ taxonomy \in SUBSET Keywords
    /\ stored \in [Programmes -> Stored \cup {NoOpportunity}]

\* Keywords in force that name a confirmed capability in the tender's own words
Corroborates(words, p) ==
    \E k \in words \cap programme[p].title : k \in taxonomy /\ About[k] \in confirmed

\* What a match writes is as good as the words it rests on: better than "low"
\* only with a keyword, a tender of a sentinel buyer only with one that is not
\* a short acronym, one without a code only with a standalone keyword and never
\* as "high"; of several matches of a tender, whichever is written last
\* (matching_scoring.py 42-50, programme_matching.py 246-282 and 320-375).
MatchedIsCorroborated ==
    [][\A p \in Programmes :
          MatchProduct /\ Upserted(p) # {} =>
          /\ stored'[p].confidence # "low" => Corroborates(Keywords, p)
          /\ stored'[p].basis = "code" /\ programme[p].code \in Sentinels => Corroborates(Long, p)
          /\ stored'[p].basis = "keyword" =>
                stored'[p].confidence # "high" /\ Corroborates(Standalone, p)]_matchingVars

\* product_intel_report.py 218: "A code-only match with no keyword corroboration
\* can never be rated better than low", of the opportunities the report lists.
\* That would have to hold of every opportunity by code of a product that is
\* matched as its tenders and keywords now are (another match would leave each
\* as it is), with any keyword in force that the tender's title has.
RematchedIsCorroborated ==
    (\A p \in Programmes : Upserted(p) \subseteq {stored[p]}) =>
        \A p \in Programmes :
            stored[p].basis = "code" =>
                stored[p].confidence = "low" \/ taxonomy \cap programme[p].title # {}

\* The two readings of the mappings agree where it matters: a programme the
\* reports file under a confirmed capability (capability_resolver.py) is an
\* opportunity after the match of the product (programme_matching.py).  A
\* sentinel that a mapping holds is the exception: the reports resolve it, and
\* the match asks for a keyword all the same.
ResolvedIsMatched ==
    [][\A p \in Programmes :
          /\ MatchProduct /\ programme[p].code \notin Sentinels
          /\ ResolveCapabilities(programme[p].code) \cap confirmed # {}
          => stored'[p].basis = "code"]_matchingVars

\* The public count promises no more than an account gets: what it counts for
\* a text is matched by a product with the capabilities it names.  Keywords
\* that are not in the taxonomy make no difference to a text.
PreviewIsMatched ==
    \A text \in SUBSET taxonomy : \A top \in PreviewCapabilities(text) :
        top \subseteq confirmed => \A p \in PreviewProgrammes(top) : CodeMatches(p) # {}
=============================================================================
