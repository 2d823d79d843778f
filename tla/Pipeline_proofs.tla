-------------------------- MODULE Pipeline_proofs --------------------------
(***************************************************************************)
(* Theorems about the way from a tender to the pipeline:                   *)
(* Matching, NewOpportunities and Opportunity.                             *)
(***************************************************************************)
EXTENDS Matching, NewOpportunities, Opportunity,
        FiniteSetTheorems, WellFoundedInduction, TLAPS

-----------------------------------------------------------------------------
(***************************************************************************)
(* Matching, for any mappings, keywords and weights                        *)
(***************************************************************************)

-----------------------------------------------------------------------------
Pick(s) == CHOOSE k \in s : TRUE
SumStep(f, s) == IF s = {} THEN 0 ELSE Weight[Pick(s)] + f[s \ {Pick(s)}]

\* The recursive function MapThenSumSet evaluates at S: a solution of its equation.
Solves(f, S) == f = [s \in SUBSET S |-> SumStep(f, s)]

LEMMA SumIsTheSolution ==
    ASSUME NEW S
    PROVE  MapThenSumSet(LAMBDA k : Weight[k], S) = (CHOOSE f : Solves(f, S))[S]
  BY DEF MapThenSumSet, MapThenFoldSet, Solves, SumStep, Pick

\* A non-empty set of numbers has a least one.
LEMMA HasLeast ==
    ASSUME NEW D \in SUBSET Nat, D # {}
    PROVE  \E d \in D : \A y \in D : d <= y
  <1> DEFINE R == OpToRel(<, Nat)
  <1>1. IsWellFoundedOn(R, Nat)
    BY NatLessThanWellFounded
  <1>2. PICK d \in D : \A y \in D : ~(<<y, d>> \in R)
    <2> HIDE DEF R
    <2> QED
      BY <1>1, WFMin
  <1>3. \A y \in D : ~(y < d)
    BY <1>2 DEF OpToRel
  <1> QED
    BY <1>3

LEMMA PickIsIn == \A s : s # {} => Pick(s) \in s
  BY DEF Pick

\* The equation has a solution at every finite set: one that holds for the
\* subsets of n elements extends to those of n + 1.
LEMMA SumIsDefined ==
    ASSUME NEW S, IsFiniteSet(S)
    PROVE  \E f : Solves(f, S)
  <1> DEFINE HoldsTo(f, n) ==
                 \A s \in SUBSET S : Cardinality(s) <= n => f[s] = SumStep(f, s)
             D == {n \in Nat : ~ \E f : f = [s \in SUBSET S |-> f[s]] /\ HoldsTo(f, n)}
  <1>1. \A s \in SUBSET S : IsFiniteSet(s) /\ Cardinality(s) \in Nat /\ Cardinality(s) <= Cardinality(S)
    BY FS_Subset, FS_CardinalityType
  <1>2. \A s \in SUBSET S : s # {} => /\ Cardinality(s) # 0
                                      /\ s \ {Pick(s)} \in SUBSET S
                                      /\ Cardinality(s \ {Pick(s)}) = Cardinality(s) - 1
    BY <1>1, PickIsIn, FS_RemoveElement, FS_EmptySet
  <1>3. ASSUME D # {} PROVE FALSE
    <2>1. PICK n \in D : \A y \in D : n <= y
      BY <1>3, HasLeast
    <2>2. n \in Nat /\ ~ \E f : f = [s \in SUBSET S |-> f[s]] /\ HoldsTo(f, n)
      BY <2>1
    <2>3. CASE n = 0
      <3> DEFINE z == [s \in SUBSET S |-> 0]
      <3>1. z = [s \in SUBSET S |-> z[s]]
        OBVIOUS
      <3>2. HoldsTo(z, n)
        <4> SUFFICES ASSUME NEW s \in SUBSET S, Cardinality(s) <= 0 PROVE z[s] = SumStep(z, s)
          BY <2>3
        <4>0. Cardinality(s) \in Nat /\ (s # {} => Cardinality(s) # 0)
          BY <1>1, <1>2
        <4>1. s = {}
          BY <4>0
        <4> QED
          BY <4>1 DEF SumStep
      <3> QED
        BY <2>2, <3>1, <3>2
    <2>4. CASE n # 0
      <3>0. n - 1 \in Nat /\ ~(n <= n - 1)
        BY <2>2, <2>4
      <3> HIDE DEF D
      <3>1. n - 1 \in Nat /\ n - 1 \notin D
        BY <2>1, <3>0
      <3> USE DEF D
      <3>2. PICK f : f = [s \in SUBSET S |-> f[s]] /\ HoldsTo(f, n - 1)
        BY <3>1
      <3> DEFINE g == [s \in SUBSET S |-> SumStep(f, s)]
      <3>3. \A s \in SUBSET S : Cardinality(s) <= n - 1 => g[s] = f[s]
        BY <3>2
      <3>4. HoldsTo(g, n)
        <4> SUFFICES ASSUME NEW s \in SUBSET S, Cardinality(s) <= n PROVE g[s] = SumStep(g, s)
          OBVIOUS
        <4>1. g[s] = SumStep(f, s)
          OBVIOUS
        <4>2. CASE s = {}
          BY <4>1, <4>2 DEF SumStep
        <4>3. CASE s # {}
          <5>1. s \ {Pick(s)} \in SUBSET S /\ Cardinality(s \ {Pick(s)}) = Cardinality(s) - 1
            BY <1>2, <4>3
          <5>2. Cardinality(s \ {Pick(s)}) <= n - 1
            BY <1>1, <2>2, <5>1
          <5>3. g[s \ {Pick(s)}] = f[s \ {Pick(s)}]
            BY <3>3, <5>1, <5>2
          <5> HIDE DEF g
          <5> QED
            BY <4>1, <4>3, <5>3 DEF SumStep
        <4> QED
          BY <4>2, <4>3
      <3>5. g = [s \in SUBSET S |-> g[s]]
        OBVIOUS
      <3> HIDE DEF g
      <3> QED
        BY <2>2, <3>4, <3>5
    <2> QED
      BY <2>3, <2>4
  <1>4. Cardinality(S) \in Nat /\ Cardinality(S) \notin D
    BY <1>1, <1>3
  <1>5. PICK f : f = [s \in SUBSET S |-> f[s]] /\ HoldsTo(f, Cardinality(S))
    BY <1>4
  <1>6. \A s \in SUBSET S : f[s] = SumStep(f, s)
    BY <1>1, <1>5
  <1>7. f = [s \in SUBSET S |-> SumStep(f, s)]
    BY <1>5, <1>6
  <1> QED
    BY <1>7 DEF Solves

\* The weights of finitely many keywords add up to a number.
LEMMA SumIsNumber ==
    ASSUME NEW S, S \subseteq Keywords
    PROVE  MapThenSumSet(LAMBDA k : Weight[k], S) \in Nat
  <1> DEFINE f == CHOOSE g : Solves(g, S)
  <1>1. IsFiniteSet(S)
    BY MatchingAssumptions, FS_Subset
  <1>2. Solves(f, S)
    BY <1>1, SumIsDefined
  <1> HIDE DEF f
  <1>3. \A s \in SUBSET S : IsFiniteSet(s) /\ Cardinality(s) \in Nat
    BY <1>1, FS_Subset, FS_CardinalityType
  <1>4. \A s \in SUBSET S : f[s] = SumStep(f, s)
    BY <1>2 DEF Solves
  <1> DEFINE D == {n \in Nat : \E s \in SUBSET S : Cardinality(s) = n /\ f[s] \notin Nat}
  <1>5. ASSUME D # {} PROVE FALSE
    <2>1. PICK n \in D : \A y \in D : n <= y
      BY <1>5, HasLeast
    <2>2. PICK s \in SUBSET S : Cardinality(s) = n /\ f[s] \notin Nat
      BY <2>1
    <2>3. s # {}
      <3>1. f[s] = SumStep(f, s) /\ f[s] \notin Nat
        BY <1>4, <2>2
      <3>2. SumStep(f, {}) = 0
        BY DEF SumStep
      <3> QED
        BY <3>1, <3>2
    <2>4. /\ Pick(s) \in Keywords /\ s \ {Pick(s)} \in SUBSET S
          /\ Cardinality(s \ {Pick(s)}) = Cardinality(s) - 1
      BY <1>3, <2>3, PickIsIn, FS_RemoveElement
    <2>5. Weight[Pick(s)] \in Nat
      BY <2>4, MatchingAssumptions
    <2>6. f[s \ {Pick(s)}] \notin Nat
      <3>1. f[s] = Weight[Pick(s)] + f[s \ {Pick(s)}]
        BY <1>4, <2>3 DEF SumStep
      <3>2. \A a, b : a \in Nat /\ b \in Nat => a + b \in Nat
        OBVIOUS
      <3> QED
        BY <2>2, <2>5, <3>1, <3>2
    <2>7. Cardinality(s \ {Pick(s)}) \in D
      BY <1>3, <2>4, <2>6
    <2>8. n <= n - 1 /\ n \in Nat
      BY <2>1, <2>2, <2>4, <2>7
    <2> QED
      BY <2>8
  <1>6. f[S] \in Nat
    BY <1>3, <1>5
  <1> QED
    BY <1>6, SumIsTheSolution DEF f

\* Nothing adds up to nothing.
LEMMA SumOfNone == MapThenSumSet(LAMBDA k : Weight[k], {}) = 0
  <1> DEFINE f == CHOOSE g : Solves(g, {})
  <1>1. Solves(f, {})
    BY SumIsDefined, FS_EmptySet
  <1> HIDE DEF f
  <1>2. f[{}] = 0
    BY <1>1 DEF Solves, SumStep
  <1> QED
    BY <1>2, SumIsTheSolution DEF f

-----------------------------------------------------------------------------
\* combine_score: a percentage, at least the bonus with a shared category, and
\* "low" without a keyword.
LEMMA CombinedScore ==
    ASSUME NEW category \in BOOLEAN, NEW n \in Nat
    PROVE  /\ CombineScore(category, n).score \in 0..MaxScore
           /\ category => CombineScore(category, n).score >= MinimumScore
           /\ CombineScore(category, n).confidence \in {"low", "medium", "high"}
           /\ n = 0 => CombineScore(category, n).confidence = "low"
  <1> DEFINE total == n + (IF category THEN CategoryBonus ELSE 0)
             capped == IF total > MaxScore THEN MaxScore ELSE total
  <1>1. /\ CombineScore(category, n).score = capped
        /\ CombineScore(category, n).confidence = IF n = 0 THEN "low" ELSE Confidence(capped)
    BY DEF CombineScore
  <1>2. capped \in 0..MaxScore /\ (category => capped >= MinimumScore)
    BY DEF MaxScore, CategoryBonus, MinimumScore
  <1>3. Confidence(capped) \in {"low", "medium", "high"}
    BY DEF Confidence
  <1> HIDE DEF capped
  <1> QED
    BY <1>1, <1>2, <1>3

LEMMA KeywordScoreIsNumber ==
    ASSUME taxonomy \subseteq Keywords, NEW c, NEW title
    PROVE  /\ KeywordScore(c, title) \in Nat
           /\ MatchedKeywords(c, title) = {} => KeywordScore(c, title) = 0
  <1> DEFINE S == MatchedKeywords(c, title)
  <1>1. S \subseteq Keywords
    BY DEF MatchedKeywords
  <1> HIDE DEF S
  <1>2. MapThenSumSet(LAMBDA k : Weight[k], S) \in Nat
    BY <1>1, SumIsNumber
  <1>3. S = {} => MapThenSumSet(LAMBDA k : Weight[k], S) = 0
    BY SumOfNone
  <1> QED
    BY <1>2, <1>3 DEF S, KeywordScore

\* A matched keyword of a confirmed capability corroborates.
LEMMA MatchCorroborates ==
    ASSUME NEW p, NEW c \in confirmed, NEW words,
           MatchedKeywords(c, programme[p].title) \cap words # {}
    PROVE  Corroborates(words, p)
  BY DEF MatchedKeywords, Corroborates

LEMMA CodeMatch ==
    ASSUME MatchingTypeOK, NEW p \in Programmes, NEW m \in CodeMatches(p)
    PROVE  /\ m \in Stored /\ m.basis = "code"
           /\ m.confidence # "low" => Corroborates(Keywords, p)
           /\ programme[p].code \in Sentinels => Corroborates(Long, p)
  <1> DEFINE title == programme[p].title
             combined(c) == CombineScore(TRUE, KeywordScore(c, title))
  <1>1. PICK c \in confirmed :
          /\ IsCandidate(c, p)
          /\ programme[p].code \in Sentinels => MatchedKeywords(c, title) \cap Long # {}
          /\ m = Hit("code", combined(c).score, combined(c).confidence) /\ m.score >= MinimumScore
    BY DEF CodeMatches, Suggestible
  <1>2. c \in Capabilities /\ taxonomy \subseteq Keywords
    BY <1>1 DEF MatchingTypeOK
  <1>3. KeywordScore(c, title) \in Nat /\ (MatchedKeywords(c, title) = {} => KeywordScore(c, title) = 0)
    BY <1>2, KeywordScoreIsNumber
  <1>4. /\ combined(c).score \in 0..MaxScore /\ combined(c).confidence \in {"low", "medium", "high"}
        /\ KeywordScore(c, title) = 0 => combined(c).confidence = "low"
    BY <1>3, CombinedScore
  <1>5. m.basis = "code" /\ m.score = combined(c).score /\ m.confidence = combined(c).confidence
        /\ m = [basis |-> "code", score |-> m.score, confidence |-> m.confidence]
    BY <1>1 DEF Hit
  <1> HIDE DEF combined
  <1>7. m.score \in MinimumScore..MaxScore
    BY <1>1, <1>4, <1>5 DEF MinimumScore, MaxScore
  <1>8. m \in Stored
    BY <1>4, <1>5, <1>7 DEF Stored
  <1>9. m.confidence # "low" => Corroborates(Keywords, p)
    <2> SUFFICES ASSUME m.confidence # "low" PROVE Corroborates(Keywords, p)
      OBVIOUS
    <2>1. MatchedKeywords(c, title) # {}
      BY <1>3, <1>4, <1>5
    <2>2. MatchedKeywords(c, title) \subseteq Keywords
      BY <1>2 DEF MatchedKeywords
    <2>3. MatchedKeywords(c, title) \cap Keywords # {}
      BY <2>1, <2>2
    <2> QED
      BY <1>1, <2>3, MatchCorroborates
  <1>10. programme[p].code \in Sentinels => Corroborates(Long, p)
    BY <1>1, MatchCorroborates
  <1> QED
    BY <1>5, <1>8, <1>9, <1>10

LEMMA KeywordMatch ==
    ASSUME MatchingTypeOK, NEW p \in Programmes, NEW m \in KeywordMatches(p)
    PROVE  /\ m \in Stored /\ m.basis = "keyword" /\ m.confidence # "high"
           /\ Corroborates(Keywords, p) /\ Corroborates(Standalone, p)
  <1> DEFINE title == programme[p].title
             combined(c) == CombineScore(FALSE, KeywordScore(c, title))
             shown(c) == IF combined(c).confidence = "high" THEN "medium" ELSE combined(c).confidence
  <1>1. PICK c \in confirmed :
          /\ MatchedKeywords(c, title) \cap Standalone # {}
          /\ m = Hit("keyword", combined(c).score, shown(c)) /\ m.score >= MinimumScore
    BY DEF KeywordMatches, Suggestible
  <1>2. c \in Capabilities /\ taxonomy \subseteq Keywords
    BY <1>1 DEF MatchingTypeOK
  <1>3. KeywordScore(c, title) \in Nat
    BY <1>2, KeywordScoreIsNumber
  <1>4. combined(c).score \in 0..MaxScore /\ combined(c).confidence \in {"low", "medium", "high"}
    BY <1>3, CombinedScore
  <1>5. m.basis = "keyword" /\ m.score = combined(c).score /\ m.confidence = shown(c)
        /\ m = [basis |-> "keyword", score |-> m.score, confidence |-> m.confidence]
    BY <1>1 DEF Hit
  <1>6. shown(c) \in {"low", "medium", "high"} /\ shown(c) # "high"
    BY <1>4
  <1> HIDE DEF combined, shown
  <1>7. m.score \in MinimumScore..MaxScore
    BY <1>1, <1>4, <1>5 DEF MinimumScore, MaxScore
  <1>8. m \in Stored
    BY <1>5, <1>6, <1>7 DEF Stored
  <1>9. Corroborates(Standalone, p)
    BY <1>1, MatchCorroborates
  <1>10. Corroborates(Keywords, p)
    BY <1>9, MatchingAssumptions DEF Corroborates
  <1> QED
    BY <1>5, <1>6, <1>8, <1>9, <1>10

LEMMA UpsertedAreMatches ==
    \A p \in Programmes : Upserted(p) \subseteq CodeMatches(p) \cup KeywordMatches(p)
  BY DEF Upserted

LEMMA MatchKeepsType ==
    ASSUME MatchingTypeOK, MatchProduct
    PROVE  MatchingTypeOK'
  <1>1. UNCHANGED <<programme, confirmed, taxonomy>>
    BY DEF MatchProduct
  <1>2. PICK new \in [Programmes -> UNION {{stored[p]} \cup Upserted(p) : p \in Programmes}] :
          /\ \A p \in Programmes :
                IF Upserted(p) = {} THEN new[p] = stored[p] ELSE new[p] \in Upserted(p)
          /\ stored' = new
    BY DEF MatchProduct
  <1>3. \A p \in Programmes : stored'[p] = stored[p]
                              \/ stored'[p] \in CodeMatches(p) \cup KeywordMatches(p)
    BY <1>2, UpsertedAreMatches
  <1>4. \A p \in Programmes : stored'[p] \in Stored \cup {NoOpportunity}
    BY <1>3, CodeMatch, KeywordMatch DEF MatchingTypeOK
  <1>5. stored' = [p \in Programmes |-> stored'[p]]
    BY <1>2
  <1>6. stored' \in [Programmes -> Stored \cup {NoOpportunity}]
    BY <1>4, <1>5
  <1> QED
    BY <1>1, <1>6 DEF MatchingTypeOK

LEMMA MatchingStep ==
    ASSUME MatchingTypeOK, [MatchingNext]_matchingVars
    PROVE  MatchingTypeOK'
  <1>1. ASSUME NEW p \in Programmes, Ingest(p) PROVE MatchingTypeOK'
    <2>1. PICK r \in Ingested : programme' = [programme EXCEPT ![p] = r]
      BY <1>1 DEF Ingest
    <2> QED
      BY <1>1, <2>1 DEF Ingest, MatchingTypeOK
  <1>2. ASSUME NEW c \in Capabilities, Confirm(c) \/ Withdraw(c) PROVE MatchingTypeOK'
    BY <1>2 DEF Confirm, Withdraw, MatchingTypeOK
  <1>3. ASSUME NEW k \in Keywords, Learn(k) \/ Unlearn(k) PROVE MatchingTypeOK'
    BY <1>3 DEF Learn, Unlearn, MatchingTypeOK
  <1>4. CASE UNCHANGED matchingVars
    BY <1>4 DEF matchingVars, MatchingTypeOK
  <1> QED
    BY <1>1, <1>2, <1>3, <1>4, MatchKeepsType DEF MatchingNext

-----------------------------------------------------------------------------
\* Programmes, confirmed capabilities, the taxonomy and the opportunities keep
\* their types: a stored score is between the minimum and 100.
THEOREM MatchingTypeCorrect == MatchingSpec => []MatchingTypeOK
  <1>1. MatchingInit => MatchingTypeOK
    BY DEF MatchingInit, MatchingTypeOK
  <1> QED
    BY <1>1, MatchingStep, PTL DEF MatchingSpec

\* What a match writes rests on words of the tender, for every mapping (also of
\* a sentinel), every taxonomy and all weights, whatever the row was before.
THEOREM HighNeedsWords == MatchingSpec => MatchedIsCorroborated
  <1> DEFINE Words ==
                \A p \in Programmes :
                   MatchProduct /\ Upserted(p) # {} =>
                   /\ stored'[p].confidence # "low" => Corroborates(Keywords, p)
                   /\ stored'[p].basis = "code" /\ programme[p].code \in Sentinels =>
                         Corroborates(Long, p)
                   /\ stored'[p].basis = "keyword" =>
                         stored'[p].confidence # "high" /\ Corroborates(Standalone, p)
  <1>1. ASSUME MatchingTypeOK PROVE Words
    <2> SUFFICES ASSUME NEW p \in Programmes, MatchProduct, Upserted(p) # {}
                 PROVE  /\ stored'[p].confidence # "low" => Corroborates(Keywords, p)
                        /\ stored'[p].basis = "code" /\ programme[p].code \in Sentinels =>
                              Corroborates(Long, p)
                        /\ stored'[p].basis = "keyword" =>
                              stored'[p].confidence # "high" /\ Corroborates(Standalone, p)
      OBVIOUS
    <2>1. stored'[p] \in Upserted(p)
      BY DEF MatchProduct
    <2>2. CASE stored'[p] \in CodeMatches(p)
      BY <1>1, <2>2, CodeMatch
    <2>3. CASE stored'[p] \in KeywordMatches(p)
      BY <1>1, <2>3, KeywordMatch
    <2> QED
      BY <2>1, <2>2, <2>3, UpsertedAreMatches
  <1>2. ASSUME MatchingTypeOK, [MatchingNext]_matchingVars PROVE [Words]_matchingVars
    BY <1>1, <1>2
  <1> QED
    BY <1>2, MatchingTypeCorrect, PTL DEF MatchingSpec, MatchedIsCorroborated

\* A capability that is a candidate by code, and not of a sentinel, is a match.
LEMMA CandidateIsMatched ==
    ASSUME MatchingTypeOK, NEW p \in Programmes, NEW c \in confirmed,
           IsCandidate(c, p), programme[p].code \notin Sentinels
    PROVE  CodeMatches(p) # {}
  <1> DEFINE combined == CombineScore(TRUE, KeywordScore(c, programme[p].title))
             m == Hit("code", combined.score, combined.confidence)
  <1>1. KeywordScore(c, programme[p].title) \in Nat
    BY KeywordScoreIsNumber DEF MatchingTypeOK
  <1>2. combined.score >= MinimumScore
    BY <1>1, CombinedScore
  <1>3. m.score = combined.score
    BY DEF Hit
  <1>4. m \in CodeMatches(p)
    BY <1>2, <1>3 DEF CodeMatches, Suggestible
  <1> QED
    BY <1>4

\* The preview promises no more than a match of a product of an account finds,
\* for every text and every choice among equally good capabilities.
THEOREM PreviewKeepsItsPromise == MatchingSpec => []PreviewIsMatched
  <1>1. MatchingTypeOK => PreviewIsMatched
    <2> SUFFICES ASSUME MatchingTypeOK,
                        NEW text \in SUBSET taxonomy, NEW top \in PreviewCapabilities(text),
                        top \subseteq confirmed, NEW p \in PreviewProgrammes(top)
                 PROVE  CodeMatches(p) # {}
      BY DEF PreviewIsMatched
    <2>1. PICK c \in top : IsCandidate(c, p)
      BY DEF PreviewProgrammes
    <2>2. p \in Programmes /\ programme[p].code \notin Sentinels
      BY DEF PreviewProgrammes
    <2> QED
      BY <2>1, <2>2, CandidateIsMatched
  <1> QED
    BY <1>1, MatchingTypeCorrect, PTL

\* A mapping that resolves a code makes its capability a candidate; a missing
\* code resolves to nothing.
LEMMA ResolvedIsCandidate ==
    ASSUME MatchingTypeOK, NEW p \in Programmes,
           NEW c \in ResolveCapabilities(programme[p].code)
    PROVE  IsCandidate(c, p)
  <1> DEFINE code == programme[p].code
  <1>1. <<code, c>> \in ExactCodes \/ \E m \in CodePrefixes : m[2] = c /\ IsPrefix(m[1], code)
    BY DEF ResolveCapabilities
  <1>2. ASSUME code = <<>> PROVE FALSE
    <2>1. <<code, c>> \notin ExactCodes
      <3>1. <<code, c>>[1] = <<>>
        BY <1>2
      <3> QED
        BY <3>1, MappingAssumptions
    <2>2. PICK m \in CodePrefixes : IsPrefix(m[1], code)
      BY <1>1, <2>1
    <2>3. m[1] \in Seq(Nat) /\ m[1] # <<>>
      BY MappingAssumptions
    <2>4. Len(m[1]) <= Len(code)
      BY <2>2 DEF IsPrefix
    <2>5. Len(code) = 0
      BY <1>2
    <2> QED
      BY <2>3, <2>4, <2>5
  <1>3. programme[p].there
    <2>1. programme[p] \in Ingested \/ programme[p] = NotIngested
      BY DEF MatchingTypeOK
    <2>2. programme[p] # NotIngested
      BY <1>2 DEF NotIngested
    <2> QED
      BY <2>1, <2>2 DEF Ingested
  <1> QED
    BY <1>1, <1>3 DEF IsCandidate

\* Of the code matches of a programme one has the lowest score.
LEMMA LowestMatch ==
    ASSUME MatchingTypeOK, NEW p \in Programmes, CodeMatches(p) # {}
    PROVE  \E m \in CodeMatches(p) : \A n \in CodeMatches(p) : m.score <= n.score
  <1> DEFINE D == {m.score : m \in CodeMatches(p)}
  <1>1. \A m \in CodeMatches(p) : m.score \in Nat
    <2> TAKE m \in CodeMatches(p)
    <2>1. m \in Stored
      BY CodeMatch
    <2> QED
      BY <2>1 DEF Stored, MinimumScore, MaxScore
  <1>2. D \in SUBSET Nat /\ D # {}
    BY <1>1
  <1>3. PICK d \in D : \A y \in D : d <= y
    <2> HIDE DEF D
    <2> QED
      BY <1>2, HasLeast
  <1> QED
    BY <1>3

\* What the reports file under a confirmed capability is an opportunity after
\* the match, for every mapping by code and by prefix, unless the code is one
\* that stands for a buyer.
THEOREM ResolvedAreMatched == MatchingSpec => ResolvedIsMatched
  <1> DEFINE Matches ==
                \A p \in Programmes :
                   /\ MatchProduct /\ programme[p].code \notin Sentinels
                   /\ ResolveCapabilities(programme[p].code) \cap confirmed # {}
                   => stored'[p].basis = "code"
  <1>1. ASSUME MatchingTypeOK, [MatchingNext]_matchingVars PROVE Matches
    <2> SUFFICES ASSUME NEW p \in Programmes, MatchProduct,
                        programme[p].code \notin Sentinels,
                        ResolveCapabilities(programme[p].code) \cap confirmed # {}
                 PROVE  stored'[p].basis = "code"
      OBVIOUS
    <2>1. PICK c \in confirmed : c \in ResolveCapabilities(programme[p].code)
      OBVIOUS
    <2>2. CodeMatches(p) # {}
      BY <1>1, <2>1, ResolvedIsCandidate, CandidateIsMatched
    <2>3. Upserted(p) # {} /\ Upserted(p) \subseteq CodeMatches(p)
      BY <1>1, <2>2, LowestMatch DEF Upserted
    <2>4. stored'[p] \in Upserted(p)
      BY <2>3 DEF MatchProduct
    <2> QED
      BY <1>1, <2>3, <2>4, CodeMatch
  <1>2. ASSUME MatchingTypeOK, [MatchingNext]_matchingVars PROVE [Matches]_matchingVars
    BY <1>1, <1>2
  <1> QED
    BY <1>2, MatchingTypeCorrect, PTL DEF MatchingSpec, ResolvedIsMatched

-----------------------------------------------------------------------------
(***************************************************************************)
(* NewOpportunities, for any number of finds and views, for any time       *)
(***************************************************************************)

\* Every opportunity created up to t, stored or not, was listed, or its match
\* was open when a view started.
PassedUntil(t) ==
    \A f \in Finds : found[f].state # "none" /\ found[f].created <= t
                     => f \in listed \cup straddled

\* No transaction is of the future.
TimesArePast ==
    /\ \A f \in Finds : found[f].created <= now
    /\ \A v \in Views : view[v].start <= now /\ view[v].since <= now

\* The matches older than a view that it cannot see are the straddled ones.
OldIsStored ==
    \A v \in Views : view[v].phase # "off" =>
        \A f \in Finds : found[f].state = "open" /\ found[f].created <= view[v].start
                         => f \in straddled

\* The checkpoint a view has read is behind what was listed; once the view has
\* listed, so is its own start, which is the next checkpoint.
CheckpointsAreSafe ==
    /\ PassedUntil(lastViewed)
    /\ \A v \in Views : /\ view[v].phase \in {"read", "listed"} => PassedUntil(view[v].since)
                        /\ view[v].phase = "listed" => PassedUntil(view[v].start)

NewInv == NewTypeOK /\ TimesArePast /\ OldIsStored /\ CheckpointsAreSafe

-----------------------------------------------------------------------------
LEMMA FieldsOfRows ==
    ASSUME NewTypeOK
    PROVE  /\ \A f \in Finds : found[f].created \in Nat
           /\ \A v \in Views : view[v].start \in Nat /\ view[v].since \in Nat
           /\ now \in Nat /\ lastViewed \in Nat /\ lastViewed <= now
  BY MaxTimeIsNat DEF NewTypeOK, Found, View

\* Nothing forgets what was listed, and what starts now is later than t.
LEMMA PassedStays ==
    ASSUME NEW t, PassedUntil(t), listed \subseteq listed', straddled \subseteq straddled',
           \A f \in Finds : \/ found'[f] = found[f]
                            \/ found[f].state # "none" /\ found'[f].created = found[f].created
                            \/ ~(found'[f].created <= t)
    PROVE  PassedUntil(t)'
  BY DEF PassedUntil

LEMMA InitNew == NewInit => NewInv
  <1> SUFFICES ASSUME NewInit PROVE NewInv
    OBVIOUS
  <1>1. NewTypeOK
    BY MaxTimeIsNat DEF NewInit, NewTypeOK, Found, View, Off
  <1>2. TimesArePast
    BY DEF NewInit, TimesArePast, Off
  <1>3. OldIsStored
    BY DEF NewInit, OldIsStored, Off
  <1>4. CheckpointsAreSafe
    BY DEF NewInit, CheckpointsAreSafe, PassedUntil, Off
  <1> QED
    BY <1>1, <1>2, <1>3, <1>4 DEF NewInv

\* A match that begins is younger than any checkpoint and any view.
LEMMA MatchBeginsKeeps ==
    ASSUME NewInv, NEW g \in Finds, MatchBegins(g)
    PROVE  NewInv'
  <1>t. /\ now' = now + 1 /\ now + 1 \in 0..MaxTime /\ now < MaxTime
        /\ UNCHANGED <<lastViewed, view, listed, straddled>>
    BY FieldsOfRows, MaxTimeIsNat DEF NewInv, MatchBegins, NewTypeOK
  <1>f. /\ found' \in [Finds -> Found]
        /\ found[g].state = "none"
        /\ found'[g].state = "open" /\ found'[g].created = now + 1
        /\ \A f \in Finds \ {g} : found'[f] = found[f]
    BY <1>t DEF NewInv, MatchBegins, NewTypeOK, Found
  <1>s. \A t \in Nat : t <= now /\ PassedUntil(t) => PassedUntil(t)'
    <2> SUFFICES ASSUME NEW t \in Nat, t <= now, PassedUntil(t) PROVE PassedUntil(t)'
      OBVIOUS
    <2>1. ~(found'[g].created <= t)
      BY <1>f, FieldsOfRows DEF NewInv
    <2> QED
      BY <1>t, <1>f, <2>1, PassedStays
  <1>1. NewTypeOK'
    BY <1>t, <1>f, FieldsOfRows DEF NewInv, NewTypeOK
  <1>2. TimesArePast'
    BY <1>t, <1>f, FieldsOfRows DEF NewInv, TimesArePast
  <1>3. OldIsStored'
    BY <1>t, <1>f, FieldsOfRows DEF NewInv, OldIsStored, TimesArePast
  <1>4. CheckpointsAreSafe'
    BY <1>t, <1>s, FieldsOfRows DEF NewInv, CheckpointsAreSafe, TimesArePast
  <1> QED
    BY <1>1, <1>2, <1>3, <1>4 DEF NewInv

LEMMA MatchCommitsKeeps ==
    ASSUME NewInv, NEW g \in Finds, MatchCommits(g)
    PROVE  NewInv'
  <1>f. /\ found' \in [Finds -> Found]
        /\ found[g].state = "open" /\ found'[g].state = "stored"
        /\ found'[g].created = found[g].created
        /\ \A f \in Finds \ {g} : found'[f] = found[f]
        /\ UNCHANGED <<now, lastViewed, view, listed, straddled>>
    BY DEF NewInv, MatchCommits, NewTypeOK, Found
  <1>s. \A t : PassedUntil(t) => PassedUntil(t)'
    BY <1>f, PassedStays
  <1>1. NewTypeOK'
    BY <1>f DEF NewInv, NewTypeOK
  <1>2. TimesArePast'
    BY <1>f DEF NewInv, TimesArePast
  <1>3. OldIsStored'
    BY <1>f DEF NewInv, OldIsStored
  <1>4. CheckpointsAreSafe'
    BY <1>f, <1>s DEF NewInv, CheckpointsAreSafe
  <1> QED
    BY <1>1, <1>2, <1>3, <1>4 DEF NewInv

\* What is open when a view starts is straddled from here on.
LEMMA ViewBeginsKeeps ==
    ASSUME NewInv, NEW w \in Views, ViewBegins(w)
    PROVE  NewInv'
  <1>t. /\ now' = now + 1 /\ now + 1 \in 0..MaxTime
        /\ UNCHANGED <<lastViewed, found, listed>>
        /\ straddled \subseteq straddled' /\ straddled' \in SUBSET Finds
        /\ \A f \in Finds : found[f].state = "open" => f \in straddled'
    BY FieldsOfRows, MaxTimeIsNat DEF NewInv, ViewBegins, NewTypeOK
  <1>v. /\ view' \in [Views -> View]
        /\ view'[w].phase = "started" /\ view'[w].start = now + 1 /\ view'[w].since = 0
        /\ \A v \in Views \ {w} : view'[v] = view[v]
    BY <1>t, MaxTimeIsNat DEF NewInv, ViewBegins, NewTypeOK, View
  <1>s. \A t : PassedUntil(t) => PassedUntil(t)'
    BY <1>t, PassedStays
  <1>1. NewTypeOK'
    BY <1>t, <1>v, FieldsOfRows DEF NewInv, NewTypeOK
  <1>2. TimesArePast'
    BY <1>t, <1>v, FieldsOfRows DEF NewInv, TimesArePast
  <1>3. OldIsStored'
    BY <1>t DEF OldIsStored
  <1>4. CheckpointsAreSafe'
    BY <1>t, <1>v, <1>s DEF NewInv, CheckpointsAreSafe
  <1> QED
    BY <1>1, <1>2, <1>3, <1>4 DEF NewInv

LEMMA ViewReadsKeeps ==
    ASSUME NewInv, NEW w \in Views, ViewReadsCheckpoint(w)
    PROVE  NewInv'
  <1>t. lastViewed \in 0..MaxTime /\ UNCHANGED <<now, lastViewed, found, listed, straddled>>
    BY FieldsOfRows, MaxTimeIsNat DEF NewInv, ViewReadsCheckpoint, NewTypeOK
  <1>v. /\ view' \in [Views -> View]
        /\ view[w].phase = "started" /\ view'[w].phase = "read"
        /\ view'[w].start = view[w].start /\ view'[w].since = lastViewed
        /\ \A v \in Views \ {w} : view'[v] = view[v]
    BY <1>t DEF NewInv, ViewReadsCheckpoint, NewTypeOK, View
  <1>s. \A t : PassedUntil(t) => PassedUntil(t)'
    BY <1>t, PassedStays
  <1>1. NewTypeOK'
    BY <1>t, <1>v DEF NewInv, NewTypeOK
  <1>2. TimesArePast'
    BY <1>t, <1>v, FieldsOfRows DEF NewInv, TimesArePast
  <1>3. OldIsStored'
    BY <1>t, <1>v DEF NewInv, OldIsStored
  <1>4. CheckpointsAreSafe'
    BY <1>t, <1>v, <1>s DEF NewInv, CheckpointsAreSafe
  <1> QED
    BY <1>1, <1>2, <1>3, <1>4 DEF NewInv

\* What is older than the view is straddled, behind the checkpoint, or listed.
LEMMA ViewListsKeeps ==
    ASSUME NewInv, NEW w \in Views, ViewLists(w)
    PROVE  NewInv'
  <1>t. /\ UNCHANGED <<now, lastViewed, found, straddled>>
        /\ listed' \in SUBSET Finds /\ listed \subseteq listed'
        /\ \A f \in Finds : found[f].state = "stored" /\ found[f].created > view[w].since
                            => f \in listed'
    BY DEF NewInv, ViewLists, NewTypeOK
  <1>v. /\ view' \in [Views -> View]
        /\ view[w].phase = "read" /\ view'[w].phase = "listed"
        /\ view'[w].start = view[w].start /\ view'[w].since = view[w].since
        /\ \A v \in Views \ {w} : view'[v] = view[v]
    BY DEF NewInv, ViewLists, NewTypeOK, View
  <1>s. \A t : PassedUntil(t) => PassedUntil(t)'
    BY <1>t, PassedStays
  <1>p. PassedUntil(view[w].start)'
    <2> SUFFICES ASSUME NEW f \in Finds, found[f].state # "none",
                        found[f].created <= view[w].start
                 PROVE  f \in listed' \cup straddled'
      BY <1>t, <1>v DEF PassedUntil
    <2>1. CASE found[f].state = "open"
      BY <1>t, <1>v, <2>1 DEF NewInv, OldIsStored
    <2>2. CASE found[f].state = "stored" /\ found[f].created > view[w].since
      BY <1>t, <2>2
    <2>3. CASE found[f].created <= view[w].since
      BY <1>t, <1>v, <2>3 DEF NewInv, CheckpointsAreSafe, PassedUntil
    <2>4. found[f].state \in {"none", "open", "stored"}
      BY DEF NewInv, NewTypeOK, Found
    <2>5. found[f].created <= view[w].since \/ found[f].created > view[w].since
      BY FieldsOfRows DEF NewInv
    <2> QED
      BY <2>1, <2>2, <2>3, <2>4, <2>5
  <1>1. NewTypeOK'
    BY <1>t, <1>v DEF NewInv, NewTypeOK
  <1>2. TimesArePast'
    BY <1>t, <1>v DEF NewInv, TimesArePast
  <1>3. OldIsStored'
    BY <1>t, <1>v DEF NewInv, OldIsStored
  <1>4. CheckpointsAreSafe'
    <2>1. PassedUntil(lastViewed)'
      BY <1>t, <1>s DEF NewInv, CheckpointsAreSafe
    <2>2. ASSUME NEW v \in Views, v # w
          PROVE  /\ view'[v].phase \in {"read", "listed"} => PassedUntil(view[v].since)'
                 /\ view'[v].phase = "listed" => PassedUntil(view[v].start)'
      BY <1>v, <1>s, <2>2 DEF NewInv, CheckpointsAreSafe
    <2>3. PassedUntil(view[w].since)'
      BY <1>v, <1>s DEF NewInv, CheckpointsAreSafe
    <2> QED
      BY <1>v, <1>p, <2>1, <2>2, <2>3 DEF CheckpointsAreSafe
  <1> QED
    BY <1>1, <1>2, <1>3, <1>4 DEF NewInv

\* A view ends, with or without moving the checkpoint.
LEMMA ViewEndsKeeps ==
    ASSUME NewInv, NEW w \in Views, view' = [view EXCEPT ![w] = Off],
           UNCHANGED <<now, found, listed, straddled>>,
           lastViewed' \in 0..now, PassedUntil(lastViewed')
    PROVE  NewInv'
  <1>v. /\ view' \in [Views -> View]
        /\ view'[w].phase = "off" /\ view'[w].start = 0 /\ view'[w].since = 0
        /\ \A v \in Views \ {w} : view'[v] = view[v]
    BY MaxTimeIsNat DEF NewInv, NewTypeOK, View, Off
  <1>s. \A t : PassedUntil(t) => PassedUntil(t)'
    BY PassedStays
  <1>1. NewTypeOK'
    BY <1>v DEF NewInv, NewTypeOK
  <1>2. TimesArePast'
    BY <1>v, FieldsOfRows DEF NewInv, TimesArePast
  <1>3. OldIsStored'
    BY <1>v DEF NewInv, OldIsStored
  <1>4. CheckpointsAreSafe'
    <2>1. PassedUntil(lastViewed)'
      BY DEF PassedUntil
    <2> QED
      BY <1>v, <1>s, <2>1 DEF NewInv, CheckpointsAreSafe
  <1> QED
    BY <1>1, <1>2, <1>3, <1>4 DEF NewInv

LEMMA NextKeepsNew == NewInv /\ [NewNext]_newVars => NewInv'
  <1> SUFFICES ASSUME NewInv, [NewNext]_newVars PROVE NewInv'
    OBVIOUS
  <1>1. CASE \E f \in Finds : MatchBegins(f) \/ MatchCommits(f)
    BY <1>1, MatchBeginsKeeps, MatchCommitsKeeps
  <1>2. CASE \E v \in Views : ViewBegins(v) \/ ViewReadsCheckpoint(v) \/ ViewLists(v)
    BY <1>2, ViewBeginsKeeps, ViewReadsKeeps, ViewListsKeeps
  <1>3. ASSUME NEW v \in Views, ViewMarks(v) PROVE NewInv'
    <2>1. lastViewed' = view[v].start /\ view[v].start \in 0..now /\ PassedUntil(view[v].start)
      BY <1>3, FieldsOfRows DEF ViewMarks, NewInv, TimesArePast, CheckpointsAreSafe
    <2> QED
      BY <1>3, <2>1, ViewEndsKeeps DEF ViewMarks
  <1>4. ASSUME NEW v \in Views, ViewEnds(v) PROVE NewInv'
    BY <1>4, ViewEndsKeeps DEF ViewEnds, NewInv, NewTypeOK, CheckpointsAreSafe
  <1>5. CASE UNCHANGED newVars
    BY <1>5 DEF newVars, NewInv, NewTypeOK, TimesArePast, OldIsStored, CheckpointsAreSafe, PassedUntil
  <1> QED
    BY <1>1, <1>2, <1>3, <1>4, <1>5 DEF NewNext

-----------------------------------------------------------------------------
\* The inductive invariant of list_new_opportunities and the matches beside it
THEOREM NewInvariant == NewSpec => []NewInv
  BY InitNew, NextKeepsNew, PTL DEF NewSpec

\* Times, rows and views keep their types; the checkpoint is never ahead of
\* the clock.
THEOREM NewTypeCorrect == NewSpec => []NewTypeOK
  BY NewInvariant, PTL DEF NewInv

\* The checkpoint of "what's new" passes nothing that was not listed, but for
\* matches that were running when a view started.
THEOREM NothingNewIsPassed == NewSpec => []PassedIsListed
  <1>1. NewInv => PassedIsListed
    BY DEF NewInv, CheckpointsAreSafe, PassedUntil, PassedIsListed
  <1> QED
    BY <1>1, NewInvariant, PTL

-----------------------------------------------------------------------------
(***************************************************************************)
(* Opportunity, for any editors and any number of them                     *)
(***************************************************************************)

\* What a score is made of when nothing is restricted: points out of a maximum.
Points(c, d, known, winners) ==
    (IF c = "high" THEN 40 ELSE IF c = "medium" THEN 25 ELSE 10)
    + (IF known THEN 20 ELSE 0)
    + (IF d = Unknown \/ d < 3 THEN 0 ELSE IF d < 8 THEN 5 ELSE IF d < 22 THEN 15 ELSE 20)
    + (IF winners < 2 THEN 0 ELSE IF winners < 5 THEN 10 ELSE 20)
OutOf(d, known, winners) ==
    40 + (IF known THEN 20 ELSE 0) + (IF d = Unknown THEN 0 ELSE 20)
       + (IF winners = 0 THEN 0 ELSE 20)

\* A missing signal counts on neither side of the fraction.
LEMMA SumsOfSignals ==
    ASSUME NEW s
    PROVE  /\ Total(s) = (IF s[1].points # Unknown THEN s[1].points ELSE 0)
                       + (IF s[2].points # Unknown THEN s[2].points ELSE 0)
                       + (IF s[3].points # Unknown THEN s[3].points ELSE 0)
                       + (IF s[4].points # Unknown THEN s[4].points ELSE 0)
           /\ Available(s) = (IF s[1].points # Unknown THEN s[1].max ELSE 0)
                           + (IF s[2].points # Unknown THEN s[2].max ELSE 0)
                           + (IF s[3].points # Unknown THEN s[3].max ELSE 0)
                           + (IF s[4].points # Unknown THEN s[4].max ELSE 0)
  <1>1. \A i \in {1, 2, 3, 4} : i \in Scored(s) <=> s[i].points # Unknown
    BY DEF Scored
  <1> QED
    BY <1>1 DEF Total, Available

LEMMA SignalsAreWorth ==
    ASSUME NEW c \in {"low", "medium", "high"}, NEW d \in Int, NEW known \in BOOLEAN,
           NEW winners \in Nat
    PROVE  /\ Total(Signals(c, d, known, winners)) = Points(c, d, known, winners)
           /\ Available(Signals(c, d, known, winners)) = OutOf(d, known, winners)
  <1> DEFINE s == Signals(c, d, known, winners)
  <1> USE DEF Unknown
  <1>1. s[1].max = 40 /\ s[1].points = IF c = "high" THEN 40 ELSE IF c = "medium" THEN 25 ELSE 10
    BY DEF Signals, ConfidencePoints
  <1>2. s[2].max = 20 /\ s[2].points = IF known THEN 20 ELSE -1000
    BY DEF Signals, ValuePoints
  <1>3. /\ s[3].max = 20
        /\ s[3].points = IF d = -1000 THEN -1000 ELSE IF d < 3 THEN 0 ELSE IF d < 8 THEN 5
                         ELSE IF d < 22 THEN 15 ELSE 20
    <2>1. s[3] = DeadlinePoints(d)
      BY DEF Signals
    <2>2. CASE d = -1000
      BY <2>1, <2>2 DEF DeadlinePoints
    <2>3. CASE d # -1000 /\ d < 3
      BY <2>1, <2>3 DEF DeadlinePoints
    <2>4. CASE d # -1000 /\ d \in 3..7
      BY <2>1, <2>4 DEF DeadlinePoints
    <2>5. CASE d # -1000 /\ d \in 8..21
      BY <2>1, <2>5 DEF DeadlinePoints
    <2>6. CASE d # -1000 /\ d > 21
      BY <2>1, <2>6 DEF DeadlinePoints
    <2> QED
      BY <2>2, <2>3, <2>4, <2>5, <2>6
  <1>4. /\ s[4].max = 20
        /\ s[4].points = IF winners = 0 THEN -1000 ELSE IF winners < 2 THEN 0
                         ELSE IF winners < 5 THEN 10 ELSE 20
    <2>1. s[4] = BuyerPoints(winners)
      BY DEF Signals
    <2>2. CASE winners = 0
      BY <2>1, <2>2 DEF BuyerPoints
    <2>3. CASE winners = 1
      BY <2>1, <2>3 DEF BuyerPoints
    <2>4. CASE winners \in 2..4
      BY <2>1, <2>4 DEF BuyerPoints
    <2>5. CASE winners >= 5
      BY <2>1, <2>5 DEF BuyerPoints
    <2> QED
      BY <2>2, <2>3, <2>4, <2>5
  <1> HIDE DEF s
  <1>5. Total(s) = Points(c, d, known, winners)
    <2>1. Total(s) = (IF c = "high" THEN 40 ELSE IF c = "medium" THEN 25 ELSE 10)
                     + (IF known THEN 20 ELSE 0)
                     + (IF s[3].points # -1000 THEN s[3].points ELSE 0)
                     + (IF s[4].points # -1000 THEN s[4].points ELSE 0)
      BY <1>1, <1>2, SumsOfSignals
    <2>2. (IF s[3].points # -1000 THEN s[3].points ELSE 0)
          = (IF d = -1000 \/ d < 3 THEN 0 ELSE IF d < 8 THEN 5 ELSE IF d < 22 THEN 15 ELSE 20)
      BY <1>3
    <2>3. (IF s[4].points # -1000 THEN s[4].points ELSE 0)
          = (IF winners < 2 THEN 0 ELSE IF winners < 5 THEN 10 ELSE 20)
      BY <1>4
    <2> QED
      BY <2>1, <2>2, <2>3 DEF Points
  <1>6. Available(s) = OutOf(d, known, winners)
    <2>1. (IF s[1].points # -1000 THEN s[1].max ELSE 0) = 40
      BY <1>1
    <2>2. (IF s[2].points # -1000 THEN s[2].max ELSE 0) = (IF known THEN 20 ELSE 0)
      BY <1>2
    <2>3. (IF s[3].points # -1000 THEN s[3].max ELSE 0) = (IF d = -1000 THEN 0 ELSE 20)
      BY <1>3
    <2>4. (IF s[4].points # -1000 THEN s[4].max ELSE 0) = (IF winners = 0 THEN 0 ELSE 20)
      BY <1>4
    <2>5. Available(s) = (IF s[1].points # -1000 THEN s[1].max ELSE 0)
                       + (IF s[2].points # -1000 THEN s[2].max ELSE 0)
                       + (IF s[3].points # -1000 THEN s[3].max ELSE 0)
                       + (IF s[4].points # -1000 THEN s[4].max ELSE 0)
      BY SumsOfSignals
    <2> QED
      BY <2>1, <2>2, <2>3, <2>4, <2>5 DEF OutOf
  <1> QED
    BY <1>5, <1>6 DEF s

\* Rounding half to even gives a percentage and keeps the order, for the
\* maxima that occur.
LEMMA RoundedIsPercentage ==
    ASSUME NEW m \in {40, 60, 80, 100}, NEW n \in 0..m
    PROVE  RoundedPercent(n, m) \in 0..100
  <1>1. CASE m = 40
    BY <1>1 DEF RoundedPercent
  <1>2. CASE m = 60
    BY <1>2 DEF RoundedPercent
  <1>3. CASE m = 80
    BY <1>3 DEF RoundedPercent
  <1>4. CASE m = 100
    BY <1>4 DEF RoundedPercent
  <1> QED
    BY <1>1, <1>2, <1>3, <1>4

LEMMA RoundingKeepsOrder ==
    ASSUME NEW m \in {40, 60, 80, 100}, NEW n \in 0..m, NEW k \in 0..m, k <= n
    PROVE  RoundedPercent(k, m) <= RoundedPercent(n, m)
  <1>1. CASE m = 40
    BY <1>1 DEF RoundedPercent
  <1>2. CASE m = 60
    BY <1>2 DEF RoundedPercent
  <1>3. CASE m = 80
    BY <1>3 DEF RoundedPercent
  <1>4. CASE m = 100
    BY <1>4 DEF RoundedPercent
  <1> QED
    BY <1>1, <1>2, <1>3, <1>4

LEMMA PointsAreBounded ==
    ASSUME NEW c \in {"low", "medium", "high"}, NEW d \in Int, NEW known \in BOOLEAN,
           NEW winners \in Nat
    PROVE  /\ OutOf(d, known, winners) \in {40, 60, 80, 100}
           /\ Points(c, d, known, winners) \in 0..OutOf(d, known, winners)
  BY DEF Points, OutOf, Unknown

\* The percentage of compute_fit_score, and the gate
LEMMA ScoreIsPercentage ==
    ASSUME NEW c \in {"low", "medium", "high"}, NEW d \in Int, NEW known \in BOOLEAN,
           NEW winners \in Nat
    PROVE  /\ FitScore(Signals(c, d, known, winners), FALSE)
              = RoundedPercent(Points(c, d, known, winners), OutOf(d, known, winners))
           /\ FitScore(Signals(c, d, known, winners), FALSE) \in 0..100
           /\ FitScore(Signals(c, d, known, winners), TRUE) \in 0..20
  <1> DEFINE n == Points(c, d, known, winners)
             m == OutOf(d, known, winners)
             s == Signals(c, d, known, winners)
  <1>1. m \in {40, 60, 80, 100} /\ n \in 0..m
    BY PointsAreBounded, ZenonT(60)
  <1>2. Total(s) = n /\ Available(s) = m
    BY SignalsAreWorth
  <1> HIDE DEF n, m, s
  <1>3. RoundedPercent(n, m) \in 0..100
    BY <1>1, RoundedIsPercentage
  <1>4. ScorePercent(s) = RoundedPercent(n, m)
    BY <1>1, <1>2 DEF ScorePercent
  <1>5. FitScore(s, FALSE) = RoundedPercent(n, m)
    BY <1>4 DEF FitScore
  <1>6. FitScore(s, TRUE) \in 0..20
    BY <1>3, <1>4 DEF FitScore, Unknown
  <1>7. FitScore(s, FALSE) \in 0..100
    BY <1>3, <1>5
  <1> QED
    BY <1>5, <1>6, <1>7 DEF n, m, s

LEMMA ScoreIsBounded ==
    ASSUME NEW c \in {"low", "medium", "high"}, NEW d \in Int, NEW known \in BOOLEAN,
           NEW winners \in Nat
    PROVE  /\ FitScore(Signals(c, d, known, winners), FALSE) \in 0..100
           /\ FitScore(Signals(c, d, known, winners), TRUE) \in 0..20
  BY ScoreIsPercentage

\* Two scores over the same maximum compare as their points do.
LEMMA ScoresCompare ==
    ASSUME NEW b \in {"low", "medium", "high"}, NEW c \in {"low", "medium", "high"},
           NEW e \in Int, NEW d \in Int, NEW known \in BOOLEAN, NEW winners \in Nat,
           OutOf(e, known, winners) = OutOf(d, known, winners),
           Points(b, e, known, winners) <= Points(c, d, known, winners)
    PROVE  FitScore(Signals(b, e, known, winners), FALSE)
           <= FitScore(Signals(c, d, known, winners), FALSE)
  <1> DEFINE k == Points(b, e, known, winners)
             n == Points(c, d, known, winners)
             m == OutOf(d, known, winners)
             l == OutOf(e, known, winners)
  <1>m. m \in {40, 60, 80, 100} /\ n \in 0..m
    BY PointsAreBounded, ZenonT(60)
  <1>l. k \in 0..l
    BY PointsAreBounded, ZenonT(60)
  <1>1. m \in {40, 60, 80, 100} /\ n \in 0..m /\ k \in 0..m /\ k <= n
    BY <1>m, <1>l
  <1>2. FitScore(Signals(c, d, known, winners), FALSE) = RoundedPercent(n, m)
    BY ScoreIsPercentage
  <1>e. FitScore(Signals(b, e, known, winners), FALSE) = RoundedPercent(k, l)
    BY ScoreIsPercentage
  <1>3. FitScore(Signals(b, e, known, winners), FALSE) = RoundedPercent(k, m)
    BY <1>e
  <1> HIDE DEF k, n, m, l
  <1>4. RoundedPercent(k, m) <= RoundedPercent(n, m)
    BY <1>1, RoundingKeepsOrder
  <1> QED
    BY <1>2, <1>3, <1>4

\* A better match never scores less, a deadline that passes never scores more.
LEMMA ScoreIsFair ==
    ASSUME NEW c \in {"low", "medium", "high"}, NEW d \in Int, NEW known \in BOOLEAN,
           NEW winners \in Nat
    PROVE  /\ FitScore(Signals("low", d, known, winners), FALSE)
              <= FitScore(Signals(c, d, known, winners), FALSE)
           /\ d # Unknown => FitScore(Signals(c, -1, known, winners), FALSE)
                             <= FitScore(Signals(c, d, known, winners), FALSE)
  <1>1. Points("low", d, known, winners) <= Points(c, d, known, winners)
    BY DEF Points, Unknown
  <1>2. d # Unknown => /\ OutOf(-1, known, winners) = OutOf(d, known, winners)
                       /\ Points(c, -1, known, winners) <= Points(c, d, known, winners)
    BY DEF OutOf, Points, Unknown
  <1>3. "low" \in {"low", "medium", "high"} /\ -1 \in Int
    OBVIOUS
  <1>4. FitScore(Signals("low", d, known, winners), FALSE)
        <= FitScore(Signals(c, d, known, winners), FALSE)
    BY <1>1, <1>3, ScoresCompare
  <1>5. d # Unknown => FitScore(Signals(c, -1, known, winners), FALSE)
                       <= FitScore(Signals(c, d, known, winners), FALSE)
    BY <1>2, <1>3, ScoresCompare
  <1> QED
    BY <1>4, <1>5

-----------------------------------------------------------------------------
\* The sentences listed for a stage are all it can lead to, whatever the date.
LEMMA SuggestionIsListed ==
    ASSUME NEW stage \in OpportunityStages, NEW c \in Confidences, NEW d \in Int
    PROVE  BaseSuggestion(stage, c, d) \in SuggestionsFor(stage)
  <1> USE DEF Unknown, UrgentDays
  <1>1. \A e \in {Unknown, -1, 0, UrgentDays + 1} :
           BaseSuggestion(stage, c, e) \in SuggestionsFor(stage)
    BY DEF SuggestionsFor
  <1>2. \E e \in {Unknown, -1, 0, UrgentDays + 1} :
           BaseSuggestion(stage, c, d) = BaseSuggestion(stage, c, e)
    <2>1. CASE stage \in ClosedStages
      <3>1. BaseSuggestion(stage, c, d) = stage /\ BaseSuggestion(stage, c, 0) = stage
        BY <2>1 DEF BaseSuggestion
      <3> QED
        BY <3>1
    <2>2. CASE stage \notin ClosedStages /\ d = Unknown
      BY <2>2
    <2>3. CASE stage \notin ClosedStages /\ d # Unknown /\ d < 0
      <3>1. /\ BaseSuggestion(stage, c, d) = "deadline_passed"
            /\ BaseSuggestion(stage, c, -1) = "deadline_passed"
        BY <2>3 DEF BaseSuggestion
      <3> QED
        BY <3>1
    <2>4. CASE stage \notin ClosedStages /\ d # Unknown /\ d \in 0..UrgentDays
      <3>1. BaseSuggestion(stage, c, d) = "urgent" /\ BaseSuggestion(stage, c, 0) = "urgent"
        BY <2>4 DEF BaseSuggestion
      <3> QED
        BY <3>1
    <2>5. CASE stage \notin ClosedStages /\ d > UrgentDays
      <3>1. BaseSuggestion(stage, c, d) = BaseSuggestion(stage, c, UrgentDays + 1)
        BY <2>5 DEF BaseSuggestion
      <3> QED
        BY <3>1
    <2> QED
      BY <2>1, <2>2, <2>3, <2>4, <2>5
  <1> QED
    BY <1>1, <1>2

\* The text of the rules fits the stage it is computed for.
LEMMA SuggestedFits ==
    ASSUME OpportunityTypeOK, NEW stage \in StagesUsed, NEW c \in {"low", "high"},
           NEW owner, NEW due
    PROVE  /\ Suggested(stage, c, owner, due) \in Sentences
           /\ Fits(Suggested(stage, c, owner, due), stage)
  <1> DEFINE base == BaseSuggestion(stage, c, tender.days)
             late == IF due = "past" THEN 1 ELSE Unknown
             restriction == tender.setAside # "none" /\ stage \in EarlyStages \ ClosedStages
             overdue == late # Unknown /\ late > 0 /\ stage \notin ClosedStages
             assign == ~(owner # Nobody) /\ stage \notin ClosedStages
  <1>1. stage \in OpportunityStages /\ tender.days \in Int /\ c \in Confidences
    BY OpportunityAssumptions DEF OpportunityTypeOK, Confidences
  <1>2. base \in SuggestionsFor(stage)
    BY <1>1, SuggestionIsListed
  <1>3. Suggested(stage, c, owner, due) =
           [base |-> base, restriction |-> restriction, overdue |-> overdue, assign |-> assign]
    BY DEF Suggested, SuggestNextAction
  <1>4. restriction \in BOOLEAN /\ overdue \in BOOLEAN /\ assign \in BOOLEAN
    OBVIOUS
  <1>5. (restriction => stage \in EarlyStages) /\ (overdue \/ assign => stage \notin ClosedStages)
    OBVIOUS
  <1>6. base \in UNION {SuggestionsFor(s) : s \in OpportunityStages}
    BY <1>1, <1>2
  <1> HIDE DEF base, restriction, overdue, assign
  <1> QED
    BY <1>2, <1>3, <1>4, <1>5, <1>6 DEF Sentences, Fits

\* A next action that may stand next to the stage
AdviceFits(action, stage) == optedOut \/ Fits(action, stage)

\* What an edit that keeps stage and action has read
ReadOf(q) == <<editor[q].stage, editor[q].action, editor[q].held>>

\* An edit in flight holds an action and a stage that fit each other, although
\* the row may have moved on since it was read, and what it may write back
\* unlogged is in the audit log; the first visit, and no other, is too.
OpportunityInv ==
    /\ OpportunityTypeOK
    /\ ActionFitsStage
    /\ \A q \in Editors :
          editor[q].busy => row.there /\ AdviceFits(editor[q].action, editor[q].stage)
    /\ opensLogged = IF row.opened = 0 THEN 0 ELSE 1
    /\ ~row.there => row.stage = "lead"
    /\ LogKnowsRow
    /\ \A q \in Editors : editor[q].busy /\ editor[q].keeps => ReadOf(q) \in audited

LEMMA RowFields ==
    ASSUME row \in Row
    PROVE  /\ row.there \in BOOLEAN /\ row.stage \in StagesUsed /\ row.action \in Sentences
           /\ row.confidence \in {"low", "high"} /\ row.owner \in Owners
           /\ row.due \in DueDates /\ row.opened \in 0..MaxOpens
  BY DEF Row

LEMMA EditorFields ==
    ASSUME editor \in [Editors -> {Resting} \cup Editing], NEW q \in Editors, editor[q].busy
    PROVE  /\ editor[q] \in Editing
           /\ editor[q].stage \in StagesUsed /\ editor[q].action \in Sentences
           /\ editor[q].owner \in Owners \cup {"same"} /\ editor[q].due \in DueDates
           /\ editor[q].keeps \in BOOLEAN /\ editor[q].held \in Owners
  <1>1. editor[q] \in {Resting} \cup Editing
    OBVIOUS
  <1>2. editor[q] # Resting
    BY DEF Resting
  <1>3. editor[q] \in Editing
    BY <1>1, <1>2
  <1> QED
    BY <1>3 DEF Editing

\* editor after an assignment to one request
LEMMA EditorAfter ==
    ASSUME editor \in [Editors -> {Resting} \cup Editing], NEW q \in Editors,
           NEW x \in {Resting} \cup Editing, editor' = [editor EXCEPT ![q] = x]
    PROVE  /\ editor' \in [Editors -> {Resting} \cup Editing]
           /\ \A r \in Editors : editor'[r] = IF r = q THEN x ELSE editor[r]
  OBVIOUS

LEMMA OpportunityInitInv == OpportunityInit => OpportunityInv
  <1> SUFFICES ASSUME OpportunityInit PROVE OpportunityInv
    OBVIOUS
  <1>1. row \in Row
    BY OpportunityAssumptions DEF OpportunityInit, Row, Sentences, Owners, DueDates
  <1>2. \A q \in Editors : editor[q] = Resting /\ ~editor[q].busy
    BY DEF OpportunityInit, Resting
  <1>3. /\ editor \in [Editors -> {Resting} \cup Editing] /\ tender \in TenderStates
        /\ opensLogged = 0 /\ row.opened = 0 /\ row.action = Manual /\ row.stage = "lead"
        /\ optedOut \in BOOLEAN /\ audited = {} /\ edits = 0 /\ ~row.there
    BY DEF OpportunityInit
  <1>4. OpportunityTypeOK
    BY <1>1, <1>3, OpportunityAssumptions DEF OpportunityTypeOK
  <1> QED
    BY <1>2, <1>3, <1>4 DEF OpportunityInv, ActionFitsStage, Fits, LogKnowsRow

LEMMA MatchKeeps ==
    ASSUME OpportunityInv, NEW c \in {"low", "high"}, Match(c)
    PROVE  OpportunityInv'
  <1> DEFINE advice == Suggested("lead", c, Nobody, "none")
  <1>1. row \in Row /\ OpportunityTypeOK
    BY DEF OpportunityInv, OpportunityTypeOK
  <1>2. advice \in Sentences /\ Fits(advice, "lead")
    BY <1>1, SuggestedFits, OpportunityAssumptions
  <1>m. /\ UNCHANGED <<tender, editor, opensLogged, edits, optedOut>>
        /\ audited' = IF row.there THEN audited ELSE audited \cup {Audited(row')}
    BY DEF Match
  <1>3. CASE row.there
    <2>1. row' = [row EXCEPT !.confidence = c]
      BY <1>3 DEF Match
    <2>2. row' \in Row /\ row'.stage = row.stage /\ row'.action = row.action
          /\ row'.opened = row.opened /\ row'.there /\ row'.owner = row.owner
      BY <1>1, <1>3, <2>1 DEF Row
    <2>3. audited' = audited /\ LogKnowsRow'
      BY <1>m, <1>3, <2>2 DEF OpportunityInv, LogKnowsRow, Audited
    <2> QED
      BY <1>m, <2>2, <2>3
      DEF OpportunityInv, OpportunityTypeOK, ActionFitsStage, AdviceFits, ReadOf
  <1>4. CASE ~row.there
    <2>1. row' = [row EXCEPT !.there = TRUE, !.confidence = c, !.action = advice]
      BY <1>4 DEF Match
    <2> HIDE DEF advice
    <2>2. row' \in Row /\ row'.stage = row.stage /\ row'.action = advice
          /\ row'.opened = row.opened /\ row'.there
      BY <1>1, <1>2, <2>1 DEF Row
    <2>3. row'.stage = "lead"
      BY <1>4, <2>2 DEF OpportunityInv
    <2>4. ActionFitsStage'
      BY <1>2, <2>2, <2>3 DEF ActionFitsStage
    <2>5. /\ audited' = audited \cup {Audited(row')} /\ LogKnowsRow'
          /\ Audited(row') \in StagesUsed \X Sentences \X Owners
      BY <1>m, <1>4, <2>2, RowFields DEF LogKnowsRow, Audited, Row
    <2>6. OpportunityTypeOK'
      BY <1>m, <2>2, <2>5 DEF OpportunityInv, OpportunityTypeOK
    <2> QED
      BY <1>m, <2>2, <2>3, <2>4, <2>5, <2>6 DEF OpportunityInv, AdviceFits, ReadOf
  <1> QED
    BY <1>3, <1>4

\* A request computes its action from the stage it will write, or leaves both as
\* it has read them.
LEMMA NewActionFits ==
    ASSUME OpportunityInv, NEW ask \in Ask
    PROVE  /\ NewAction(ask, row) \in Sentences
           /\ \/ optedOut \/ (ask.stage # "same" /\ ask.action = "same")
              \/ Fits(NewAction(ask, row), Chosen(ask.stage, row.stage))
  <1>1. OpportunityTypeOK /\ row \in Row
    BY DEF OpportunityInv, OpportunityTypeOK
  <1>2. row.confidence \in {"low", "high"} /\ row.action \in Sentences
    BY <1>1, RowFields
  <1>3. /\ ask.action \in {"same", "manual", "auto"}
        /\ ask.stage # "same" => ask.stage \in StagesUsed
    BY DEF Ask
  <1>4. CASE ask.action = "manual"
    BY <1>4 DEF NewAction, Sentences, Fits
  <1>5. CASE ask.stage # "same" /\ ask.action = "auto"
    <2> DEFINE owner == Chosen(ask.owner, row.owner)
               due == Chosen(ask.due, row.due)
               advice == Suggested(ask.stage, row.confidence, owner, due)
    <2>1. NewAction(ask, row) = advice /\ Chosen(ask.stage, row.stage) = ask.stage
      BY <1>5 DEF NewAction, Chosen
    <2> HIDE DEF owner, due
    <2>2. advice \in Sentences /\ Fits(advice, ask.stage)
      BY <1>1, <1>2, <1>3, <1>5, SuggestedFits
    <2> HIDE DEF advice
    <2> QED
      BY <2>1, <2>2
  <1>6. CASE ask.stage # "same" /\ ask.action = "same"
    BY <1>2, <1>6 DEF NewAction
  <1>7. CASE ask.stage = "same" /\ ask.action # "manual"
    <2>1. NewAction(ask, row) = row.action /\ Chosen(ask.stage, row.stage) = row.stage
      BY <1>7 DEF NewAction, Chosen
    <2> QED
      BY <1>2, <2>1 DEF OpportunityInv, ActionFitsStage
  <1> QED
    BY <1>3, <1>4, <1>5, <1>6, <1>7

LEMMA EditReadKeeps ==
    ASSUME OpportunityInv, NEW q \in Editors, NEW ask \in Asks, EditRead(q, ask)
    PROVE  OpportunityInv'
  <1> DEFINE stage == Chosen(ask.stage, row.stage)
             action == NewAction(ask, row)
             x == [busy |-> TRUE, stage |-> stage, action |-> action, owner |-> ask.owner,
                   due |-> Chosen(ask.due, row.due), held |-> row.owner,
                   keeps |-> stage = row.stage /\ action = row.action]
  <1>1. row \in Row /\ optedOut \in BOOLEAN /\ edits \in 0..MaxEdits /\ MaxEdits \in Nat
        /\ editor \in [Editors -> {Resting} \cup Editing] /\ ask \in Ask
    BY OpportunityAssumptions DEF OpportunityInv, OpportunityTypeOK
  <1>2. /\ UNCHANGED <<row, tender, opensLogged, audited>> /\ editor' = [editor EXCEPT ![q] = x]
        /\ optedOut' = (optedOut \/ (ask.stage # "same" /\ ask.action = "same"))
        /\ edits < MaxEdits /\ edits' = edits + 1 /\ row.there
    BY DEF EditRead
  <1>3. /\ action \in Sentences
        /\ optedOut' \/ Fits(action, stage)
    BY <1>1, <1>2, NewActionFits
  <1>4. stage \in StagesUsed /\ Chosen(ask.due, row.due) \in DueDates
        /\ ask.owner \in Owners \cup {"same"} /\ row.owner \in Owners
    BY <1>1, RowFields DEF Ask, Chosen, DueDates
  <1> HIDE DEF stage, action
  <1>5. /\ x \in Editing /\ x.action = action /\ x.stage = stage
        /\ x.keeps => <<x.stage, x.action, x.held>> = Audited(row)
    BY <1>3, <1>4 DEF Editing, Audited
  <1> HIDE DEF x
  <1>6. editor' \in [Editors -> {Resting} \cup Editing]
        /\ \A r \in Editors : editor'[r] = IF r = q THEN x ELSE editor[r]
    BY <1>1, <1>2, <1>5, EditorAfter
  <1>7. edits' \in 0..MaxEdits /\ optedOut' \in BOOLEAN /\ (optedOut => optedOut')
    BY <1>1, <1>2
  <1>8. OpportunityTypeOK'
    BY <1>1, <1>2, <1>6, <1>7 DEF OpportunityInv, OpportunityTypeOK
  <1>9. ActionFitsStage'
    BY <1>2, <1>7 DEF OpportunityInv, ActionFitsStage
  <1>10. \A r \in Editors :
           editor'[r].busy => row'.there /\ AdviceFits(editor[r].action, editor[r].stage)'
    <2> TAKE r \in Editors
    <2>1. CASE r = q
      BY <1>2, <1>3, <1>5, <1>6, <2>1 DEF AdviceFits
    <2>2. CASE r # q
      BY <1>2, <1>6, <1>7, <2>2 DEF AdviceFits, OpportunityInv
    <2> QED
      BY <2>1, <2>2
  <1>11. LogKnowsRow'
    BY <1>2 DEF OpportunityInv, LogKnowsRow, Audited
  <1>12. \A r \in Editors : editor'[r].busy /\ editor'[r].keeps => ReadOf(r)' \in audited'
    <2> TAKE r \in Editors
    <2>1. CASE r = q
      BY <1>2, <1>5, <1>6, <2>1 DEF ReadOf, OpportunityInv, LogKnowsRow
    <2>2. CASE r # q
      BY <1>2, <1>6, <2>2 DEF ReadOf, OpportunityInv
    <2> QED
      BY <2>1, <2>2
  <1> QED
    BY <1>2, <1>8, <1>9, <1>10, <1>11, <1>12 DEF OpportunityInv

LEMMA EditEndsKeeps ==
    ASSUME OpportunityInv, NEW q \in Editors, EditCommit(q) \/ EditFails(q)
    PROVE  OpportunityInv'
  <1>1. row \in Row /\ editor \in [Editors -> {Resting} \cup Editing] /\ editor[q].busy
        /\ UNCHANGED <<tender, opensLogged, edits, optedOut>>
        /\ editor' = [editor EXCEPT ![q] = Resting]
    BY DEF OpportunityInv, OpportunityTypeOK, EditCommit, EditFails
  <1>2. editor' \in [Editors -> {Resting} \cup Editing]
        /\ \A r \in Editors : editor'[r] = IF r = q THEN Resting ELSE editor[r]
    BY <1>1, EditorAfter
  <1>3. /\ editor[q].stage \in StagesUsed /\ editor[q].action \in Sentences
        /\ editor[q].due \in DueDates /\ Chosen(editor[q].owner, row.owner) \in Owners
    BY <1>1, EditorFields, RowFields DEF Chosen
  <1>4. \/ row' = row /\ audited' = audited
        \/ /\ row' = [row EXCEPT !.action = editor[q].action, !.stage = editor[q].stage,
                          !.due = editor[q].due, !.owner = Chosen(editor[q].owner, @)]
           /\ audited' = IF editor[q].keeps /\ row'.owner = editor[q].held THEN audited
                         ELSE audited \cup {Audited(row')}
    BY DEF EditCommit, EditFails, Written
  <1>5. /\ row' \in Row /\ row'.opened = row.opened
        /\ \/ row'.action = row.action /\ row'.stage = row.stage
           \/ row'.action = editor[q].action /\ row'.stage = editor[q].stage
        /\ row'.there = row.there
    BY <1>1, <1>3, <1>4 DEF Row
  <1>l. /\ LogKnowsRow' /\ audited \subseteq audited'
        /\ audited' \subseteq audited \cup {Audited(row')}
    <2>1. CASE row' = row /\ audited' = audited
      BY <2>1 DEF OpportunityInv, LogKnowsRow, Audited
    <2>2. CASE audited' = audited \cup {Audited(row')}
      BY <2>2 DEF LogKnowsRow
    <2>3. CASE /\ editor[q].keeps /\ row'.owner = editor[q].held /\ audited' = audited
               /\ row'.action = editor[q].action /\ row'.stage = editor[q].stage
      BY <1>1, <2>3 DEF OpportunityInv, LogKnowsRow, Audited, ReadOf
    <2> QED
      BY <1>1, <1>3, <1>4, <2>1, <2>2, <2>3 DEF Row
  <1>a. Audited(row') \in StagesUsed \X Sentences \X Owners
    BY <1>5 DEF Audited, Row
  <1>6. OpportunityTypeOK'
    BY <1>1, <1>2, <1>5, <1>l, <1>a DEF OpportunityInv, OpportunityTypeOK
  <1>7. ActionFitsStage'
    BY <1>1, <1>5 DEF OpportunityInv, ActionFitsStage, AdviceFits
  <1>8. row'.there
    BY <1>1, <1>5 DEF OpportunityInv
  <1>9. \A r \in Editors :
           editor'[r].busy => row'.there /\ AdviceFits(editor[r].action, editor[r].stage)'
    BY <1>1, <1>2, <1>8 DEF OpportunityInv, AdviceFits, Resting
  <1>10. \A r \in Editors : editor'[r].busy /\ editor'[r].keeps => ReadOf(r)' \in audited'
    BY <1>2, <1>l DEF OpportunityInv, ReadOf, Resting
  <1> QED
    BY <1>1, <1>5, <1>6, <1>7, <1>8, <1>9, <1>10, <1>l DEF OpportunityInv

LEMMA OpenedKeeps ==
    ASSUME OpportunityInv, RecordTenderOpened
    PROVE  OpportunityInv'
  <1>1. row \in Row /\ row.opened \in 0..MaxOpens /\ row.opened < MaxOpens /\ MaxOpens \in Nat
        /\ row' = [row EXCEPT !.opened = @ + 1]
        /\ UNCHANGED <<tender, editor, edits, optedOut, audited>>
    BY RowFields, OpportunityAssumptions DEF OpportunityInv, OpportunityTypeOK, RecordTenderOpened
  <1>2. row.opened + 1 \in 0..MaxOpens
    BY <1>1
  <1>3. /\ row' \in Row /\ row'.opened = row.opened + 1 /\ row'.stage = row.stage
        /\ row'.action = row.action /\ row'.there = row.there /\ row'.owner = row.owner
    BY <1>1, <1>2 DEF Row
  <1>4. opensLogged' = 1
    BY <1>1 DEF OpportunityInv, RecordTenderOpened
  <1>5. opensLogged' \in 0..MaxOpens /\ opensLogged' = IF row'.opened = 0 THEN 0 ELSE 1
    BY <1>1, <1>3, <1>4
  <1>6. LogKnowsRow'
    BY <1>1, <1>3 DEF OpportunityInv, LogKnowsRow, Audited
  <1> QED
    BY <1>1, <1>3, <1>5, <1>6
    DEF OpportunityInv, OpportunityTypeOK, ActionFitsStage, AdviceFits, ReadOf

LEMMA DueDatePassesKeeps ==
    ASSUME OpportunityInv, DueDatePasses
    PROVE  OpportunityInv'
  <1>1. row \in Row /\ editor \in [Editors -> {Resting} \cup Editing]
        /\ UNCHANGED <<tender, opensLogged, edits, optedOut, audited>>
    BY DEF OpportunityInv, OpportunityTypeOK, DueDatePasses
  <1>2. \A d \in DueDates : Passed(d) \in DueDates
    BY DEF Passed, DueDates
  <1>3. row' = [row EXCEPT !.due = Passed(@)]
    BY DEF DueDatePasses
  <1>4. /\ row' \in Row /\ row'.stage = row.stage /\ row'.action = row.action
        /\ row'.there = row.there /\ row'.opened = row.opened /\ row'.owner = row.owner
    BY <1>1, <1>2, <1>3 DEF Row
  <1>5. \A q \in Editors :
           /\ editor'[q] \in {Resting} \cup Editing
           /\ editor'[q].busy => /\ editor[q].busy /\ editor'[q].stage = editor[q].stage
                                 /\ editor'[q].action = editor[q].action
                                 /\ editor'[q].keeps = editor[q].keeps
                                 /\ editor'[q].held = editor[q].held
    <2> TAKE q \in Editors
    <2>1. CASE ~editor[q].busy
      BY <2>1 DEF DueDatePasses, Resting
    <2>2. CASE editor[q].busy
      <3>1. editor[q] \in Editing /\ editor'[q] = [editor[q] EXCEPT !.due = Passed(@)]
        BY <1>1, <2>2, EditorFields DEF DueDatePasses
      <3> QED
        BY <1>2, <2>2, <3>1 DEF Editing
    <2> QED
      BY <2>1, <2>2
  <1>6. editor' = [q \in Editors |-> editor'[q]]
    BY DEF DueDatePasses
  <1>7. editor' \in [Editors -> {Resting} \cup Editing]
    BY <1>5, <1>6
  <1>8. OpportunityTypeOK'
    BY <1>1, <1>4, <1>7 DEF OpportunityInv, OpportunityTypeOK
  <1>9. \A q \in Editors :
           editor'[q].busy => row'.there /\ AdviceFits(editor[q].action, editor[q].stage)'
    BY <1>1, <1>4, <1>5 DEF OpportunityInv, AdviceFits
  <1>10. LogKnowsRow'
    BY <1>1, <1>4 DEF OpportunityInv, LogKnowsRow, Audited
  <1>11. \A q \in Editors : editor'[q].busy /\ editor'[q].keeps => ReadOf(q)' \in audited'
    BY <1>1, <1>5 DEF OpportunityInv, ReadOf
  <1> QED
    BY <1>1, <1>4, <1>8, <1>9, <1>10, <1>11 DEF OpportunityInv, ActionFitsStage

LEMMA OpportunityStep ==
    ASSUME OpportunityInv, [OpportunityNext]_opportunityVars
    PROVE  OpportunityInv'
  <1>1. ASSUME NEW c \in {"low", "high"}, Match(c) PROVE OpportunityInv'
    BY <1>1, MatchKeeps
  <1>2. ASSUME NEW q \in Editors, NEW ask \in Asks, EditRead(q, ask) PROVE OpportunityInv'
    BY <1>2, EditReadKeeps
  <1>3. ASSUME NEW q \in Editors, EditCommit(q) \/ EditFails(q) PROVE OpportunityInv'
    BY <1>3, EditEndsKeeps
  <1>4. CASE RecordTenderOpened
    BY <1>4, OpenedKeeps
  <1>5. CASE TenderChanges
    BY <1>5 DEF TenderChanges, OpportunityInv, OpportunityTypeOK, ActionFitsStage, AdviceFits,
                LogKnowsRow, ReadOf
  <1>6. CASE DueDatePasses
    BY <1>6, DueDatePassesKeeps
  <1>7. CASE UNCHANGED opportunityVars
    BY <1>7 DEF opportunityVars, OpportunityInv, OpportunityTypeOK, ActionFitsStage, AdviceFits,
                LogKnowsRow, ReadOf
  <1> QED
    BY <1>1, <1>2, <1>3, <1>4, <1>5, <1>6, <1>7 DEF OpportunityNext

LEMMA OpportunityInvariance == OpportunitySpec => []OpportunityInv
  BY OpportunityInitInv, OpportunityStep, PTL DEF OpportunitySpec

\* The row, the tender, the audit entries and the edits in flight stay in their
\* sets.
THEOREM OpportunityTypeCorrect == OpportunitySpec => []OpportunityTypeOK
  <1>1. OpportunityInv => OpportunityTypeOK
    BY DEF OpportunityInv
  <1> QED
    BY OpportunityInvariance, <1>1, PTL

\* The audit log tells every state an opportunity is in, although an edit decides
\* whether to write an entry by a row it read earlier.
THEOREM LogTellsEveryState == OpportunitySpec => []LogKnowsRow
  <1>1. OpportunityInv => LogKnowsRow
    BY DEF OpportunityInv
  <1> QED
    BY OpportunityInvariance, <1>1, PTL

-----------------------------------------------------------------------------
\* A stated restriction caps the score the tender would have without it.
LEMMA ScoreIsCapped ==
    ASSUME NEW signals, FitScore(signals, FALSE) \in 0..100
    PROVE  FitScore(signals, TRUE) =
               IF FitScore(signals, FALSE) > 20 THEN 20 ELSE FitScore(signals, FALSE)
  <1> DEFINE percent == ScorePercent(signals)
  <1>1. /\ FitScore(signals, FALSE) = percent
        /\ FitScore(signals, TRUE) =
              IF percent # Unknown /\ percent > 20 THEN 20 ELSE percent
    BY DEF FitScore
  <1> HIDE DEF percent
  <1>2. percent \in 0..100
    BY <1>1
  <1>3. percent # Unknown
    BY <1>2 DEF Unknown
  <1> QED
    BY <1>1, <1>3

\* A better match never scores less and a deadline that passes never scores
\* more, with a restriction as without one.
LEMMA CappedScoreIsFair ==
    ASSUME NEW c \in {"low", "medium", "high"}, NEW d \in Int, NEW known \in BOOLEAN,
           NEW winners \in Nat, NEW restricted \in BOOLEAN
    PROVE  LET score(b, e) == FitScore(Signals(b, e, known, winners), restricted)
           IN /\ score(c, d) \in IF restricted THEN 0..20 ELSE 0..100
              /\ score("low", d) <= score(c, d)
              /\ d # Unknown => score(c, -1) <= score(c, d)
  <1> DEFINE plain(b, e) == FitScore(Signals(b, e, known, winners), FALSE)
             gated(b, e) == FitScore(Signals(b, e, known, winners), TRUE)
  <1>1. \A b \in {"low", "medium", "high"}, e \in Int :
           /\ plain(b, e) \in 0..100 /\ gated(b, e) \in 0..20
           /\ gated(b, e) = IF plain(b, e) > 20 THEN 20 ELSE plain(b, e)
    <2> TAKE b \in {"low", "medium", "high"}, e \in Int
    <2>1. plain(b, e) \in 0..100 /\ gated(b, e) \in 0..20
      BY ScoreIsBounded, ZenonT(60)
    <2>2. gated(b, e) = IF plain(b, e) > 20 THEN 20 ELSE plain(b, e)
      BY <2>1, ScoreIsCapped, ZenonT(60)
    <2> QED
      BY <2>1, <2>2
  <1>2. plain("low", d) <= plain(c, d) /\ (d # Unknown => plain(c, -1) <= plain(c, d))
    BY ScoreIsFair
  <1> HIDE DEF plain, gated
  <1>3. /\ plain("low", d) \in 0..100 /\ plain(c, d) \in 0..100 /\ plain(c, -1) \in 0..100
        /\ gated("low", d) = IF plain("low", d) > 20 THEN 20 ELSE plain("low", d)
        /\ gated(c, d) = IF plain(c, d) > 20 THEN 20 ELSE plain(c, d)
        /\ gated(c, -1) = IF plain(c, -1) > 20 THEN 20 ELSE plain(c, -1)
        /\ gated(c, d) \in 0..20
    BY <1>1
  <1>g. gated("low", d) <= gated(c, d) /\ (d # Unknown => gated(c, -1) <= gated(c, d))
    BY <1>2, <1>3
  <1>4. CASE restricted = FALSE
    BY <1>2, <1>3, <1>4 DEF plain
  <1>5. CASE restricted = TRUE
    BY <1>3, <1>g, <1>5 DEF gated
  <1> QED
    BY <1>4, <1>5

LEMMA InvGivesScore == OpportunityInv => ScoreFitsRow
  <1> SUFFICES ASSUME OpportunityInv, row.there, NEW known \in BOOLEAN, NEW winners \in {0, 1, 4, 5}
               PROVE  LET score(c, d) == FitScore(Signals(c, d, known, winners), Restricted)
                          shown == score(row.confidence, tender.days)
                      IN /\ shown \in IF Restricted THEN 0..20 ELSE 0..100
                         /\ score("low", tender.days) <= shown
                         /\ tender.days # Unknown => score(row.confidence, -1) <= shown
    BY DEF ScoreFitsRow
  <1>1. row.confidence \in {"low", "medium", "high"} /\ tender.days \in Int /\ winners \in Nat
    BY RowFields, OpportunityAssumptions DEF OpportunityInv, OpportunityTypeOK
  <1>2. Restricted \in BOOLEAN
    BY DEF Restricted
  <1> DEFINE Fair(c, d, k, w, r) ==
                LET score(b, e) == FitScore(Signals(b, e, k, w), r)
                IN /\ score(c, d) \in IF r THEN 0..20 ELSE 0..100
                   /\ score("low", d) <= score(c, d)
                   /\ d # Unknown => score(c, -1) <= score(c, d)
  <1>3. \A c \in {"low", "medium", "high"}, d \in Int, k \in BOOLEAN, w \in Nat, r \in BOOLEAN :
           Fair(c, d, k, w, r)
    BY CappedScoreIsFair
  <1> HIDE DEF Fair
  <1>4. Fair(row.confidence, tender.days, known, winners, Restricted)
    BY <1>1, <1>2, <1>3
  <1> QED
    BY <1>4 DEF Fair

\* The next action and the score shown with an opportunity fit it, whatever
\* edits overlap and whatever becomes of the tender meanwhile: every part of the
\* action is one suggest_next_action gives for the stage (unless a user opted
\* out), the score a percentage that a stated restriction caps.
THEOREM AdviceAlwaysFits == OpportunitySpec => []AdviceFitsRow
  <1>1. OpportunityInv => AdviceFitsRow
    BY InvGivesScore DEF OpportunityInv, AdviceFitsRow
  <1> QED
    BY OpportunityInvariance, <1>1, PTL
=============================================================================
