---------------------------- MODULE Feeds_proofs ----------------------------
(***************************************************************************)
(* Theorems about module Feeds: the rows of the ten sources keep their     *)
(* types and follow what was last read of their record, whatever a source  *)
(* publishes and however its runs are late or miss a page.                 *)
(***************************************************************************)
EXTENDS Feeds, TLAPS

\* What two sources leave alone in every update: the rows of AusTender have one
\* stage only, those of Find a Tender no deadline.  Without this a later update
\* would not be known to keep them right.
LeftAloneIsRight ==
    /\ source = "australia" => rowStage \in {NoRow, "contract_awarded"}
    /\ source = "uk_find_a_tender" => rowCloses = NoDate

FeedsInv == FeedsTypeOK /\ LeftAloneIsRight /\ RowsFollowSource

Reads(n) ==
    /\ n.winner \in BOOLEAN /\ n.relevant \in BOOLEAN /\ n.closes \in {NoDate, 1, 2}

\* A notice the source's relevance tests let through
LetThrough(n) == n.relevant \/ source \in {"sam_gov", "ted_eu"}

\* What a run has to store for a notice it does not pass over
Storable(n, stage, closes, winner) ==
    /\ stage \in FeedStages /\ closes \in {NoDate, 1, 2} /\ winner \in BOOLEAN
    /\ source = "australia" => stage = "contract_awarded"
    /\ source = "uk_find_a_tender" => closes = NoDate
    /\ LetThrough(n) /\ Decided(n) => stage = "contract_awarded" /\ (n.winner => winner)
    /\ LetThrough(n) /\ TakesBids(n) => stage = "rfp_issued"
    /\ LetThrough(n) /\ TakesBids(n) /\ source # "prozorro" =>
           closes = n.closes \/ (source = "paraguay" /\ n.closes = NoDate)

-----------------------------------------------------------------------------
LEMMA InitHolds == FeedsInit => FeedsInv
  <1> SUFFICES ASSUME FeedsInit PROVE FeedsInv
    OBVIOUS
  <1>1. lastRead.status = "unread" /\ lastRead.beside = "-"
    BY DEF FeedsInit, Unread
  <1>2. ~Decided(lastRead) /\ ~TakesBids(lastRead)
    BY <1>1 DEF Decided, TakesBids, CalledOff
  <1>3. FeedsTypeOK /\ LeftAloneIsRight
    BY DEF FeedsInit, FeedsTypeOK, LeftAloneIsRight, NoDate
  <1> QED
    BY <1>2, <1>3 DEF FeedsInv, RowsFollowSource, DecidedIsClosed, BidsAreShown,
                      ExtensionsAreSeen

\* A row that is written follows the notice it was written from.
LEMMA WriteFollows ==
    ASSUME NEW n, NEW stage, NEW closes, NEW winner,
           FeedsInv, Writes(n, stage, closes, winner), Storable(n, stage, closes, winner)
    PROVE  FeedsInv'
  <1>1. FeedsTypeOK' /\ LeftAloneIsRight'
    BY DEF FeedsInv, FeedsTypeOK, LeftAloneIsRight, Writes, Storable
  <1>2. (Covered' <=> LetThrough(n)) /\ (Decided(lastRead)' <=> Decided(n))
        /\ (TakesBids(lastRead)' <=> TakesBids(n))
    BY DEF Writes, Covered, LetThrough, Decided, TakesBids, CalledOff
  <1>3. DecidedIsClosed' /\ BidsAreShown' /\ ExtensionsAreSeen'
    BY <1>2 DEF Writes, Storable, DecidedIsClosed, BidsAreShown, ExtensionsAreSeen
  <1> QED
    BY <1>1, <1>3 DEF FeedsInv, RowsFollowSource

\* A row that is left alone is not behind a notice that was not to be kept.
LEMMA PassingFollows ==
    ASSUME NEW n, FeedsInv, PassesOver(n),
           ~(LetThrough(n) /\ (Decided(n) \/ TakesBids(n)))
    PROVE  FeedsInv'
  <1>1. FeedsTypeOK' /\ LeftAloneIsRight'
    BY DEF FeedsInv, FeedsTypeOK, LeftAloneIsRight, PassesOver
  <1>2. (Covered' <=> LetThrough(n)) /\ (Decided(lastRead)' <=> Decided(n))
        /\ (TakesBids(lastRead)' <=> TakesBids(n))
    BY DEF PassesOver, Covered, LetThrough, Decided, TakesBids, CalledOff
  <1>3. DecidedIsClosed' /\ BidsAreShown' /\ ExtensionsAreSeen'
    BY <1>2 DEF DecidedIsClosed, BidsAreShown, ExtensionsAreSeen
  <1> QED
    BY <1>1, <1>3 DEF FeedsInv, RowsFollowSource

-----------------------------------------------------------------------------
\* One lemma per source: its normaliser's stage fits every notice it keeps, and
\* what it passes over is neither decided nor open for bids.
LEMMA SamKeeps == FeedsInv /\ SamRun => FeedsInv'
  <1> SUFFICES ASSUME FeedsInv, source = "sam_gov", NEW n \in SamNotices,
                      Writes(n, SamStage(n), n.closes, n.winner)
               PROVE  FeedsInv'
    BY DEF SamRun
  <1>1. n \in Notice(SamTypes, Plain) /\ (n.winner => n.status \in {"Award Notice", "Justification"})
    BY DEF SamNotices
  <1>2. Reads(n) /\ n.status \in SamTypes /\ n.beside \in Plain
    BY <1>1 DEF Notice, Reads, NoDate, SamTypes, Plain
  <1>3. Storable(n, SamStage(n), n.closes, n.winner)
    BY <1>1, <1>2 DEF Storable, LetThrough, Decided, TakesBids, CalledOff, Reads, FeedStages,
                      SamStage, SamTypes, Plain
  <1> QED
    BY <1>3, WriteFollows

LEMMA TedKeeps == FeedsInv /\ TedRun => FeedsInv'
  <1> SUFFICES ASSUME FeedsInv, source = "ted_eu", NEW n \in TedNotices,
                      Writes(n, TedStage(n), n.closes, n.winner)
               PROVE  FeedsInv'
    BY DEF TedRun
  <1>1. n \in Notice(TedTypes, Plain) /\ (n.winner => n.status \in {"can-standard", "can-modif"})
    BY DEF TedNotices
  <1>2. Reads(n) /\ n.status \in TedTypes /\ n.beside \in Plain
    BY <1>1 DEF Notice, Reads, NoDate, TedTypes, Plain
  <1>3. Storable(n, TedStage(n), n.closes, n.winner)
    BY <1>1, <1>2 DEF Storable, LetThrough, Decided, TakesBids, CalledOff, Reads, FeedStages,
                      TedStage, TedTypes, Plain
  <1> QED
    BY <1>3, WriteFollows

LEMMA UkKeeps == FeedsInv /\ UkRun => FeedsInv'
  <1> SUFFICES ASSUME FeedsInv, source = "uk_find_a_tender", NEW n \in UkNotices,
                      IF UkStage(n) = Skipped THEN PassesOver(n)
                      ELSE Writes(n, UkStage(n), rowCloses, n.winner)
               PROVE  FeedsInv'
    BY DEF UkRun
  <1>1. n \in Notice(UkTags, Plain) /\ n.closes = NoDate
    BY DEF UkNotices
  <1>2. Reads(n) /\ n.status \in UkTags /\ n.beside \in Plain
    BY <1>1 DEF Notice, Reads, NoDate, UkTags, Plain
  <1>3. CASE UkStage(n) = Skipped
    <2>1. ~(LetThrough(n) /\ (Decided(n) \/ TakesBids(n)))
      BY <1>2, <1>3 DEF LetThrough, Decided, TakesBids, CalledOff, Skipped, UkStage, UkTags,
                        Plain
    <2> QED
      BY <1>3, <2>1, PassingFollows
  <1>4. CASE ~(UkStage(n) = Skipped)
    <2>1. Storable(n, UkStage(n), rowCloses, n.winner)
      BY <1>1, <1>2, <1>4 DEF Storable, LetThrough, Decided, TakesBids, CalledOff, Reads,
                              FeedStages, Skipped, FeedsInv, FeedsTypeOK, NoRow,
             NoDate, LeftAloneIsRight, UkStage, UkTags, Plain
    <2> QED
      BY <1>4, <2>1, WriteFollows
  <1> QED
    BY <1>3, <1>4

LEMMA AustraliaKeeps == FeedsInv /\ AustraliaRun => FeedsInv'
  <1> SUFFICES ASSUME FeedsInv, source = "australia", NEW n \in AustraliaNotices,
                      IF ~AustraliaKept(n) THEN PassesOver(n)
                      ELSE Writes(n, IF rowStage = NoRow THEN "contract_awarded" ELSE rowStage, rowCloses, n.winner)
               PROVE  FeedsInv'
    BY DEF AustraliaRun
  <1>1. n \in Notice({"contract", "no contract"}, Plain)
    BY DEF AustraliaNotices
  <1>2. Reads(n) /\ n.status \in {"contract", "no contract"} /\ n.beside \in Plain
    BY <1>1 DEF Notice, Reads, NoDate, Plain
  <1>3. CASE ~AustraliaKept(n)
    <2>1. ~(LetThrough(n) /\ (Decided(n) \/ TakesBids(n)))
      BY <1>2, <1>3 DEF LetThrough, Decided, TakesBids, CalledOff, Skipped, AustraliaKept, Plain
    <2> QED
      BY <1>3, <2>1, PassingFollows
  <1>4. CASE ~(~AustraliaKept(n))
    <2>1. Storable(n, IF rowStage = NoRow THEN "contract_awarded" ELSE rowStage, rowCloses, n.winner)
      BY <1>1, <1>2, <1>4 DEF Storable, LetThrough, Decided, TakesBids, CalledOff, Reads,
                              FeedStages, Skipped, FeedsInv, FeedsTypeOK, NoRow,
             NoDate, LeftAloneIsRight, AustraliaKept, Plain
    <2> QED
      BY <1>4, <2>1, WriteFollows
  <1> QED
    BY <1>3, <1>4

LEMMA ProzorroKeeps == FeedsInv /\ ProzorroRun => FeedsInv'
  <1> SUFFICES ASSUME FeedsInv, source = "prozorro", NEW n \in ProzorroNotices,
                      IF ProzorroStage(n) = Skipped THEN PassesOver(n)
                      ELSE Writes(n, ProzorroStage(n), IF rowStage = NoRow THEN n.closes ELSE rowCloses, n.winner)
               PROVE  FeedsInv'
    BY DEF ProzorroRun
  <1>1. n \in Notice(ProzorroStatuses, Plain)
    BY DEF ProzorroNotices
  <1>2. Reads(n) /\ n.status \in ProzorroStatuses /\ n.beside \in Plain
    BY <1>1 DEF Notice, Reads, NoDate, ProzorroStatuses, Plain
  <1>3. CASE ProzorroStage(n) = Skipped
    <2>1. ~(LetThrough(n) /\ (Decided(n) \/ TakesBids(n)))
      BY <1>2, <1>3 DEF LetThrough, Decided, TakesBids, CalledOff, Skipped, ProzorroStage,
                        ProzorroStatuses, Plain
    <2> QED
      BY <1>3, <2>1, PassingFollows
  <1>4. CASE ~(ProzorroStage(n) = Skipped)
    <2>1. Storable(n, ProzorroStage(n), IF rowStage = NoRow THEN n.closes ELSE rowCloses, n.winner)
      BY <1>1, <1>2, <1>4 DEF Storable, LetThrough, Decided, TakesBids, CalledOff, Reads,
                              FeedStages, Skipped, FeedsInv, FeedsTypeOK, NoRow,
             NoDate, LeftAloneIsRight, ProzorroStage, ProzorroStatuses, Plain
    <2> QED
      BY <1>4, <2>1, WriteFollows
  <1> QED
    BY <1>3, <1>4

LEMMA SouthAfricaKeeps == FeedsInv /\ SouthAfricaRun => FeedsInv'
  <1> SUFFICES ASSUME FeedsInv, source = "south_africa", NEW n \in SouthAfricaNotices,
                      IF SouthAfricaStage(n) = Skipped THEN PassesOver(n)
                      ELSE Writes(n, SouthAfricaStage(n), n.closes, FALSE)
               PROVE  FeedsInv'
    BY DEF SouthAfricaRun
  <1>1. n \in Notice(SouthAfricaStatuses, Plain) /\ ~n.winner
    BY DEF SouthAfricaNotices
  <1>2. Reads(n) /\ n.status \in SouthAfricaStatuses /\ n.beside \in Plain
    BY <1>1 DEF Notice, Reads, NoDate, SouthAfricaStatuses, Plain
  <1>3. CASE SouthAfricaStage(n) = Skipped
    <2>1. ~(LetThrough(n) /\ (Decided(n) \/ TakesBids(n)))
      BY <1>2, <1>3 DEF LetThrough, Decided, TakesBids, CalledOff, Skipped, SouthAfricaStage,
                        SouthAfricaStatuses, Plain
    <2> QED
      BY <1>3, <2>1, PassingFollows
  <1>4. CASE ~(SouthAfricaStage(n) = Skipped)
    <2>1. Storable(n, SouthAfricaStage(n), n.closes, FALSE)
      BY <1>1, <1>2, <1>4 DEF Storable, LetThrough, Decided, TakesBids, CalledOff, Reads,
                              FeedStages, Skipped, FeedsInv, FeedsTypeOK, NoRow,
             NoDate, LeftAloneIsRight, SouthAfricaStage, SouthAfricaStatuses, Plain
    <2> QED
      BY <1>4, <2>1, WriteFollows
  <1> QED
    BY <1>3, <1>4

LEMMA ColombiaKeeps == FeedsInv /\ ColombiaRun => FeedsInv'
  <1> SUFFICES ASSUME FeedsInv, source = "colombia", NEW n \in ColombiaNotices,
                      IF ColombiaStage(n) = Skipped THEN PassesOver(n)
                      ELSE Writes(n, ColombiaStage(n), n.closes, (n.winner /\ Adjudicado(n)))
               PROVE  FeedsInv'
    BY DEF ColombiaRun
  <1>1. n \in Notice(ColombiaStatuses, (ColombiaPhases \cup {"adjudicado, offers phase", "adjudicado"})) /\ (n.winner => n.beside \notin ColombiaPhases)
    BY DEF ColombiaNotices
  <1>2. Reads(n) /\ n.status \in ColombiaStatuses /\ n.beside \in (ColombiaPhases \cup {"adjudicado, offers phase", "adjudicado"})
    BY <1>1 DEF Notice, Reads, NoDate, ColombiaStatuses
  <1>3. CASE ColombiaStage(n) = Skipped
    <2>1. ~(LetThrough(n) /\ (Decided(n) \/ TakesBids(n)))
      BY <1>2, <1>3 DEF LetThrough, Decided, TakesBids, CalledOff, Skipped, ColombiaStage,
                        PhaseStage, Adjudicado, ColombiaPhases, ColombiaStatuses
    <2> QED
      BY <1>3, <2>1, PassingFollows
  <1>4. CASE ~(ColombiaStage(n) = Skipped)
    <2> DEFINE kept == n.winner /\ Adjudicado(n)
    <2>1. kept \in BOOLEAN
      OBVIOUS
    <2>2. Decided(n) /\ n.winner => kept
      BY <1>1, <1>2 DEF Decided, Adjudicado, ColombiaStatuses, ColombiaPhases
    <2>3. ColombiaStage(n) \in FeedStages
          /\ (Decided(n) => ColombiaStage(n) = "contract_awarded")
          /\ (TakesBids(n) => ColombiaStage(n) = "rfp_issued")
      <3>1. n.relevant /\ n.status # "Cancelado"
        BY <1>2, <1>4 DEF ColombiaStage, Skipped, Reads
      <3>2. CASE Adjudicado(n)
        <4>1. ColombiaStage(n) = "contract_awarded"
          BY <3>1, <3>2 DEF ColombiaStage
        <4>2. ~TakesBids(n)
          BY <1>2, <3>1, <3>2 DEF TakesBids, Decided, CalledOff, Adjudicado, ColombiaStatuses
        <4> QED
          BY <4>1, <4>2 DEF FeedStages
      <3>3. CASE ~Adjudicado(n)
        <4>1. ColombiaStage(n) = PhaseStage(n)
          BY <3>1, <3>3 DEF ColombiaStage
        <4>2. n.beside \in ColombiaPhases
          BY <1>2, <3>3 DEF Adjudicado
        <4>3. PhaseStage(n) \in FeedStages
          BY <1>2, <3>1, <4>2 DEF PhaseStage, FeedStages, ColombiaStatuses, ColombiaPhases
        <4>4. ~Decided(n)
          BY <1>2, <4>2 DEF Decided, ColombiaStatuses, ColombiaPhases
        <4>5. TakesBids(n) => PhaseStage(n) = "rfp_issued"
          BY <1>2, <4>2 DEF TakesBids, PhaseStage, ColombiaStatuses, ColombiaPhases
        <4> QED
          BY <4>1, <4>3, <4>4, <4>5
      <3> QED
        BY <3>2, <3>3
    <2> HIDE DEF kept
    <2>4. Storable(n, ColombiaStage(n), n.closes, kept)
      BY <1>2, <2>1, <2>2, <2>3 DEF Storable, Reads
    <2> QED
      BY <1>4, <2>4, WriteFollows DEF kept
  <1> QED
    BY <1>3, <1>4

LEMMA ParaguayKeeps == FeedsInv /\ ParaguayRun => FeedsInv'
  <1> SUFFICES ASSUME FeedsInv, source = "paraguay", NEW n \in ParaguayNotices,
                      IF ParaguayStage(n) = Skipped THEN PassesOver(n)
                      ELSE Writes(n, ParaguayStage(n), (IF n.closes = NoDate THEN rowCloses ELSE n.closes), n.winner)
               PROVE  FeedsInv'
    BY DEF ParaguayRun
  <1>1. n \in Notice(ParaguayStatuses, {"active", "complete"})
    BY DEF ParaguayNotices
  <1>2. Reads(n) /\ n.status \in ParaguayStatuses /\ n.beside \in {"active", "complete"}
    BY <1>1 DEF Notice, Reads, NoDate, ParaguayStatuses
  <1>3. CASE ParaguayStage(n) = Skipped
    <2>1. ~(LetThrough(n) /\ (Decided(n) \/ TakesBids(n)))
      BY <1>2, <1>3 DEF LetThrough, Decided, TakesBids, CalledOff, Skipped, ParaguayStage,
                        ParaguayStatuses
    <2> QED
      BY <1>3, <2>1, PassingFollows
  <1>4. CASE ~(ParaguayStage(n) = Skipped)
    <2>1. Storable(n, ParaguayStage(n), (IF n.closes = NoDate THEN rowCloses ELSE n.closes), n.winner)
      BY <1>1, <1>2, <1>4 DEF Storable, LetThrough, Decided, TakesBids, CalledOff, Reads,
                              FeedStages, Skipped, FeedsInv, FeedsTypeOK, NoRow,
             NoDate, LeftAloneIsRight, ParaguayStage, ParaguayStatuses
    <2> QED
      BY <1>4, <2>1, WriteFollows
  <1> QED
    BY <1>3, <1>4

LEMMA CpppKeeps == FeedsInv /\ CpppRun => FeedsInv'
  <1> SUFFICES ASSUME FeedsInv, source = "cppp_india", NEW n \in CpppNotices,
                      IF CpppStage(n) = Skipped THEN PassesOver(n)
                      ELSE Writes(n, CpppStage(n), n.closes, FALSE)
               PROVE  FeedsInv'
    BY DEF CpppRun
  <1>1. n \in Notice({"listed"}, Plain) /\ ~n.winner
    BY DEF CpppNotices
  <1>2. Reads(n) /\ n.status \in {"listed"} /\ n.beside \in Plain
    BY <1>1 DEF Notice, Reads, NoDate, Plain
  <1>3. CASE CpppStage(n) = Skipped
    <2>1. ~(LetThrough(n) /\ (Decided(n) \/ TakesBids(n)))
      BY <1>2, <1>3 DEF LetThrough, Decided, TakesBids, CalledOff, Skipped, CpppStage, Plain
    <2> QED
      BY <1>3, <2>1, PassingFollows
  <1>4. CASE ~(CpppStage(n) = Skipped)
    <2>1. Storable(n, CpppStage(n), n.closes, FALSE)
      BY <1>1, <1>2, <1>4 DEF Storable, LetThrough, Decided, TakesBids, CalledOff, Reads,
                              FeedStages, Skipped, FeedsInv, FeedsTypeOK, NoRow,
             NoDate, LeftAloneIsRight, CpppStage, Plain
    <2> QED
      BY <1>4, <2>1, WriteFollows
  <1> QED
    BY <1>3, <1>4

LEMMA CanadaKeeps == FeedsInv /\ CanadaRun => FeedsInv'
  <1> SUFFICES ASSUME FeedsInv, CanadaRun PROVE FeedsInv'
    OBVIOUS
  <1>0. PICK n \in CanadaNotices :
          \/ CanadaStage(n) = Skipped /\ ~CanadaAwarded(n) /\ PassesOver(n)
          \/ CanadaStage(n) # Skipped /\ ~CanadaAwarded(n)
             /\ Writes(n, CanadaStage(n), n.closes, FALSE)
          \/ CanadaStage(n) = Skipped /\ CanadaAwarded(n)
             /\ Writes(n, "contract_awarded", rowCloses, n.winner)
          \/ CanadaStage(n) # Skipped /\ CanadaAwarded(n)
             /\ Writes(n, "contract_awarded", n.closes, n.winner)
    BY DEF CanadaRun
  <1>1. n \in Notice(CanadaTypes, CanadaAwards)
        /\ (n.status = "not in the file" => n.beside # "no award")
    BY DEF CanadaNotices
  <1>2. Reads(n) /\ n.status \in CanadaTypes /\ n.beside \in CanadaAwards
    BY <1>1 DEF Notice, Reads, NoDate, CanadaTypes, CanadaAwards
  <1>3. source = "canada_buys"
    BY DEF CanadaRun
  <1>4. CASE CanadaStage(n) = Skipped /\ ~CanadaAwarded(n) /\ PassesOver(n)
    <2>1. ~(LetThrough(n) /\ (Decided(n) \/ TakesBids(n)))
      BY <1>2, <1>3, <1>4 DEF LetThrough, Decided, TakesBids, CalledOff, Skipped, CanadaStage,
             CanadaAwarded, CanadaTypes, CanadaAwards
    <2> QED
      BY <1>4, <2>1, PassingFollows
  <1>5. CASE CanadaStage(n) # Skipped /\ ~CanadaAwarded(n)
             /\ Writes(n, CanadaStage(n), n.closes, FALSE)
    <2>1. Storable(n, CanadaStage(n), n.closes, FALSE)
      BY <1>2, <1>3, <1>5 DEF Storable, LetThrough, Decided, TakesBids, CalledOff, Reads,
                              FeedStages,
             Skipped, CanadaStage, CanadaAwarded, CanadaTypes, CanadaAwards
    <2> QED
      BY <1>5, <2>1, WriteFollows
  <1>6. CASE CanadaStage(n) = Skipped /\ CanadaAwarded(n)
             /\ Writes(n, "contract_awarded", rowCloses, n.winner)
    <2>1. Storable(n, "contract_awarded", rowCloses, n.winner)
      BY <1>2, <1>3, <1>6 DEF Storable, LetThrough, Decided, TakesBids, Reads, FeedStages,
                              CanadaAwarded,
             CanadaAwards, CanadaTypes, CalledOff, FeedsInv, FeedsTypeOK
    <2> QED
      BY <1>6, <2>1, WriteFollows
  <1>7. CASE CanadaStage(n) # Skipped /\ CanadaAwarded(n)
             /\ Writes(n, "contract_awarded", n.closes, n.winner)
    <2>1. Storable(n, "contract_awarded", n.closes, n.winner)
      BY <1>2, <1>3, <1>7 DEF Storable, LetThrough, Decided, TakesBids, Reads, FeedStages,
                              CanadaAwarded,
             CanadaAwards, CanadaTypes, CalledOff
    <2> QED
      BY <1>7, <2>1, WriteFollows
  <1> QED
    BY <1>0, <1>4, <1>5, <1>6, <1>7

-----------------------------------------------------------------------------
LEMMA StutterKeeps == FeedsInv /\ UNCHANGED feedVars => FeedsInv'
  <1> SUFFICES ASSUME FeedsInv, UNCHANGED feedVars PROVE FeedsInv'
    OBVIOUS
  <1> USE DEF feedVars
  <1>1. FeedsTypeOK' /\ LeftAloneIsRight'
    BY DEF FeedsInv, FeedsTypeOK, LeftAloneIsRight
  <1>2. (Covered' <=> Covered) /\ (Decided(lastRead)' <=> Decided(lastRead))
        /\ (TakesBids(lastRead)' <=> TakesBids(lastRead))
    BY DEF Covered, Decided, TakesBids, CalledOff
  <1>3. DecidedIsClosed' /\ BidsAreShown' /\ ExtensionsAreSeen'
    BY <1>2 DEF FeedsInv, RowsFollowSource, DecidedIsClosed, BidsAreShown, ExtensionsAreSeen
  <1> QED
    BY <1>1, <1>3 DEF FeedsInv, RowsFollowSource

LEMMA StepKeeps == FeedsInv /\ [FeedsNext]_feedVars => FeedsInv'
  BY SamKeeps, UkKeeps, TedKeeps, CanadaKeeps, AustraliaKeeps, ProzorroKeeps, SouthAfricaKeeps,
     ColombiaKeeps, ParaguayKeeps, CpppKeeps, StutterKeeps DEF FeedsNext

\* FeedsInv is inductive.
THEOREM FeedsInvariant == FeedsSpec => []FeedsInv
  BY InitHolds, StepKeeps, PTL DEF FeedsSpec

\* The rows have stages, dates and winners of their types after any number of
\* upserts of any source (the *_ingestion.py modules).
THEOREM FeedsTypeCorrect == FeedsSpec => []FeedsTypeOK
  <1>1. FeedsInv => FeedsTypeOK
    BY DEF FeedsInv
  <1> QED
    BY FeedsInvariant, <1>1, PTL

\* What is shown of a record is what its source said when it was last read: a
\* decided one is closed with its winner, one that takes bids is open with its
\* closing date (the _STAGE_MAP and _stage_for of the normalisers).  For the
\* sources that publish notices a record is the notice, not the tender.
THEOREM FeedsRowsFollowSource == FeedsSpec => []RowsFollowSource
  <1>1. FeedsInv => RowsFollowSource
    BY DEF FeedsInv
  <1> QED
    BY FeedsInvariant, <1>1, PTL
=============================================================================
