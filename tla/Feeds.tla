------------------------------- MODULE Feeds -------------------------------
(***************************************************************************)
(* One record of one source through its ingestion runs: what the source    *)
(* publishes under one external_ref, what normalize_batch makes of it, and *)
(* what "insert ... on conflict do update" leaves in the programme's row   *)
(* (src/api/app/*_normalize.py and *_ingestion.py).  A record is a tender  *)
(* with its changing status, or, for SAM.gov, Find a Tender and TED, one   *)
(* notice, whose type does not change: a later notice of the same tender   *)
(* has an external_ref and a row of its own.  The rows of a run do not     *)
(* touch each other and are committed together, and a run may have read    *)
(* anything the source has ever published: a run that is overtaken by a    *)
(* later one, or misses the page, is among the behaviours.  Jobs and       *)
(* cursors are in module IngestionRun.                                     *)
(***************************************************************************)
EXTENDS Integers

VARIABLES
    source,     \* the source of the record
    rowStage,   \* programmes.stage, NoRow
    rowCloses,  \* programmes.response_deadline
    winnerKept, \* the row has a contract_awards row
    lastRead    \* history: the notice as the last run that met it read it

feedVars == <<source, rowStage, rowCloses, winnerKept, lastRead>>

-----------------------------------------------------------------------------
NoRow == "no row"
Skipped == "skipped"
NoDate == 0
FeedStages == {"early_concept", "requirement_defined", "rfp_issued", "contract_awarded"}
Feeds == {"sam_gov", "uk_find_a_tender", "ted_eu", "canada_buys", "australia", "prozorro",
          "south_africa", "colombia", "paraguay", "cppp_india"}

\* A notice: its type or status in the source's words and, where the source has
\* one, the field beside it; whether a winner is named; the closing date; and
\* whether the source's relevance tests (buyer, code, title, kind of goods)
\* keep it.
Notice(statuses, besides) ==
    [status : statuses, beside : besides, winner : BOOLEAN, closes : {NoDate, 1, 2},
     relevant : BOOLEAN]
Plain == {"-"}
Unread == [status |-> "unread", beside |-> "-", winner |-> FALSE, closes |-> NoDate,
           relevant |-> FALSE]

SamTypes == {"Presolicitation", "Solicitation", "Award Notice", "Justification"}
UkTags == {"planning", "tender", "award", "no tag"}
TedTypes == {"pin-only", "cn-standard", "can-standard", "can-modif", "qu-sy"}
CanadaTypes == {"Request for Information", "Request for Proposal",
                "Advance Contract Award Notice", "not in the file"}
CanadaAwards == {"no award", "Active", "Cancelled"}
ProzorroStatuses == {"draft", "active.tendering", "active.qualification", "active",
                     "active.awarded", "complete", "cancelled", "unsuccessful"}
SouthAfricaStatuses == {"planned", "active", "complete", "cancelled", "unknown"}
ColombiaStatuses == {"Publicado", "Evaluacion", "Adjudicado", "Cancelado"}
ColombiaPhases == {"Presentacion de oferta", "Presentacion de observaciones", "other"}
ParaguayStatuses == {"Convocatoria Abierta", "En evaluacion", "Adjudicada", "Desierto"}

\* The award of SAM.gov's award object, of UK suppliers and of TED winner-name
\* comes with award notices; a Canadian one with a row of the award file.
SamNotices ==
    {n \in Notice(SamTypes, Plain) : n.winner => n.status \in {"Award Notice", "Justification"}}
UkNotices ==
    {n \in Notice(UkTags, Plain) : n.closes = NoDate /\ (n.winner => n.status = "award")}
TedNotices ==
    {n \in Notice(TedTypes, Plain) : n.winner => n.status \in {"can-standard", "can-modif"}}
\* The open-tenders file and the award file are fetched one after the other; a
\* file that cannot be fetched is read as one that does not list the tender.
CanadaNotices ==
    {n \in Notice(CanadaTypes, CanadaAwards) :
        /\ n.winner => n.beside # "no award"
        /\ n.status = "not in the file" => n.beside # "no award" /\ n.closes = NoDate}
AustraliaNotices ==
    {n \in Notice({"contract", "no contract"}, Plain) : n.closes = NoDate}
ProzorroNotices ==
    {n \in Notice(ProzorroStatuses, Plain) : n.winner => n.status \notin {"draft", "active.tendering"}}
SouthAfricaNotices == {n \in Notice(SouthAfricaStatuses, Plain) : ~n.winner}
\* beside: adjudicado, or else the phase
ColombiaNotices ==
    {n \in Notice(ColombiaStatuses, ColombiaPhases \cup {"adjudicado, offers phase", "adjudicado"}) :
        n.winner => n.beside \notin ColombiaPhases}
\* beside: the OCDS tender.status; some lots may have a winner while others are open
ParaguayNotices == Notice(ParaguayStatuses, {"active", "complete"})
CpppNotices == {n \in Notice({"listed"}, Plain) : ~n.winner}

-----------------------------------------------------------------------------
\* normalize_opportunity: no relevance test, the query asks for NAICS codes
SamStage(n) ==
    CASE n.status = "Presolicitation" -> "early_concept"
      [] n.status = "Solicitation" -> "rfp_issued"
      [] n.status = "Award Notice" -> "contract_awarded"
      [] OTHER -> "requirement_defined"

\* normalize_release of the first tag, kept when the CPV code is of defence
UkStage(n) ==
    CASE ~n.relevant -> Skipped
      [] n.relevant /\ n.status = "planning" -> "early_concept"
      [] n.relevant /\ n.status = "tender" -> "rfp_issued"
      [] n.relevant /\ n.status = "award" -> "contract_awarded"
      [] OTHER -> "requirement_defined"

\* normalize_ted_notice: the query asks for CPV 35
TedStage(n) ==
    CASE n.status = "pin-only" -> "early_concept"
      [] n.status = "cn-standard" -> "rfp_issued"
      [] n.status \in {"can-standard", "can-modif"} -> "contract_awarded"
      [] OTHER -> "requirement_defined"

\* normalize_batch of the open-tenders file; awards are the next operator's
CanadaStage(n) ==
    CASE ~n.relevant \/ n.status = "not in the file" -> Skipped
      [] n.relevant /\ n.status = "Request for Proposal" -> "rfp_issued"
      [] n.relevant /\ n.status = "Advance Contract Award Notice" -> "contract_awarded"
      [] OTHER -> "requirement_defined"

\* normalize_award_batch
CanadaAwarded(n) == n.relevant /\ n.beside = "Active"

\* normalize_release: a release without contracts is not one to ingest
AustraliaKept(n) == n.relevant /\ n.status = "contract"

\* normalize_tender_detail of a candidate, then is_relevant
ProzorroStage(n) ==
    CASE ~n.relevant \/ n.status \in {"cancelled", "unsuccessful"} -> Skipped
      [] n.relevant /\ n.status = "draft" -> "early_concept"
      [] n.relevant /\ n.status \in {"active.tendering", "active.qualification"} -> "rfp_issued"
      [] n.relevant /\ n.status \in {"active.awarded", "complete"} -> "contract_awarded"
      [] OTHER -> "requirement_defined"

\* normalize_batch: a status outside the map is skipped, as a failure if unknown
SouthAfricaStage(n) ==
    CASE n.relevant /\ n.status = "planned" -> "requirement_defined"
      [] n.relevant /\ n.status = "active" -> "rfp_issued"
      [] n.relevant /\ n.status = "complete" -> "contract_awarded"
      [] OTHER -> Skipped

\* adjudicado = "Si"
Adjudicado(n) == n.beside \in {"adjudicado", "adjudicado, offers phase"}

\* The phase is looked up before the status.
PhaseStage(n) ==
    IF n.beside \in {"Presentacion de oferta", "adjudicado, offers phase"} THEN "rfp_issued"
    ELSE IF n.beside = "Presentacion de observaciones" THEN "requirement_defined"
    ELSE IF n.status = "Adjudicado" THEN "contract_awarded"
    ELSE "rfp_issued"

\* Mutant: the phase is read before the award, as it once was.
ColombiaPhaseFirst(n) ==
    IF ~n.relevant \/ n.status = "Cancelado" THEN Skipped ELSE PhaseStage(n)

\* _stage_for, and the relevance tests of normalize_batch
ColombiaStage(n) ==
    CASE ~n.relevant \/ n.status = "Cancelado" -> Skipped
      [] n.relevant /\ n.status # "Cancelado" /\ Adjudicado(n) -> "contract_awarded"
      [] OTHER -> PhaseStage(n)

\* normalize_record
ParaguayStage(n) ==
    CASE ~n.relevant \/ n.status = "Desierto" -> Skipped
      [] n.relevant /\ (n.status = "Adjudicada" \/ (n.beside = "complete" /\ n.status # "Desierto"))
            -> "contract_awarded"
      [] n.relevant /\ n.status = "Convocatoria Abierta" /\ n.beside # "complete" -> "rfp_issued"
      [] OTHER -> "requirement_defined"

\* normalize_batch: what is listed is open
CpppStage(n) == IF n.relevant THEN "rfp_issued" ELSE Skipped

FeedsInit ==
    /\ source \in Feeds
    /\ rowStage = NoRow /\ rowCloses = NoDate
    /\ winnerKept = FALSE
    /\ lastRead = Unread

-----------------------------------------------------------------------------
\* One row of a run: the upsert of the programme and record_contract_award.
Writes(n, stage, closes, winner) ==
    /\ rowStage' = stage
    /\ rowCloses' = closes
    /\ winnerKept' = (winnerKept \/ winner)
    /\ lastRead' = n
    /\ UNCHANGED source

\* A record that is called off, or not covered, is passed over: a row that is
\* already there stays as it is.
PassesOver(n) == lastRead' = n /\ UNCHANGED <<source, rowStage, rowCloses, winnerKept>>

\* external_ref is the notice's own id, and a notice keeps its type.
SameNotice(n) == lastRead.status \in {"unread", n.status}

SamRun ==
    /\ source = "sam_gov"
    /\ \E n \in SamNotices : SameNotice(n) /\ Writes(n, SamStage(n), n.closes, n.winner)

\* Find a Tender's releases have no deadline that is read.
UkRun ==
    /\ source = "uk_find_a_tender"
    /\ \E n \in UkNotices :
          /\ SameNotice(n)
          /\ IF UkStage(n) = Skipped THEN PassesOver(n)
             ELSE Writes(n, UkStage(n), rowCloses, n.winner)

TedRun ==
    /\ source = "ted_eu"
    /\ \E n \in TedNotices : SameNotice(n) /\ Writes(n, TedStage(n), n.closes, n.winner)

\* Both phases of a run: the open tender is upserted first, the award after it
\* and without the deadline.
CanadaRun ==
    /\ source = "canada_buys"
    /\ \E n \in CanadaNotices :
          CASE CanadaStage(n) = Skipped /\ ~CanadaAwarded(n) -> PassesOver(n)
            [] CanadaStage(n) # Skipped /\ ~CanadaAwarded(n) ->
                  Writes(n, CanadaStage(n), n.closes, FALSE)
            [] CanadaStage(n) = Skipped /\ CanadaAwarded(n) ->
                  Writes(n, "contract_awarded", rowCloses, n.winner)
            [] CanadaStage(n) # Skipped /\ CanadaAwarded(n) ->
                  Writes(n, "contract_awarded", n.closes, n.winner)

\* The update leaves the stage out; the insert says contract_awarded.
AustraliaRun ==
    /\ source = "australia"
    /\ \E n \in AustraliaNotices :
          IF ~AustraliaKept(n) THEN PassesOver(n)
          ELSE Writes(n, IF rowStage = NoRow THEN "contract_awarded" ELSE rowStage,
                      rowCloses, n.winner)

\* The update leaves the deadline out.
ProzorroRun ==
    /\ source = "prozorro"
    /\ \E n \in ProzorroNotices :
          IF ProzorroStage(n) = Skipped THEN PassesOver(n)
          ELSE Writes(n, ProzorroStage(n), IF rowStage = NoRow THEN n.closes ELSE rowCloses,
                      n.winner)

SouthAfricaRun ==
    /\ source = "south_africa"
    /\ \E n \in SouthAfricaNotices :
          IF SouthAfricaStage(n) = Skipped THEN PassesOver(n)
          ELSE Writes(n, SouthAfricaStage(n), n.closes, FALSE)

\* A supplier is read only where adjudicado says so.
ColombiaRun ==
    /\ source = "colombia"
    /\ \E n \in ColombiaNotices :
          IF ColombiaStage(n) = Skipped THEN PassesOver(n)
          ELSE Writes(n, ColombiaStage(n), n.closes, n.winner /\ Adjudicado(n))

\* coalesce(excluded.response_deadline, programmes.response_deadline)
ParaguayRun ==
    /\ source = "paraguay"
    /\ \E n \in ParaguayNotices :
          IF ParaguayStage(n) = Skipped THEN PassesOver(n)
          ELSE Writes(n, ParaguayStage(n), IF n.closes = NoDate THEN rowCloses ELSE n.closes,
                      n.winner)

CpppRun ==
    /\ source = "cppp_india"
    /\ \E n \in CpppNotices :
          IF CpppStage(n) = Skipped THEN PassesOver(n)
          ELSE Writes(n, CpppStage(n), n.closes, FALSE)

FeedsNext ==
    \/ SamRun \/ UkRun \/ TedRun \/ CanadaRun \/ AustraliaRun \/ ProzorroRun
    \/ SouthAfricaRun \/ ColombiaRun \/ ParaguayRun \/ CpppRun

FeedsSpec == FeedsInit /\ [][FeedsNext]_feedVars

-----------------------------------------------------------------------------
FeedsTypeOK ==
    /\ source \in Feeds
    /\ rowStage \in {NoRow} \cup FeedStages
    /\ rowCloses \in {NoDate, 1, 2}
    /\ winnerKept \in BOOLEAN

\* What the source says in the record, whatever the normalisers make of it
CalledOff(n) == n.status \in {"cancelled", "unsuccessful", "Cancelado", "Desierto"}
Decided(n) ==
    /\ ~CalledOff(n)
    /\ \/ n.status \in {"Award Notice", "award", "can-standard", "can-modif", "contract",
                        "active.awarded", "complete", "Adjudicada"}
       \/ n.beside \in {"Active", "adjudicado", "adjudicado, offers phase", "complete"}
TakesBids(n) ==
    /\ ~CalledOff(n) /\ ~Decided(n)
    /\ \/ n.status \in {"Solicitation", "tender", "cn-standard", "Request for Proposal",
                        "active.tendering", "Convocatoria Abierta", "listed"}
       \/ n.status = "active" /\ source = "south_africa"
       \/ n.beside = "Presentacion de oferta"

\* The query of SAM.gov and of TED has done what the others' filters do.
Covered == lastRead.relevant \/ source \in {"sam_gov", "ted_eu"}

\* A record that says that the contract is decided is not left among the open
\* ones, and its winner is kept, whatever an earlier or a slower run has stored.
\* (It is silent about the rows of earlier notices of the tender.)
DecidedIsClosed ==
    Covered /\ Decided(lastRead) =>
        rowStage = "contract_awarded" /\ (lastRead.winner => winnerKept)

\* A record that takes bids is not hidden among the awarded ones by the winner
\* of one of its lots, or by a status the row had before.
BidsAreShown == Covered /\ TakesBids(lastRead) => rowStage = "rfp_issued"

\* The closing date of a record that takes bids is the one last read; ProZorro's
\* update leaves it out, so an extension is not seen there.
ExtensionsAreSeen ==
    Covered /\ TakesBids(lastRead) /\ source # "prozorro" =>
        rowCloses = lastRead.closes \/ (source = "paraguay" /\ lastRead.closes = NoDate)

\* What is shown of a record is what its source said when it was last read,
\* through every upsert of the ten sources: what the checks of data_health.py
\* and source_reconcile.py find wrong only after it has been shown.
RowsFollowSource == DecidedIsClosed /\ BidsAreShown /\ ExtensionsAreSeen
=============================================================================
