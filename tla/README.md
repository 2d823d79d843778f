# Verification of the Defence & Opportunity Intelligence API

TLA+ models, TLC runs and TLAPS proofs for the FastAPI backend under `src/api/app`. Line
numbers refer to the sources of this commit; `main.py` without a directory is
`src/api/app/main.py`, and so on.

The platform ingests public tenders from ten portals, lets companies register products,
suggests capabilities of a product from a shared taxonomy, and, once an analyst has confirmed
some, matches the product to tenders and keeps the matches as opportunities. The taxonomy
learns from the ingested tenders, under review by platform administrators.

## How the program runs

One uvicorn worker with one event loop (`docker-compose.prod.yml`, line 17), restarted by
docker when it dies. Every request and every scheduled job has a database session of its own
(`get_tenant_session`, `main.py` 717-726). PostgreSQL runs at READ COMMITTED, and no handler
locks the rows it reads. So the unit of atomicity is *one statement for what a handler reads,
one commit for what it writes*; between the two, at every `await`, any other request may
commit. That is the interleaving all modules model: a handler that reads, computes and writes
is a read action and a commit action; a handler whose decision is inside one conditional
UPDATE or DELETE is one action. A request may also end without its commit (an exception, a
lost connection, the end of the process).

## Inventory

| Part | State | Operations | What is hard | Correct when | Status |
|---|---|---|---|---|---|
| Capability review (`main.py` 2537-2768, 3751-3811, `programme_matching.py`) | `products`, `product_capabilities`, `evidence`, `opportunities`, `audit_log` | create, delete, classify, confirm, reject, match | classify and match read long before they write | a suggestion is never shown as a decision, the pipeline opens only after a person decided | `CapabilityReview`, proved |
| Ingestion runs (`*_ingestion.py`, `ingestion_common.py`, `main.py` 358-383) | `ingestion_jobs`, `programmes`, `ingestion_rotation_state` | run a source, advance a cursor, reap | commits in the middle of a run, transactions aborted by a failed statement, process death | job rows tell the truth and end, cursors visit everything | `IngestionRun`, safety proved |
| Normalisers (`*_normalize.py`) with the upserts of `*_ingestion.py` | `programmes.stage`, `response_deadline`, `award_notices` | normalise a record, insert or update | fields of a record that lag behind one another, updates that leave columns out | a record that says the contract is decided is not listed as open, one that takes bids is not hidden | `Feeds`, proved |
| Taxonomy learning (`taxonomy_learning.py`, `main.py` 3436-3518, 4553-4657) | `capability_taxonomy_keywords`, mapping tables, `taxonomy_learning_suggestions` | learn, approve, reject, add, remove | runs and admins overlap, a link is nulled by a delete | listed is live, decisions stay decided, the limit holds | `TaxonomyLearning`, proved |
| Accounts and sessions (`main.py` 666-1178, 1652-1780, 1880-2039, `mfa.py`) | a row of `users`, reset and challenge tokens, session tokens | log in in two steps, second factor, change and reset a password, block, unblock, unlock, log out everywhere | counters and one-time items are read, then written; a token carries the version of an earlier read | a revocation ends every session, a lockout is earned | `Accounts`, proved but for the two violations |
| Sign-up (`main.py` 835-918, 1180-1550, `oidc.py`, `signup_policy.py`) | `tenants`, `users`, `oidc_identities`, `email_verification_tokens` | sign up by form or provider, link an identity, verify, resend | two ways in for one address at a time | a tenant and its user exist together, an identity is never re-pointed | `SignUp`, proved |
| Opportunity pipeline (`main.py` 3751-4096, 4401-4444, `next_best_action.py`, `fit_score.py`) | `opportunities`, the tenant's checkpoint | match, update, open the tender, list what is new | lost updates, advice and audit entries computed from an old row, transactions that commit out of order | advice fits the row, the log tells its states, nothing new is passed over | `PipelineRules`, `Opportunity`, `NewOpportunities`, proved |
| Matching and scoring (`programme_matching.py`, `matching_scoring.py`, `scoring.py`, `capability_resolver.py`) | `opportunities` of a product | match, preview | three notions of what a code resolves to, gates and thresholds, tenders and keywords that change between matches | a high confidence is written on words the tender has, what is resolved is matched | `CapabilityResolver`, `Matching`, proved but for one violation |
| Intelligence reports (`*_intelligence.py`, `partner_matching.py`, `sector_coverage.py`) | none | read | queries with different filters | | not modelled |
| Source reconciliation and data health (`source_reconcile.py`, `source_refresh.py`, `data_health.py`) | `programmes.stage`, `ingestion_jobs`, `data_health_results` | read, fetch, plan, write; check, compare with the last result, alert | plans are stale when written; checks overlap | red means there is something to fix, a new error is told | `SourceChecks`, proved |
| Backup, restore drill, staleness (`backup.py`, `main.py` 509-616) | `backup_jobs`, objects in storage, a scratch database | back up, prune, drill, check for silence | runs overlap, rows stay running after a crash | rows tell the truth, silence is mailed | `Backups`, `Upkeep`, proved |
| Key rotation (`scripts/rotate_encryption_key.py`, `pii_encryption.py`) | encrypted columns of `tenants` | read, re-encrypt, commit, restart | the API saves meanwhile | a company that saved nothing keeps its values | `KeyRotation`, proved |
| Scheduler (`main.py` 509-616) | none that is persisted | cron and interval jobs | restarts | the cron jobs are done or missed loudly | cron jobs in `Upkeep` |
| CPPP India (`cppp_india_*.py`) | as ingestion, a cursor per group | walk listing pages | pages shift under the walk | as ingestion | what is stored in `Feeds`; the walk not modelled |
| Supplier credentials, text helpers, product report, schema and row-level security, frontend, deployment | | | | | not modelled |

How the parts meet: ingestion fills `programmes`, which learning mines and matching reads;
learning and its admins change the taxonomy, which classification and matching read; the
review decides what matching may use; health and backups read the job rows of the others. All
of it goes through the database, none through shared memory (apart from two flags that debounce
learning after a search, `main.py` 486-506). Each module therefore lets the other parts
appear as free choice: classify may find any candidates, match any programmes, a learning run
any phrases. That over-approximates the composition.

`PROJECT.json` lists every hazard found, at its line, with the properties that cover it or the
reason why none does.

## Modules

### `CapabilityReview`, with the abstract `ReviewGate`

`link[p][c]` is the `product_capabilities` row (who set it, which evidence it points at; "none"
is no row), `claim[e]` says for which product evidence row `e` was written, `reviewed` is the
set of evidence with `reviewed_by` set, `audit` the set of logged events. `request[r]` holds
the local variables of a classify or match request between its reads and its commit.

| Action | Code |
|---|---|
| `CreateProduct`, `DeleteProduct`, `Confirm`, `Reject` | the handlers of the same names, `main.py` 2537-2606, 2711-2768; `DeleteProduct` includes the cascades of `schema.sql` 177 and migration 011 |
| `ClassifyRead`, `ClassifyCommit` | `classify_product` up to the query of confirmed capabilities (2666), and from the loop to the commit |
| `MatchRead`, `MatchCommit` | `match_programmes_for_product`, and in it `match_product_to_programmes`, whose loop runs over the confirmed capabilities read first |
| `Rollback` | a session that is closed without a commit |

The upsert of classify has a foreign key to the product, so a commit with something to write
needs a live product; one with nothing to write still logs. `audit` is the log as it was
written: the yearly purge of `retention.py` is not part of this module.

`ReviewGate` says what the rest of the platform relies on, without rows, evidence or requests:
opportunities of a product appear only when some capability of it has been vetted. The mapping
takes the logged confirmations as the vetted capabilities. They cannot be taken from `link`:
a match request may commit after what it read as confirmed has been rejected.

### `IngestionRun`, with the abstract `JobLedger`

`job[j]` is a row of `ingestion_jobs` with its source (slots of closed rows are reused, to keep the table
finite), `stored[s]` the committed rows of `programmes`, `offset` and `rotation` the cursors of
SAM.gov. `run[w]` is a run in progress: its program counter, and the rows that are fetched
(`batch`), written but not committed (`pending`) and counted (`ingested`). Rows are abstracted to
*pages*, a code and an offset.

The sources come in three shapes, given by the constant `Shape`: *paged* (SAM.gov: a query per
NAICS code at that code's cursor, cursor advances that commit, an except clause that rolls
back), *listing* (uk_ft, ted_eu, south_africa, colombia, prozorro, australia, paraguay: one
fetch, one transaction, no rollback), *phased* (canada_buys: as listing, then award notices
whose exceptions are caught). `Raise(w, TRUE)` is a failed SQL statement: from there on the
transaction accepts nothing until it is rolled back, so `Finish` is disabled and `FinishRefused`,
`ExceptRefused` describe what the code then runs into. `Crash` may happen at any state, `Restart`
runs the reaper before anything else.

`JobLedger` is the promise of the table: a row is opened as running, closed once, and a closed row
stays closed.

### `TaxonomyLearning`

One capability of the taxonomy. `keyword[k]` is a keyword row, `suggestion[v]` the suggestion for
a phrase or code, `learner[l]` what a learning run has read (what is fresh, how much room is left
under the limit), `admin[a]` what an approve or reject has read. The mining itself is any choice
among what is fresh. Row identifiers are never used again after a delete, like the UUIDs they
stand for, which is why `Rows` bounds the number of insertions.

### `Feeds`

One record of one source: what the source publishes under one `external_ref`. For SAM.gov, Find a Tender and TED
that is one *notice* (`noticeId`, the release id, the publication number), whose type never changes, which is
what `SameNotice` says; for the other seven it is the tender, whose status does. `lastRead` is the record as the
last run read it (a run may be overtaken or miss a page), `rowStage`, `rowCloses` and `winnerKept` are what the row of
`programmes` says and whether it has an award. One action per source (`SamRun` ... `CpppRun`) is the whole
way of a record: the stage its normaliser makes of it (`SamStage` ... `CpppStage`, one operator per file),
what it passes over, and which columns the `on conflict do update` overwrites. The records are the
combinations of the fields the normaliser looks at, restricted to those the source publishes; dates are
numbered in order.

`RowsFollowSource` says what a reader of the row wants of it, independently of the mapping of any
source: a record that was last read as decided is not left open, one that takes bids is not hidden,
and its closing date is the one last read. It excepts what the code leaves out on purpose or by
construction: records passed over, and ProZorro's deadline, which its update does not contain. It says nothing of
*other* rows of the same tender: when SAM.gov, Find a Tender or TED award a contract, the award notice becomes a
row of its own and the row of the tender notice stays as it is, open; nothing the code stores relates the two.
Nor does it say that an open row has no award: Paraguay awards lots one by one, and the code keeps such a call open and
records the award (`paraguay_normalize.py` 170-172, `paraguay_ingestion.py` 361-366), a state the data-health check
reports as an error (`data_health.py` 113).

### `Accounts`

One row of `users` with the tokens around it. `account` holds the columns, `tokens` the session versions of
the tokens handed out, `challenge` whether a token of the first login step is out, `link` the reset links.
`request[r]` is a request in flight, with what it has read. A request goes through up to three database
sessions: the check of its caller's token (`Authorize`), the read, the commit; each is an action
(`LoginRead`, `LoginFails`, `LoginSucceeds`, `BlockCommit` and so on), and `PasswordStep`, `SignInStep` and
`FactorStep` gather them by topic. `session_version + 1` is in the SQL of the update, so `Revoked` applies
to the row as it is at the commit, while the counter of failed logins is written as computed from the row
that was read. `failures` counts the wrong passwords typed and `proven` holds the secrets a code was shown
for; both exist for the properties alone. Passwords, secrets and codes are names.

### `SignUp`

`tenant`, `user`, `identity` and `mailed` are the tables by address and subject, `visitor[v]` is a request in
flight. Form, callback, completion and verification read, then commit; the unique constraints on addresses
and identities are the guards of the commits, and what they refuse leaves by `GiveUp`. The provider itself is
external: its callback may name any subject with any address, also another than last time.

### `PipelineRules`, `Opportunity`, `NewOpportunities`

`PipelineRules` has the two rule tables as operators: `SuggestNextAction` (a text is the name of the rule
that produces its sentence, and whether a restriction, an overdue follow-up and a missing owner are mentioned) and
`FitScore` with its four signals. `Opportunity` is one row with the upsert of a match (`Match`), PATCH in its two
halves (`EditRead`, `EditCommit`), visits, and the tender's deadline and set-aside, which ingestion and time change. The
advice is stored as text, so it keeps what was true when it was written: "assign an owner" of a new row stays
after an owner is named, until an edit asks for a new suggestion or types one. A PATCH writes every column from what
it has read, but for the owner, which the SQL decides, and writes an audit entry if what it read differs from what
its update returned. `AdviceFitsRow` says what survives of that when edits overlap: every part of the text is one for the
stage next to it. `LogKnowsRow` says it of the audit log, with the history `audited`: the "before" of an entry may be a
state another edit has replaced, and an edit that writes no entry ("nothing actually changed", `main.py` 3993) may undo
another, but only back to a state the log has told. The two readers of the set-aside code differ, and the model with
them: the advice takes SAM.gov's "NONE" for a restriction (`next_best_action.py` 118), the score does not
(`fit_score.py` 56-59).

`NewOpportunities` is the list of what is new and its checkpoint. PostgreSQL's `now()` is the start of a
transaction, so a match that started before a view may commit after it with an older `created_at`; those are
the `straddled` ones, and `PassedIsListed` says that nothing else is ever passed over.

### `CapabilityResolver`, `Matching`

A classification code is a sequence of digits; `ResolveCapabilities` is `capability_resolver.py`: exact
mappings if there are any, otherwise those of the longest prefix. `Matching` is one product against the
programmes: candidates by code in the SQL's own way (any prefix), keyword scores, the gate and cap of
`CombineScore`, the thresholds, sentinel codes, the keyword-only branch, and the upsert, where a match by code
wins and a programme that no longer matches keeps its row. Between two matches tenders are re-ingested with another
title or code (`Ingest`), capabilities confirmed and withdrawn, keywords learned, removed and retracted
(`Learn`, `Unlearn`). What is stored is therefore corroborated when it is written and not for ever:
`MatchedIsCorroborated` is about the step that writes, and `RematchedIsCorroborated`, a run of its own, is the claim
about the rows as they stand, which fails. `ResolvedIsMatched` and `PreviewIsMatched` compare the readings of the
mappings with each other: what the resolver files under a confirmed capability is matched, and what the public
preview counts, a confirmed product would be matched to.

### `SourceChecks`

The tenders of a source with a look-up per record. `published[n]` is where a procedure is at the source now,
`feed` what an ingestion in flight has fetched, `shown[n]` the stage in the row, `compare[q]` and `check[h]`
are a comparison and a health check between their reads and their writes. Comparisons overtake each other
and the feed. `RedIsNotAlreadyFixed` and `ShownErrorIsTold` are about results as the operator sees them: a
red result was of rows that were wrong, and an error on display was mailed, unless checks overlapped or one
died before its mail. `settled` is the history that the first rests on: the notices a comparison left right
(their row shows what the source says at the commit, or the source has called them off) and that nothing has
touched since. A comparison does not settle a row that a stale ingestion has overwritten between the
comparison's read and its commit: the comparison saw it right, changes nothing, and leaves it wrong. A
history that counted such a row as settled made `RedIsNotAlreadyFixed` false in a behaviour with three
comparisons, one more than the run has; the attempt to prove it showed that, and TLC confirmed it.

### `Backups`, `Upkeep`

`Backups` has the runs in detail: a row per run, the `daily/` keys, the scratch database two drills fight
over, failures recorded or not, a crash of the API at any point. A failure is committed first (`JobFails`) and mailed
afterwards (`Alert`); a crash in between, a missing address or a refusing mail server leave a failed row nobody was
told of, so `MailedIsFailed` is the one direction that holds. `Upkeep` has the calendar: the cron hours day after day,
with each run as one step whose outcomes are those of `Backups`, stops and starts of the process, runs
started by hand, and the daily staleness check. `SilenceIsMailed` bounds the daily checks that pass
without a success or a mail, for a kind of run that has succeeded once.

### `KeyRotation`

The script reads all rows, and writes and commits what it re-encrypted; the API saves meanwhile with the old
key; then the API restarts with the new one. `meanwhile` is the set of companies that saved in between, the
premise of `QuietCompaniesSurvive`.

### MC modules

`MCCapabilityReview`, `MCIngestionRun`, `MCCore`, `MCTaxonomyLearning`, `MCOpportunity`, `MCMatching`, `MCPlatform` and
`MCWork` add the symmetry sets, the constants that are functions, and what keeps the instances small. Symmetry is used in the runs
without liveness properties, over sets whose members no definition tells apart.

`MCCore`, `MCPlatform` and `MCWork` check components that share no variable side by side. A variable `part`, chosen at
the start, names the component that moves; the others stand still. Nothing is lost by it, since no step of one
can disturb a property of another, and the numbers of states add up instead of multiplying. `SourceChecks` is
split once more, comparisons and checks one at a time (they meet in the tenders only, and either sees every
change the other could make there as a change by the ingestion). `MCTaxonomyLearning` has two slices of one
component: two admins with one phrase and a code, and three phrases with one admin at work.

Operators with the comment "Mutant" are plausible errors of the code. They are used by no
specification; each is what one property is there to detect.

## Runs

| Run | Expected | Question |
|---|---|---|
| `Core.cfg` | pass | Do reviews stay honest, evidence separate, cascades complete and the gate closed under every interleaving of two requests with all handlers? With all three shapes of sources and two overlapping runs, are job rows owned, truthful and closed once? |
| `CapabilityReviewRerun.cfg` | violation | "a re-run of an automated classifier must never undo it" (`main.py` 2659-2660) |
| `IngestionEnds.cfg` | pass | Does a SAM.gov job end, is every orphan reaped, does the cursor reach every page? |
| `IngestionAwardPhase.cfg` | violation | "a problem here must not undo the open-tenders phase" (`canada_buys_ingestion.py` 271-273) |
| `TaxonomyLearning.cfg` | pass | Is what is listed live, what is learned reviewable, a decision final for the runs, and by how much can overlapping runs exceed the limit? |
| `TaxonomyRejects.cfg` | violation | "Rejecting an already-live learned keyword retracts it too." (`main.py` 3500) |
| `Platform.cfg` | pass | Does a revocation end every session, is a lockout earned, are sign-ups whole and identities kept, and does the table of backup jobs tell the truth? |
| `Work.cfg` | pass | Component by component: does advice fit the row and the log tell it, is nothing new passed over, are matches corroborated when they are written, do resolver and preview agree with them, do quiet companies survive a rotation, are errors and silence told, do rows follow their source? |
| `AccountsFactor.cfg` | violation | "A secret the user hasn't proven they can actually use yet must never gate their own login." (`main.py` 1902-1903) |
| `AccountsBlocked.cfg` | violation | "has been blocked and can no longer sign in" (`main.py` 1712) |
| `MatchingRematch.cfg` | violation | "A code-only match with no keyword corroboration can never be rated better than low" (`product_intel_report.py` 218) |
| `KeyRotation.cfg` | violation | "never a partial rotation with some rows on the old key and some on the new one" (`rotate_encryption_key.py` 50-54) |

What the seven violations show:

- *Rerun.* classify reads the confirmed capabilities, an analyst confirms one more, and the upsert
  of classify turns the row back into a suggestion, with fresh unreviewed evidence. Only what was
  confirmed when the run read is left alone.
- *Award phase.* Nothing commits between Canada's two phases. A statement that fails in the second
  aborts the one transaction, the caught exception does not roll it back, the final update fails
  and so does the update in the except clause. The open tenders are lost and the row stays running
  until the next startup, where the reaper closes it (`OrphanIsReaped`). The other sources without a
  rollback lose their job update the same way; `RollingBackJobEnds` therefore speaks of SAM.gov only.
- *Rejects.* The retraction tests for the status 'auto_added', so a learned keyword that went
  through the queue and was approved survives the rejection of its suggestion.
- *Second factor.* Set-up checks that no factor is enabled and enable checks a code, both against what they
  read. Set-up in a second tab replaces the secret between enable's read and its commit, or after it: the
  factor is on with a secret nobody has shown a code for.
- *Blocked.* The second login step reads the account by its id and takes the session version of that read. It
  does not look at `is_active`, so a challenge from before the block still yields a token of the version after
  the block. That token can be used at once: `get_current_user` (`main.py` 707-713) compares the version and
  nothing else. What does hold is `NoSessionOutlivesRevocation`: no token handed out before is of the new version.
- *Key rotation.* A number saved between the script's read and its commit is not among the values it rewrites.
  A row it had not selected stays under the old key, next to rows under the new one; a row it had is
  overwritten. A company that saves nothing meanwhile loses nothing.
- *Re-match.* A tender of a sentinel buyer is matched as high on a keyword. Then its title is replaced by one without
  (or the keyword is removed). A sentinel without a keyword is no match, matching again writes only what
  matches, and the row stays high.

### Bounds, and why they are enough

| Bound | Value | Reason |
|---|---|---|
| `Requests`, `Learners`, `Admins`, `Workers` | 2 (1 in liveness and in the smallest counterexamples) | every hazard listed is between two sessions; a third brings no state the two cannot reach in turn, and the proofs cover any number |
| `Products`, `Capabilities` | 2 | sharing or crossing evidence needs two rows, in one product or in two |
| `Evidence` | 2 | two runs with a row each or one with two; when identifiers have run out, classify can only roll back. Hence CHECK_DEADLOCK FALSE in `Core` and `CapabilityReviewRerun`: the model, not the program, comes to an end |
| `MaxSuggestions` | 2 | the code's 3, cut to the number of capabilities |
| `Jobs` | 2 | one row per overlapping run; slots are reused |
| `NumCodes`, `GroupSize`, `NumPages` | 2, 2, 1 in the safety run; 2, 1, 2 in the liveness run | one group of two codes with a commit between them; two groups and two pages for the cursors to wrap |
| `Rows` | 3 | an insertion per run and one by an admin |
| `MaxLearned` | 1 | the smallest limit that two runs can exceed together |
| `Requests`, `Editors`, `Views`, `Visitors`, `Comparisons`, `Checks` | 2 | as above; symmetric |
| `Passwords`, `Secrets` | 2, 1 (`Platform`); 1, 2 (`AccountsFactor`) | an old and a new one; two secrets matter to the violation only |
| `MaxAttempts`, `MaxFailures`, `MaxVersion` | 2, 2, 3 | a counter that has one value short of the limit, and two revocations in one behaviour |
| `Codes`, `Links` | 1 | two requests with the same one is the case that is hard |
| `Emails`, `Subjects`, `Tenants` | 2 | an identity whose address changes; two sign-ups of one address |
| `BackupRuns`, `AtOnce`, `Keep` | 4, 2, 1 | two overlapping runs after two others, so that pruning has something to delete |
| `MaxTime`, `Finds` | 4, 2 | a match on either side of a view, and one across it |
| `StagesUsed`, `Members`, `MaxOpens`, `MaxEdits` | lead and won, 1, 1, 2 | an open and a closed stage; an owner to lose; two edits in flight, or one after the other |
| `TenderStates`, `Asks` | 3, 10 | no deadline, an urgent and a passed one; no set-aside, one that means none, a stated one. Nothing, every field by itself, and a stage together with an owner |
| `Programmes`, codes, keywords, capabilities | 1, 3, 3, 2 | an exact code, one resolved by prefix, a sentinel that a mapping holds; a long and a short keyword of one capability and one of another |
| `Companies`, `Columns`, `Numbers` | 2, 2, 1 | a company that saves and one that does not |
| `Notices`, `MaxComparisons`, `MaxChecks` | 2, 2, 2 | one that is right and one that is not; each result has one before it |
| `MaxDays` | 12 | a week with a drill, and the threshold of ten days |

`Core` gives `Products` and `Jobs`, and `Requests` and `Workers`, the same values, so that one symmetry group serves both
components. Jobs never come to an end; the two other runs of `IngestionRun` check deadlock.
CHECK_DEADLOCK is FALSE in `Platform`, `Work` and the violations of their components too: versions, days,
edits, tenants or runs come to an end there, in the model and not in the program.

`NumPages` is constant: the code takes it from the total the source reports with each page.

### Fairness

Only `FairSpec` of `IngestionRun` assumes any: weak fairness of each worker's next step, because
every request to a source has a timeout and a statement answers or fails, and weak fairness of
`Restart`, because docker restarts the API (`docker-compose.yml` 59-67). A database that stays
unreachable is excluded by the first. Nothing is assumed of the scheduler, of users, of crashes or
of what sources answer. `RotationReachesEveryPage` has the premise that pages of the code keep
arriving, and one worker: two overlapping runs can read the same cursor and skip a page in step.

## Proofs

`CapabilityReview_proofs` proves, for every value of the constants that satisfies the module's two
assumptions (the "none" values lie outside their sets, `MaxSuggestions` is a natural number):

| Theorem | States |
|---|---|
| `Invariance` | `ReviewSpec => []ReviewInv` |
| `TypeCorrect`, `ReviewIsHonest`, `EvidenceIsPerRow`, `CascadeIsComplete`, `SnapshotIsVetted`, `PipelineIsGated` | `ReviewTypeOK` and each invariant of the run |
| `ImplementsGate` | `ReviewSpec => GateSpec`, the refinement of `ReviewGate` |

`ReviewInv` is the conjunction of the six invariants; none is inductive alone. That the pipeline is gated
needs `SnapshotVetted`, because a match request writes by what it read long before.
`SnapshotVetted` needs `ReviewedIffConfirmed`, because the request reads the link table and not the
log. `ReviewedIffConfirmed` needs `EvidencePerRow`, because a confirmation marks an evidence row and
must not reach another link through it, and because the evidence a classify run takes must not be
reviewed already. The proof has one lemma per handler, with a step for each conjunct it can disturb.

`TaxonomyLearning_proofs` proves, from the module's four assumptions (phrases and codes do not overlap
and the "none" values lie outside their sets, both limits are natural numbers, `Rows` and `Learners` are
finite so that the learned keywords and the overlapping runs can be counted):

| Theorem | States |
|---|---|
| `Invariance` | `Spec => []IInv` |
| `TypeCorrect`, `ListedIsInForce`, `LearnedIsReviewable` | `TypeOK`, `ListedIsLive`, `LearnedWasSuggested` |
| `DecisionsStand` | the action property `NeverReproposed` |
| `LimitHolds` | the bound `AutomaticWithinLimit` |

Here `IInv` adds `LinksAreOwn` to the three invariants. A reject deletes the keyword row that the admin
saw linked when the page was read; that this cannot delete what another suggestion lists needs the row
to belong to the rejected suggestion alone, in the table and in what the admin has seen. And a run never
loses the row it added automatically to an approval, because what an approve has seen pending was never
automatic. A general lemma, `DeleteKeeps`, covers both ways a keyword is deleted.

`LimitHolds` needs a count over all runs, without a sum: every run has `MaxLearned` places, those it
holds are the room it saw, and `WithinPlaces` says that the keywords added automatically and the places held
are together no more than all places. A run that reads some room has seen everything added so far among
the learned keywords (an injection, by `ListedIsLive`), so what was added and what it now holds fit its own
places, and the others have at most theirs. A commit gives up a place for each keyword.

`IngestionRun_proofs` proves, for any sources of any shapes, any number of overlapping runs and of
rows (assumed: there is a source, the "none" job is no job, at least two codes, groups and pages are not
empty):

| Theorem | States |
|---|---|
| `Invariance` | `IngestionSpec => []IngestionInv` |
| `TypeCorrect`, `RowsAreOwned`, `SuccessIsTrue` | `IngestionTypeOK`, `RowHasOneOwner`, `SucceededIsStored` |
| `ImplementsLedger` | `IngestionSpec => LedgerSpec`, the refinement of `JobLedger` |

Here `IngestionInv` adds `RunsAreSound`. That a succeeded row tells the truth needs, at the moment of the final
update, that everything counted is committed or pending *in this run*, for the source of the row. That
a row has one owner needs that no run is left when the reaper starts. That the ledger's rows are closed
once needs both: whoever closes a row owns it, and it is still running. Two lemmas carry the steps:
`RunStepKeeps` for those that leave the rows alone and `CloseKeeps` for those that close one.

`Feeds_proofs` proves, for each of the ten sources and any sequence of runs:

| Theorem | States |
|---|---|
| `FeedsInvariant`, `FeedsTypeCorrect` | the inductive invariant, and the types it contains |
| `FeedsRowsFollowSource` | `RowsFollowSource` |

An upsert may leave a column as an earlier run wrote it, so what was written once must be right for every
later notice that does not write it again. `LeftAloneIsRight` says so for the two sources that have such
columns: rows of AusTender have one stage only, those of Find a Tender no deadline. Each source has a lemma
over its own notices, and one lemma about the upsert serves them all.

`Accounts_proofs` proves, for any number of overlapping requests, passwords, secrets, codes and links, and
any limits (assumed: the limits are positive, the "none" secret is no secret):

| Theorem | States |
|---|---|
| `AccountInvariant`, `AccountTypeCorrect` | the inductive invariant, and the types it contains |
| `LockoutIsEarned` | `LockoutNeedsFailures` |
| `RevocationIsComplete` | the action property `NoSessionOutlivesRevocation` |

The counter is written as one more than what was *read*. That it stays behind the failures typed needs that
a failed login in flight will write no more than the failures there are (`AllRestOnRow`), which holds
because `failures` only grows. A revocation gives the row a version that is new only if no token, and no
login in flight, is of a version yet to come (`TokensArePast`, and again `AllRestOnRow`); it relies on the
increment being in the SQL.

`Platform_proofs` has the other two components of `MCPlatform`. `SignUp`, for any addresses, subjects, tenants
and visitors (assumed: the "none" tenant is no tenant):

| Theorem | States |
|---|---|
| `SignUpInvariant`, `SignUpTypeCorrect` | the inductive invariant, and the types it contains |
| `SignUpLeavesItWhole` | `SignUpsAreWhole` |
| `IdentityIsKept` | the action property `IdentityStays` |

An identity has its user needs `LinksHaveTheirUser`: the callback about to link found an account when it
read, and no account is deleted. `NewTenant` carries both ways to a tenant, `MailKeeps` everything that
touches neither tenants nor identities.

`Backups`, for any number of jobs, in all and at once, and of backups kept (assumed: at least one is kept):

| Theorem | States |
|---|---|
| `BackupTypeCorrect` | the types |
| `JobsSpeakTrue` | `JobsTellTheTruth`: drills that met no other prove their backup, succeeded backups are in the bucket or displaced, a mail is about a row that reads failed |

`BackupInv` is what the three parts of `JobsTellTheTruth` need. A succeeded backup is in the bucket or displaced
needs that already from its upload on (`UploadedIsKept`), whichever other runs prune before it closes its row;
the lemma `PruneLeavesNewest` counts: a key with `Keep` newer ones still has `Keep` newer ones after any
pruning.
A drill proves the backup it restored only if nobody dropped or refilled the scratch database under it and the
object is not replaced by a broken one afterwards. The first is `LoneDrillOwnsScratch`; the second is
`KeysAreWritten`: only an upload breaks a key, and a key that is in the bucket, or that a drill has taken from
it, belongs to a backup past its upload.

| Theorem | States |
|---|---|
| `PlatformTypeCorrect` | `TypesOK` of the composition |
| `PlatformIsSound` | all other properties of `Platform.cfg` |

The last two carry the theorems over to the composition: `PlatformParts` shows that a behaviour of `MCPlatform`
is one of each component, all but one of which stand still. They need no invariant of their own.

`Pipeline_proofs` has the way from a tender to the pipeline. `Matching`, for any mappings,
keywords, weights and programmes:

| Theorem | States |
|---|---|
| `MatchingTypeCorrect` | the types; a stored score lies between the minimum and 100 |
| `HighNeedsWords` | the action property `MatchedIsCorroborated` |
| `PreviewKeepsItsPromise` | `PreviewIsMatched` |
| `ResolvedAreMatched` | the action property `ResolvedIsMatched` |

Assumed are the types of mappings and keywords, and that there are finitely many keywords (their weights are added
up). Nothing is assumed of sentinel codes: the migrations map none, but the miner takes one for any
unmapped code (`taxonomy_learning.py` 304-331, 423-424) and an approval writes the mapping (`main.py` 3463-3468). The
reports then resolve a tender of that buyer, while the match still asks for a keyword (`programme_matching.py` 278-282);
hence `ResolvedIsMatched` excepts sentinel codes, and the theorem says nothing of them.
That a sum of weights is a natural number looks like an induction over finite
sets; as the library's induction theorems cannot be applied here, `SumIsDefined` takes a least set without
a sum instead, which a well-founded order of the finite sets provides, and refutes it.
A resolved code is always matched, because what the longest prefix resolves is among what any
prefix proposes (`ResolvedIsCandidate`), the bonus of a code alone passes the minimum
(`CandidateIsMatched`), and of several matches by code there is a lowest, the one the upserts leave
(`LowestMatch`).

`NewOpportunities`, for any number of matches and views:

| Theorem | States |
|---|---|
| `NewInvariant`, `NewTypeCorrect` | the inductive invariant, and the types it contains |
| `NothingNewIsPassed` | `PassedIsListed` |

The next checkpoint is the start of the view that marks, so the invariant must speak of views in flight: all
times are past (`TimesArePast`), what a view cannot see although it is older had been open when some view
started (`OldIsStored`), and once it has listed, everything up to its start was listed (`CheckpointsAreSafe`).
That a view sets the checkpoint back does no harm there.

`Opportunity` with `PipelineRules`, for any editors and members (assumed: "nobody" is no member, and a row starts
as a lead):

| Theorem | States |
|---|---|
| `OpportunityTypeCorrect` | the types |
| `AdviceAlwaysFits` | `AdviceFitsRow` |
| `LogTellsEveryState` | `LogKnowsRow` |

Advice fits the row although an edit writes what it computed from an old row, because an edit writes the stage
and the action together: `OpportunityInv` says that what an edit in flight holds fits itself, whatever the
row has become, also when its due date passes under it. `SuggestedFits` says it of every text the rule can produce, with
all its parts. And it says that what an edit which keeps stage and action has read is in the audit log, which is all
that such an edit can bring back without an entry. The half of `AdviceFitsRow` about scores is arithmetic, for every combination of signals:
`ScoreIsPercentage`, `ScoresCompare` (rounding keeps the order), `ScoreIsCapped` and `CappedScoreIsFair` (the cap of a
restriction, and that it keeps the order).

`Work_proofs` has the scheduled work, and what `MCWork` composes. `KeyRotation`, for any companies, columns and
numbers:

| Theorem | States |
|---|---|
| `RotationInvariant`, `RotationTypeCorrect` | the inductive invariant, and the types it contains |
| `RotationLosesNothingQuiet` | `QuietCompaniesSurvive` |

Before the commit the copy must be what the table holds, for the companies that saved nothing
(`CopyIsCurrent`); before it all rows are under the old key, after it theirs are under the new one
(`RowsAreReadable`).

`SourceChecks`, for any finite set of notices and any number of comparisons and checks:

| Theorem | States |
|---|---|
| `SourceTypeCorrect` | the types |
| `RedMeansStillWrong` | the action property `RedIsNotAlreadyFixed` |
| `ShownErrorsAreTold` | `ShownErrorIsTold` |

A comparison reports from what it read and what it was told, both old. `UncrossedIsCurrent` says that for a
settled notice neither is out of date unless another comparison has committed since: an ingestion or a move of
the source would have unsettled the notice. With `SettledIsRight` such a notice is no change, so a change the
comparison counts is unsettled. For the mails, `UncrossedIsAlone` gives a check that nobody overtook the true
previous result, and `ErrorIsAboutToBeTold` says who will tell an error that is on display and not yet told.

`Upkeep`, for any number of days:

| Theorem | States |
|---|---|
| `UpkeepTypeCorrect` | the types |
| `TotalSilenceIsCaught` | `SilenceIsMailed` |

The daily check looks at the age of the last success, the property counts silent checks. `AgeTellsSilence`
ties the two: 24 hours for each silent check are at most the age, plus the hours that are left until the next
check. The age passes the threshold before the count can pass the bound.

| Theorem | States |
|---|---|
| `WorkTypeCorrect` | `TypesOK` of the composition |
| `WorkIsSound` | all other properties of `Work.cfg` |

As in `Platform_proofs`, `WorkParts` shows that a behaviour of `MCWork` is one of each of its seven components.

So every safety property that a passing run checks is a theorem, for every value of the constants (those of `Core` and
`TaxonomyLearning` as theorems of each component's own specification).
Model-checked only are the three liveness properties `RollingBackJobEnds`, `OrphanIsReaped` and
`RotationReachesEveryPage` (liveness under fairness is out of the prover's reach), and the violations.

A prefix `SUBSET` or `UNION` before a set difference is always in parentheses: the model checker and the
prover group the two differently without them.

## Not modelled

Not at all:

- *Supplier credentials*: one comparison of a date with today.
- *Intelligence reports, the product report*: queries that keep nothing. They filter differently (the procurement
  funnel leaves test fixtures out, `procurement_intelligence.py` 35-54, the sector, customer and market queries do not),
  so their agreement is not a property of the code.
- *Text helpers*: formatting and filters over strings.
- *Schema and row-level security*: PostgreSQL enforces them; the modules are about one tenant, and take from the
  schema the constraints and cascades that handlers rely on.
- *Frontend, deployment scripts*: no state of the API's.
- *Retention*: one delete per table by age; no check reads its rows.

Inside the modelled parts: names, contacts and values a normaliser extracts; the walk of CPPP over listing
pages that shift under it; the interval jobs of the scheduler, for which the code gives no guarantee that
could be stated (a process that restarts often enough starves them); which records a comparison samples over
time; the health checks besides the one for awarded but open tenders, which have the same shape; the monthly
copies of backups, pruned like the daily ones; the rotation of `users.mfa_secret`, which is that of the
tenants' columns; profile edits, invitations and rate limits; what a classifier or a miner finds; the job
row of a learning run; normalisation failures of single records; the text of audit entries (that `opportunity.stage_changed` is written, or
not, is modelled); changes of a keyword's weight and standalone flag; which notices are of one tender.

## Plan

What would come next, in this order:

1. The CPPP walk as a fourth shape of `IngestionRun`, with pages that shift, and overlapping runs of one cursor.
2. `Backups` as a refinement of `JobLedger` without its reaper: rows of `backup_jobs` are never reaped.
3. That every record of a source is compared in the end, under a fairness of the sample that the code would
   first have to provide.
