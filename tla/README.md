# A TLA+ model of the third-party risk platform

This directory holds TLA+ modules for the core of the platform in this
repository (FastAPI handlers over SQLAlchemy, on SQLite or Postgres), TLC
configurations that check them on small instances, and TLAPS proofs of the
properties that should hold for instances of every size. `PROJECT.json` is the
index: components, runs, the source lines behind every definition, the hazards
the properties are aimed at, what was found, and the theorems.

To check one run: `tlc -config AuditChain_sessions.cfg MCAuditChain.tla`. To check
a module's proofs: `tlapm AuditChainProofs.tla`. In both cases run the tool in
this directory.

Paths below are relative to the repository root (`src/` in the index).

## 1. Inventory

How the program runs. `app/bro_app.py` builds one FastAPI application. Its
handlers are plain functions, so they run concurrently on a pool of threads.
Each request gets its own SQLAlchemy session from `db()` (bro_app.py:1182), and
the session is closed, without a commit, when the handler ends. A handler
typically loads rows, decides, changes mapped objects, calls `audit()`, and
commits. A scheduler thread runs monitoring, and research runs in threads of its
own. Nothing but the database connects two of these, apart from a few objects in
memory (circuit breakers, the rate limiter).

Three facts about this arrangement drive most of the models:

- The session keeps the rows it loaded. A decision taken on a loaded row is
  taken on that row as it was, and the UPDATE at commit names only the columns
  whose value differs from the loaded one.
- On SQLite a transaction takes the single write lock at its first flushed
  INSERT, UPDATE or DELETE. A SELECT before that takes no lock. On Postgres
  writers of different rows do not wait for one another.
- `autoflush` writes what the session has pending before the next query.

So a handler that writes before it reads is one step, and one that reads first
is at least two: what it read may be out of date when it writes.

| Part | State | Operations | Interactions | Hard behaviours | What makes it correct |
|---|---|---|---|---|---|
| Audit chain (`bro_app.py` `audit`, `routers/domain.py` verify) and erasure (`features/admin/privacy.py`) | table `audit_log`: seq, actor, action, prev hash, entry hash | `audit()` in any handler; full and windowed verify; `execute_erasure` | every mutating handler calls it in its own transaction; erasure rewrites what was hashed | two handlers read one newest row; rollback; window cut by count; two commits, the second one's failure swallowed | the committed chain verifies; the window is the newest rows; erasure breaks the rows it edits and no other |
| Circuit breaker (`features/platform/reliability.py`) | failures, opened_at, probe_at per dependency | `state`, `allow`, `record`, `call_protected` | shared by the threads of one process | the lock is released between reading the state and reserving the probe; late reports; calls that never report | opens exactly at the threshold; one probe at a time; closes after recovery |
| Idempotency keys (`reliability.py` `idempotent`) | table `idempotency_keys` | claim, produce, record, release, purge | wraps vendor creation | retries, crashes between three transactions, database errors, expiry | one vendor per key; every answer is the answer of that execution |
| Assessment review (`registry_service.py`, `routers/domain.py`, `assessment_capture.py`, `master_service.py`) | assessments: status, sign-off, lock, assessor; engagements: latest assessment, band, last and next date, reassessment reason | create (three ways), sign off, approve, recall, reassign, assign, edits that schedule a reassessment | an assessment drives its engagement's dates; edits of the vendor or the engagement and integrity fixes make a reassessment due | overlapping requests on one record, or on one engagement row; orders of sign-off and edits | HIGH only after sign-off; locks stay; link, reason and dates agree with the assessments |
| Finding register (`registry_service.py`, `routers/assessment.py`) | findings, `id_counters`, `engagements.open_actions` | create, add without count, update, delete, plan | ProAssess, performance CAPAs and incidents add findings | numbers minted from a stale counter; roll-ups from stale rows | counter ahead of the numbers in use; the roll-up never shows too many |
| Issues, screening, revalidation, monitoring (`registry_service.py`, `lifecycle/monitoring.py`, `routers/intelligence.py`, `admin/email_intake.py`) | issues, certificates and their status, `is_critical`, monitoring runs | screen, revalidate, file a certificate (three ways), `run_all` | the monitoring run screens and revalidates in one transaction, beside the same requests | check-then-insert by requests and sweeps at once; verdicts older than what they overwrite; closing by the first word of a name; tasks that fail half way | one open sanctions issue per vendor; nothing reported twice or after it was settled; verdicts and expiries reach the register in the end |
| Research jobs (`routers/_shared.py`, `static/app.js`) | table `research_jobs`, AI reports, the page that polls | start, thread, status, retention, polling | the thread files a report and updates indicators of the vendor | four transactions that can each fail; a process that dies; a row deleted while somebody polls | one verdict that stands; what the page is told is so, of indicators without a report too; a job ends |
| Criticality engine (`master_service.py`) | inputs, designations, override, contract rows and their marks, vendor flag | analyse, set inputs, two overrides, sanctions hit, create and edit a contract | the flag is evidence for the watchlist | engine against overrides; edits that loaded a row before it was marked | an override is respected; the contracts a designation found are and stay marked |
| Watchlist (`watchlist_service.py`) | criteria, candidates, entries | sweep, decide, add, update, switch | looks at the vendor flag of the engine | overlapping decisions and sweeps; a commit inside another operation | approved means listed; a sweep leaves nothing out; a criterion is proposed again only by sweeps that crossed |
| Risk engine and autonomous assessment (`bro_engine.py`, `master_service.py`) | none: pure | tier, band, route, residual, decision; `run_proassess` | used by engagements | thresholds, floors, caps and notches | worse answers and weaker controls never give a milder result |
| Conversations with the agents (`routers/brocall.py`, `routers/assessment.py`, `static/app.js`) | stage and dossier of a session; messages | tools of a voice call (facts, stage, finding, verdict), written turns, capture | the verdict is computed from the dossier; capture files an assessment | the dossier is read, changed and written whole; one tool call may arrive twice; only the last hundred findings stay | the verdict covers what was found, and does not soften |
| Engagements of version 1 (`routers/domain.py`, `routers/lifecycle.py`) | stage, status, bands, decision | IRQ, DDQ, override, contract, sign-off, cancel, terminate | computes with the risk engine | answers resubmitted after a decision; columns written in parts | a standing decision covers the band; a contract has its verdict |
| Consolidated risk profile (`master_service.py`) | up to 20 snapshots per vendor | refresh, record reputation, publish a scorecard, view | written by findings, finance, reputation and performance | each writer fills only its own fields; pruning; views that read before the lock | what was published or found last is shown; old values disappear |

The parts that are not modelled are listed with their reasons in section 8, and
the hazards, each at its line, in `PROJECT.json`.

## 2. Order of work

The order followed what depends on what: `AuditChain` (every mutation goes through it),
`CircuitBreaker`, `OnceStore` and `Idempotency`, `AssessmentReview` (the core workflow),
`FindingRegister`, `IssueRegister` with the monitoring runs, `ResearchJobs` with
`JobBoard`, `Criticality` and `Watchlist` composed with it, the pure engine, its two
users and the conversations, and `RiskProfile`. One run per question: most modules have
one run for what holds, and two runs show a disagreement with the repository's text.

What a continuation would take up: the performance register (measurements, SLA
breaches and CAPAs), and progress notes and risk acceptance in `FindingRegister`.

## 3. Modules and code

Each model has a module with its state, actions and properties, an `MC` module
that adds what TLC needs (symmetry, sample inputs), a `.cfg`, and proofs in a module
of their own. Some of these are about two models: `ReliabilityProofs` about
`CircuitBreaker` and `Idempotency`, `RollupProofs` about `FindingRegister` and
`RiskProfile`, where something is counted in one place and shown in another,
`WatchlistProofs` about `Criticality` and `Watchlist`, and `AssessmentsProofs` about
the engine and its users; so the variables and specifications of `CircuitBreaker`
and `RiskProfile` have names of their own (`BreakerSpec`, `ProfileSpec`). Some
definitions have an alternative beside them ("wrong:", or described in the
comment): a plausible mistake in the code behind it, which no specification uses;
putting it in the place of the definition breaks a property.

**AuditChain.** `log` is the committed table, `pending` what each session has
added, `phase` how far its handler is, `holder` the SQLite write lock. `Audit` is
`audit()`: flush, read the newest row visible to the session, add the next.
`Commit`, `Close` (rollback, exception, crash), `Erase` and `AuditErasure` (the
two transactions of erasure, once the personal-data map is signed: `signedOff`).
The hash is taken as collision-free: a digest is the sequence of bodies hashed
into it, without the sequence number, which `chain_hash` does not cover. Two history
variables say when the serial order is gone: `overtaken`, the sessions past whose added
rows somebody has committed, and `overlapped`, that one of those has committed itself.
`FullIntact` and `WindowIntact` are the two walks of the verify endpoint.
`SerialWriters` says whether the database is SQLite, `AuditOnlyHandlers` whether
some handler has nothing to write but the audit row (domain.py:1923, 1998).

**CircuitBreaker.** One `_Breaker` and the threads that call through it. `ReadState` and
`Reserve` are the two halves of `allow()`, between which the lock is free. `Report` is
`record()`, `Vanish` a call that never gets there. `callAge` is how long a probe has
been out, and `misled` (history) the threads that read "half-open" before some report
and go on after it. Time stamps are ages that stop at the cooldown, because the code
only compares them with it. `Recover` is the dependency coming back. No module calls
`call_protected` yet; the model gateway uses `allow` and `record` in the same order
(llm_config.py:393) and does not report a call with an empty answer.

**OnceStore, Idempotency.** `OnceStore` states the promise: one execution while
the key is remembered, and a result given to a client is the result of the request
it made. `Idempotency` has the key's row and each attempt at `Lookup`, `Claim`,
`Produce` or `ProduceRaises`, `Record` or `Release`, each its own transaction,
with `Crash`, `RecordFails` and `ReleaseFails` in between. `Purge` deletes rows
older than a day, finished or not; an attempt is assumed to take less than a day
(`DayPasses`). `PartialWork` says whether `produce` may raise after it flushed rows.

**AssessmentReview.** Assessments are numbered records, engagements records with
link, band, reason and dates. A request on one assessment is two steps: a `Load...`
action with the handler's checks, which computes the changed columns, and `Write`,
which applies just those columns. A sign-off or approval also dates the engagement
(`record_last_assessment`). If it changes the assessment, the query for the engagement
flushes that change first, so the engagement row is the newest and all is one step; if
it repeats what the row shows already, there is nothing to flush, and the engagement is
loaded without a lock (`LoadDates`). The edit of an engagement (`LoadEdit`) and an
integrity fix that changes no field of the vendor (`LoadFix`) load it so, too;
`WriteEngagements` then writes the columns that differ from what was loaded. `mixed` is
history: the engagements on which the last such commit left out a column that another
request had changed meanwhile. Handlers that write first are one step: `Create`,
`AutoAssess` (one record of its own and one from `register_proassess`), `Assign`,
`UpdateVendor`. `Open` stands
for three statuses no handler distinguishes. `None` as a band stands for no band
and for every band below HIGH.

**FindingRegister** (on SQLite). `LoadCounter` and `Create` are the read and
the write of `next_id` with the INSERT; `Collide` is the INSERT the
unique constraint refuses. `LoadUpdate` and `Update` are the PUT: `seen` is the
engagement row `_assessor_owns` may have loaded, which SQLAlchemy compares the new
count with, and `counted` the count of a request that changed no column and
therefore counted before it had the lock. `misread` is a history variable: the
engagements whose count was last computed from something stale.

**IssueRegister** (on SQLite) composes screening, revalidation, certificate filing and
the monitoring run. `work` is what a session has read, `pend` what it has flushed and
not committed, `holder` the write lock. Three things screen, and each looks at something
else: `ScreenEntities` takes the worst verdict of the legal name, the owners and the key
people, `ScreenName` that of any name the request gives, and the monitoring run
(`Rescreen`) that of the legal name alone. `ScreenApply` is `apply_screening_outcome`;
`Revalidate`, `Check` and `Raise` the sweep over certificates; `File` and `FileApply`
the filing, which supersedes whatever number it is given; `StartRun`, `TaskRaises` and
`Done` the run, whose isolated tasks share a session, so that a task that fails half way
leaves what it wrote. Feeds change (`LoadFeed`) and certificates age (`Ageing`) outside.
An issue that is closed is never opened again, so only open ones are kept.

**JobBoard, ResearchJobs.** `JobBoard` is the promise to whoever starts a job: one
verdict until it is forgotten, one report at most, and nothing told that is not so.
`ResearchJobs` has the row, the thread with its transactions (`Research`, `Store` and
`Indicate` in the first, then `Mark`, `MarkError`, `Retain`), the process it lives in
(`Crash`), and the page that polls (`Poll`, `GiveUp`). `filing` is how storing the report
went: its failure is swallowed, and the session goes on if the database had no part in
it. It is shown to implement the board.

**Criticality, Watchlist.** `Criticality` is the engine for one vendor: inputs in
hundredths with the rounding of doubles at the threshold (`RoundsBelow`), the analysis
that designates engagements, vendor and contracts, the overrides, the sanctions hit, and
the contract rows: `CreateContract`, `LoadContract` and `UpdateContract`,
`MarkContracts` for the rows there are at a designation, and the history `late` for
those that were linked or unmarked since. What a request loads before it has the lock
(`LoadInputs`, `ReadAnalysis`, `ReadOverride`, `LoadVendor`, `LoadContract`) decides
which columns it writes. `Watchlist` extends it with desks whose sweeps read criteria,
entries and candidates in three steps and commit once, or fail because another sweep
took the number (`FailSweep`), and with decisions, entries and switches. `crossed` and
`blind` are history: what a sweep under way could not see, and the candidates it
proposed all the same. `WatchNext` interleaves both.

**RiskEngine, ProAssess, Engagements, Conversations, Assessments.** `RiskEngine` holds
the scoring functions as operators (exposures, weights in quarters of a per cent,
floors, routes, notches; blanks in the names of values are hyphens, which the provers
can read), `ProAssess` those of `run_proassess` on top. `Engagements` is one row with
requests that load, compute, and write the columns that differ from what they loaded.
`Conversations` is one session of the agents: `Read` loads stage and dossier, the tools
(`UpdateDossier`, `SetStage`, `RecordFinding`, `ComputeVerdict`) and a written `Turn`
change what was read and write it back; `Save` is the commit. Of the dossier it keeps
the two bands, the findings and the verdict; what agents learn goes over it field by
field (`Merged`). `worst`, `lost` and `rewritten` are history: what was found, and
whether something may have overwritten it. `Assessments` puts the three into one
specification; they share nothing but bands and rules, so a behaviour goes one way only.

**RiskProfile.** `profile` is the vendor's snapshots, `view` what a vendor view or a
refresh of rollups has read. `Refresh` appends a snapshot that carries the newest
performance and reputation forward and prunes; `Publish` and `RecordReputation`
add one of their own after or before a refresh. A publication without a composite score
is left out (section 7). `Latest` is the coalescing read.
`overtaken` is history: rollups a view that had read older ones wrote over.

## 4. Runs

| Run | Instance | Shows |
|---|---|---|
| `audit` | 3 sessions, 2 actors, 3 rows, window 1, one writer; erasure from the moment the map is signed | `TypeOK`, `ChainIntact`, `WindowIsNewestRows`, `BreaksAreRewrites` |
| `audit_audit_only` | 2 sessions, 4 rows, handlers that only audit | violates `ChainIntact` (section 7) |
| `breaker` | 3 threads, threshold 2, cooldown 2, fairness | `TrippedIffFailing`, `OneProbeAtATime`, `ClosesAfterRecovery` |
| `idempotency_faults` | 3 attempts, 2 bodies, crashes, database errors | `AtMostOneVendor`; `Idempotency` implements `OnceStore` |
| `review` | 2 sessions, 1 engagement, 1 assessor, 2 assessments of which one is worked on, 1 day | `TypeOK`, `ApprovedHighWasSignedOff`, `EngagementAgrees`, `LockStays` |
| `review_signoff` | the same | violates `ApprovedHighIsSignedOff` |
| `findings` | 2 sessions, 1 engagement, numbers 1 and 2 | `NeverOvercounts`, `CounterCoversIds` |
| `issues` | 1 vendor, 2 certificates, a request and the monitoring run, fairness | `SingleSanctionsIssue`, `SweepRaisesOnce`, `RefreshSettles`, `VerdictPrevails`, `OverdueIsRaised` |
| `research` | 2 jobs, one of them about a vendor, 2 processes, 1 crash, every transaction may fail, fairness | `ResearchInv`, `IndicatorsAreTold`, `RunningEnds`; `ResearchJobs` implements `JobBoard` |
| `oversight` | 2 desks, 2 sessions of the engine, 1 engagement, 1 contract, 1 criterion on the vendor flag, 1 entry, 2 candidates | `WatchTypeOK`, `EngineRespectsOverride`, `CriticalContractsMarked`, `ApprovedHasEntry`, `SweepMissesNothing`, `RepeatsAreCrossings` |
| `scoring` | all questionnaire answers with at most one data type (13,824), all answers to 4 controls; 2 requests in flight on one engagement, 5 in all; 2 calls in flight in one conversation, 5 in all, 2 findings kept | `Typed`, `WorseAnswersNeverEase`, `DeficiencyNeverEases`, `DecisionCoversInherent`, `ContractHasVerdict`, `VerdictCoversFindings`, `VerdictStands` |
| `risk_profile` | 2 views, 2 findings of different severity, 2 scores, 1 verdict, 2 snapshots kept | `ProfileTypeOK`, `RollupsStand`, `SeverityShown` |

Why the bounds are enough to see the interesting cases:

- Audit: a fork needs two sessions; the third lets one wait for the lock while
  another commits. Three rows exceed the window by two, so it is cut and moves.
- Breaker: three threads allow a call from before the circuit opened, a running
  probe and a second probe at the same time. With threshold 2 a first failure does
  not open the circuit; with cooldown 2 a clock tick can fall inside a cooldown.
- Idempotency: three attempts give one that runs, one that retries during it and
  one that retries after the answer, a crash or the purge. Two bodies tell a retry
  from a reuse of the key. `MaxEffects` = 3 is one per attempt.
- Review: two requests are what it takes for one to decide on a row the other
  changes; two assessments of one engagement make its link and dates contend, and
  `AutoAssess` fits. An assessor and none let a reassignment change something. One day
  separates a date from a later one. Rows refer to one engagement each, so a second
  engagement adds nothing that interacts. `Narrow` keeps the run small: one of the two
  assessments is worked on and the other stays as created, one of the two requests at a
  time has loaded the engagement (the other dates it with its commit), and the vendor's
  edit, which schedules as the integrity fix does, is explored as the fix. The proofs
  are about any of these at once.
- Findings: two numbers allow a stale counter, a collision, a deletion and a number
  minted again. Two requests are needed for each stale read.
- Issues: a request and the run are the two parties of every race, and each may be
  anywhere in its work. The verdict on the legal name and the one a request applies are
  chosen apart, so an owner may be hit while the vendor is clear. Two certificates allow
  one that replaces another, and their names share the vendor's first word, so that a
  filing settles everything it can.
- Research: of two jobs one may delete the row of the other; a process may die with
  one, both or no jobs on it. A job that is not about a vendor has no indicators.
- Oversight: two desks overlap sweeps and decisions; the criterion is one that
  follows the vendor flag, which the engine changes in between. Two sessions are what a
  stale row takes, and one contract may be created, moved, marked, unmarked and marked
  again. `Apart` keeps the run small: contracts and overlapping requests of the engine
  are explored while the watchlist is untouched, and the watchlist next to one override
  or screening, or none while two sweeps overlap. Contracts and watchlist share nothing
  but the vendor flag, which overrides and screenings set both ways.
- Scoring: the functions are checked on every combination of answers but two:
  regimes count like one other question, and the data types are looked at one at a
  time and added one at a time. Four controls reach the cap of the notches. The
  engagement gets answers of three bands and controls that raise by nought to three.
  Of five calls in a conversation one may record a critical finding, one give a
  verdict, two push the finding out of a window of two, and one ask again.
- Risk profile: with two snapshots kept, two refreshes prune everything that was not
  carried forward. Two scores tell an older one from the last.

Symmetry is used only where no liveness property is checked and the constants are
interchangeable. Deadlock checking is off where a run really may stop: every
attempt is answered, or every bounded counter is used up and all requests are
over.

## 5. Fairness

`CircuitBreaker` (`FairSpec`, for `ClosesAfterRecovery`). Weak fairness of `Tick`:
the clock moves. Of `ReadState` and `Reserve`: requests keep arriving at the
dependency and threads are scheduled; without traffic nothing probes, and the code
does not promise to close then. Of `Report`: a call that was entered returns or
raises, since the clients carry request time-outs. Calls begun before the recovery
may still vanish or fail. `Recover` is not fair.

`IssueRegister` (`LiveSpec`, for `VerdictPrevails` and `OverdueIsRaised`). Strong
fairness of `StartRun`: the scheduler's loop comes round again and again, and the
guard on recent runs lets a run start again and again. Strong fairness of `Proceed`:
a session that is under way computes, and one that waits for the SQLite lock retries
until a release is its turn; weak fairness would not do, because others take the
lock in between. `SweepsSucceed` is a premise of both properties: from some point
on no monitoring run is cut short. Requests may stop arriving, and may fail. While they
keep screening, with verdicts of their own, a clear vendor is without an issue again and
again; that it stays so has the further premise that no request screens any more
(`NoRequestScreens`).

`ResearchJobs` (`FairSpec`, for `RunningEnds`). Weak fairness of each thread: one
that is alive takes its next step. Polling, crashes and days are not fair.

## 6. Proofs

| Theorem | For every | Under |
|---|---|---|
| `AuditType`, `RowsContinueOneChain`, `IntactUnlessOverlapped`, `WindowExact`, `OnlyRewritesBreak` | number of sessions, rows, actors, on one writer or many, with audit-only handlers and erasure | nothing more; all but the first say something while no overtaken session has committed |
| `WritersHoldTheLock` | same | one writer (SQLite) |
| `BreakerInvariant`, `BreakerType`, `BreakerTripped`, `BreakerOneProbe` | number of threads, threshold, cooldown at least 1 | no fairness |
| `IdempotencyInvariant`, `IdempotencyAtMostOnce`, `IdempotencyImplementsOnce` | number of attempts and bodies, with crashes and database errors | the last two: `produce` leaves nothing flushed when it raises |
| `ReviewInvariant`, `ReviewTyped`, `ApprovedAfterSignOff`, `LocksStay`, `FlagMeansDue`, `LatestIsLinked`, `DatesAreReviewed`, `EngagementsAgree` | number of requests, assessments, engagements, users, days; any cadence of at least a day | nothing more |
| `CounterCovers`, `RegisterTypes`, `RollupsNeverOvercount` | number of requests, engagements and numbers | nothing more |
| `RegisterTyped`, `OneSanctionsIssue`, `SweepReportsOnce`, `FilingsSettle` | number of sessions, vendors, certificates | nothing more |
| `ResearchInvariant`, `UntracedIndicatorsAreTold`, `ResearchImplementsBoard` | number of jobs, processes, crashes | nothing more |
| `OverrideIsRespected`, `CriticalContractsAreMarked`, `WatchlistTyped`, `ApprovedIsListed`, `SweepsAreComplete`, `RepeatsComeFromCrossings` | number of sessions, desks, sweeps at once, engagements, contracts, criteria | nothing more |
| `AssessingWorseAnswers`, `AssessingDeficiency` | set of answers, with any types of data; number of controls | the set of controls is finite |
| `AssessingInvariant`, `AssessingType`, `AssessingCoversInherent`, `AssessingContracts` | number of requests in flight and in all | as above |
| `AssessingCoversFindings`, `AssessingVerdictStands` | number of calls and of stages; any window of at least 1 | what agents merge has values of the fields it names (`FactsAreFields`) |
| `ProfileTyped`, `ProfileRollupsStand`, `ProfileSeverityShown` | number of viewers, findings and scores; 1 snapshot kept, or more | the set of findings is finite |

The arguments:

- *Chain.* `ChainIntact` is not inductive, because the next row was computed before
  the commit. `RowsContinueTheChain` adds that the rows of a session that was not
  overtaken continue the committed ones, in number and in hash. `AddedRowLinks` is
  the heart: the row built on the newest row of a chain extends the chain. A commit
  by a session that was not overtaken therefore keeps the chain one chain, and overtakes
  the others that have rows. Nothing is assumed of the database. What SQLite adds is
  `WritersAreNotOvertaken`: a handler that wrote before it audited holds the write lock
  from its first audit row on. So there only handlers that audit first, and the
  correction entry of erasure, can fork the chain, and `audit_audit_only` shows that
  they do. For erasure, rows are genuine unless they carry the pseudonym
  (`RowsAreGenuine`), so the walk stops at those and at no other.
- *Breaker.* A reservation protects a probe while it is in force, but any report ends
  it. A success also closes the circuit, and a failure, when the circuit was open
  before, starts its cooldown again. So while a probe is young, either the reservation
  is no older than the probe, or the circuit is closed, or it was opened after the probe
  was let go (`YoungProbesAreProtected`); and a thread that goes on to ask for a probe,
  with no report since it looked, has seen an open circuit older than any young probe
  (`TrueReaders`).
- *Keys.* Between claim and record the attempt owns the row, so there is one such
  attempt, and it runs with nothing committed for the key (`OwnerInv`); a stored
  result is the one that took effect (`StoredInv`). Each step of `Idempotency` is
  then a step of `OnceStore` or leaves its variables alone.
- *Review.* A row alone is not enough: the request that will set a lock has
  checked a row that may have changed since. `Justified` says what such a request
  had reason to do, with the history `signed`, which unlike the column is never
  taken back. The proof splits the invariant into rows, requests and engagements,
  so that each action is about the parts it touches. For the engagements, a commit
  either shows all it wanted, reason and date together, or puts the engagement into
  `mixed`; the link depends on neither, because creation writes before it reads.
- *Findings.* `CounterInv` says that, while no deleted finding's number was minted
  again, the numbers ever committed are exactly those up to the counter, and
  no request is about to store a number beyond the next one. A late request then
  either collides or mints a deleted number again. For the roll-up the invariant is
  inductive with the types: what a step does not recount can only have grown, what
  it recounts is exact, or it marks the engagement as misread.
- *Issues.* A session that has flushed holds the lock, so what it finds after that
  is what it commits on. The invariant says that for each point of its work, and
  that an issue it is about to add was missing when it took the lock. A filing that
  retires a certificate keeps the lock until it commits, and sees no open issue about
  it (`FilingInv`); `FilingsSettle` is the commit.
- *Research.* The invariant ties each job's row to the place of its thread
  (`StageInv`) and its report to both (`ReportInv`); each step is then a step of
  `JobBoard` or a stutter. Indicators are committed with the outcome that says whether
  a report came with them, and never by a broken session; nothing later changes either,
  and the page reads the outcome from a row that is done.
- *Oversight.* For an approved candidate the entry is committed with the decision,
  and entries stay. For a sweep, what was active or pending when it read and is no
  longer has been dealt with by somebody, which takes the criterion out of the set
  the property is about. For repeats, a criterion that is pending is one a sweep has
  read as pending, or one that came up after it had read (`KnownOrCrossed`); it proposes
  none of the first, and marks what it proposes of the others. For contracts, whatever
  designates an engagement marks its rows in the same commit, and a later request writes
  the mark only if it changes it, which makes the contract `late`.

- *Engine.* One set of answers is no milder than another when it says yes wherever
  that does, names the same data types at least, and ranks no lower in service and
  supply (`NoMilder`). Tier, exposures, the weighted sum and the floors are shown to
  grow with it, one lemma each, and band and route with them. For controls the
  argument is a count: a compliant answer that is turned into another adds to the
  partial or to the marginal ones and takes nothing from either (`NoBetter`), and
  the notches grow with both. TLC checks at most one data type at a time; the proof
  is about any set of them.
- *Engagements.* A commit writes the columns a request changed over whatever the row
  holds by then, so the row may be a mixture no request ever saw. `ContractHasVerdict`
  holds all the same, because no handler takes a residual band or a decision away
  (`NoVerdictLost`): what a request found in the row it loaded, and therefore did not
  write, is still there when it commits. `DecisionCoversInherent` is inductive as it
  stands; a request that found the row unchanged writes exactly what it computed.
  `StepsInv` is needed for the types: sets of offboarding steps and requests in
  flight together are no more than the requests there were.
- *Conversations.* While nothing was lost, the findings of the dossier are at least as
  bad as `worst` (`WorstInv`), and neither the dossier nor one that a call has read
  holds more than the window (`WindowInv`), so that recording one more drops one only
  when `lost` says so. A call that read an older dossier and writes it back sets
  `lost`. `StandInv` says that the residual band still is the last verdict, which is
  what makes the next one no milder.
- *Profile.* `RollupsStand` needs to know what each view in progress has read
  (`ViewInv`): what was recorded last, unless something was recorded since or had been
  overtaken before. Pruning loses nothing because the snapshot just added repeats what
  is shown (`RefreshKeeps`). For the severity, the newest `blank` snapshots have none
  (`Placed`); a refresh that counts no finding adds another such snapshot, so after
  `Keep` of them no older severity is left. `SeverityPlaced` has a second half for the
  snapshot a publication adds, which is one more than a refresh keeps.

`Max` of a set is a CHOOSE, and using it takes a proof that there is a greatest
member. The library's proof of that goes by induction over finite sets;
`MaxExists` derives it from the well-foundedness of the natural numbers: were there
sets without a greatest member, there would be a smallest one.

The strengthened invariants were checked by TLC on the instances of the runs before they
were proved. The assumptions on constants are evaluated by TLC in every run. The type
invariants of `FindingRegister` and `IssueRegister` are proved and not checked again in
a run.

Only model-checked: the liveness properties (`ClosesAfterRecovery`,
`VerdictPrevails`, `OverdueIsRaised`, `RunningEnds`), which rest on fairness and are
beyond the prover. Every invariant and every action property of the passing runs,
and both refinements, are proved, `ChainIntact` while no overtaken session has committed.

## 7. Where code and text disagree

Two runs end with a counterexample.

- `audit_audit_only`: two handlers that only audit read the same newest row, also
  on SQLite, and both commit a successor; verification fails from then on.
  `DB_HARDENING.md`:118 expects it to stay true. On Postgres any two handlers can.
- `review_signoff`: a reassignment that loaded the record before the approval takes
  the sign-off of an approved HIGH record away (domain.py:1750). What holds is that
  it had been signed off (`ApprovedHighWasSignedOff`).

The models also show these, which are not kept as runs. Where a formula or a history
variable is named, checking that formula, or the property without the exception for
that variable, gives the counterexample; where actions are named, they are the trace.

- Erasure does rewrite history. `privacy.py`:19-22 promises that "the hash chain stays
  intact" because a new correction entry is written "rather than editing history", and
  the map of personal data says "history is never rewritten" (privacy.py:74). But
  `execute_erasure` updates the actor of the committed rows, which their hashes cover,
  and the full walk stops there from then on: `FullIntact` fails in the `audit` run as
  soon as `signedOff` holds. What holds is that no hash is touched, so that no other row
  breaks (`BreaksAreRewrites`). The correction entry is written in a second transaction
  whose failure is swallowed (privacy.py:174): the answer says executed, and the log has
  no entry (`Erase`, then `Close`).
- Two probes may be out at once, although reliability.py:156 says "Exactly one probe at
  a time". `allow()` reads the state, releases the lock, and does not look again before
  it reserves, while every report frees the reservation (reliability.py:174). A thread
  that read "half-open" before a report, be it of the probe or of a call from before the
  circuit opened, gets a second probe after it. Without its exception for such threads
  (`misled`), `OneProbeAtATime` fails.
- A reassessment may be recorded with a reason and a date in the future, although
  `schedule_reassessment` says that it sets the date, "due now", and records the reason
  (registry_service.py:350-354). A vendor edit makes the engagement due today; an
  edit of the engagement loads that row; a sign-off commits, takes the reason away and
  moves the date; then the edit commits its reason, and not the date, which is what it
  had loaded (`mixed`).
- A recall that loaded the record before the approval leaves it with status Recalled
  (domain.py:1734) and locked, against "immutable hereafter" (registry_service.py:178).
- Two sweeps of the watchlist that overlap may propose one criterion twice, although
  `run_sweep` says "deduped against existing active entries + pending candidates"
  (watchlist_service.py:241-242). Nothing keeps two sweeps apart. If they draw the same
  number for their first candidates, the later one fails instead (`blind`).
- A contract that is created for, or moved to, an engagement already designated critical
  is not marked before the next designation (`late`); the comment says "mark supporting
  contracts critical when the engagement is critical" (master_service.py:793). And the
  mark is not only "set by Critical Vendors module" (master_ext.py:555): an edit of the
  contract sets or clears it.
- Indicators of a vendor may be updated without a report: storing it may fail with
  something other than a database error (too large, not encodable), which is swallowed
  (_shared.py:130) and leaves the session usable. _shared.py:178 says "The result is
  filed in AI Reports regardless of whether anyone waits". When the mark "done" fails, the
  page is told that the research failed, although report and indicators are there.
- The nightly run screens legal names only (monitoring.py:46), so it closes, or turns
  into a mere review, the issue that `/screen-vendor` has raised for an owner on a list
  (intelligence.py:263-281), which `test_sanctions_live_owners.py`:84-93 expects to be
  found. `VerdictPrevails` is therefore about the verdict on the legal name.
- A scorecard may be published without a composite score. Its SLA summary, incident
  count, cadence and date then stand in a snapshot that has no score, and the next refresh
  carries those of the last scored one over them (master_service.py:343-361), although
  its comment says a "refresh must not blank an existing rollup".
- Releasing a key commits what `produce` had flushed before it raised
  (reliability.py:104), and the retry creates it again: with `PartialWork = TRUE`,
  `AtMostOneVendor` is violated. A database error inside `produce` makes the
  release fail too, and the key stays in progress until it expires.
- Assigning an engagement changes the assessor of locked assessments
  (domain.py:1803), which the code calls "immutable hereafter".
- On SQLite `next_id` reads the counter without a lock, so two requests can mint one
  number and the second fails (`req[t] = Collided`); its docstring
  (registry_service.py:26-27) says this is invisible there. After a deletion a late
  request can set the counter below numbers in use, and then every creation collides
  (the case `CounterCoversIds` excludes with `reused`).
- The windowed walk trusts the previous hash its first row claims (domain.py:346),
  so a fork right below the window is not seen, although the docstring speaks of a
  verified predecessor.
- Answers sent to a terminated engagement reopen it and answers to a new one skip
  triage (domain.py:137); `core/lifecycle.py`:6-7 says "Termination is terminal". The
  endpoints do not use that stage machine.
- A vendor view that read before a publication and wrote after it puts the older
  score back, for good (`overtaken`); without that exception `RollupsStand` fails.
- `latest_risk_profile` takes the number of open findings from the newest snapshot,
  which after a publication is one without them (default 0, master_service.py:1171);
  the comment at 401-402 says the newest snapshot from refresh is authoritative. The
  portfolio shows 0 until the next refresh. A publication also leaves one snapshot
  more than the 20 that pruning keeps and `test_qc_hardening.py`:28 expects.
- The severity of findings that are all closed is shown, and raises the posture of the
  vendor view, until 20 further refreshes have pruned it (the second half of
  `SeverityShown`).

Noticed while reading, in code whose control is modelled:

- `run_due` looks for engagements in stage "monitor" (domain.py:747), which no
  endpoint sets, so it never creates a reassessment. `gen_contract` does not look at
  the decision. A second `terminate` adds a second set of offboarding steps
  (domain.py:193). A DDQ before the IRQ counts as LOW. An override changes the
  residual band and not the decision.
- Answers left out are scored as the mildest, so an assessment without a questionnaire
  may come out as "Approve"; the docstring (master_service.py:1308) promises the most
  risk-averse reading.
- With another marginal answer present, the only partial one on a question that is
  not critical lowers the residual band if it becomes marginal (bro_engine.py:193):
  the two are counted apart.
- A weighted score of exactly 3.5 may be computed as slightly less and miss the
  threshold of the criticality engine (`RoundsBelow`, e.g. 3, 5, 4, 2).
- An override that sets the flag its session had loaded writes nothing, so a concurrent
  analysis decides the flag (master_service.py:846). The flag a sanctions hit sets is
  taken away by the next analysis (registry_service.py:458), and a hit whose session had
  loaded the flag as set writes nothing at all (registry_service.py:456).
- The watchlist endpoints audit after the service has committed, and nothing commits
  the audit row (routers/watchlist.py:117), although bro_app.py:14 says every
  consequential mutation is in the log.
- A request may supersede any artefact, that of another vendor or one retired before
  (domain.py:2272), and two filings may supersede one and both stay current
  (domain.py:415). One received by mail supersedes the first current one whose first
  word occurs anywhere in its name (email_intake.py:126). `close_issues_for_engagement`
  is called by nothing.
- `compute_verdict` explains that a critical finding floors the residual band at HIGH
  "regardless of arithmetic" (brocall.py:239). It does while the finding is in the
  dossier: an overlapping call may have overwritten it, a merge may have replaced the
  list, or a hundred later findings pushed it out before the first verdict (`lost`). The
  page handles two events of the voice service that carry the same tool call
  (app.js:8524, 8526) and posts it twice at once.
- Two notes appended to a finding at once: one is lost (assessment.py:930).

## 8. Not modelled, and why

- *Performance, SLAs and scorecards*: publication is in `RiskProfile`. Measurements,
  issues and CAPAs race as `IssueRegister` shows in kind (check, then insert), on
  tables nothing else reads.
- *Exit planning*: independent rows, readiness recomputed at every view. Two first
  views of one vendor may both create a plan; triggers look for three spellings of a
  status and are never closed.
- *Incidents*: independent rows, which schedule no reassessment. Drafting the risk entry
  again makes a second finding (lifecycle.py:599).
- *Reference engine* (`app/core`, `app/api.py`): a second application over an
  in-memory store, which the running one does not import. *Trust lifecycle of the
  agents, evidence and policy resolution*: pure functions that only tests compose.
- *Run budgets*: nothing in the application enters `run_budget`.
- *Access control* decides per request from roles; the places where a role decides a
  transition are enabled for somebody, so the models allow the step.
- *Language models, connectors, document extraction*: external; a module that needs
  their answer takes any.
- Texts, formatting, layouts, notifications, mail, the web client except the polling
  of jobs, content studio, reports, migrations and seeds carry no protocol. They are
  also most of the repository's lines, which bounds the share a model can stand for.
- Inside the modelled parts: in `AuditChain`, time stamps and organisations are part
  of the body and not distinguished; in `FindingRegister`, notes, attachments, risk
  acceptance, dates, severity, the plan records, creation of the counter row and
  Postgres; in `AssessmentReview`, answers, scores and reports; in `IssueRegister`,
  mail notices, name matching and the three monitoring tasks that only count or mark
  engagements; in `Conversations`, facts no verdict depends on, messages and consent; in
  `Criticality`, which contracts name the vendor (any may be marked with it) and the
  portfolio report; in
  `Watchlist`, supplier notes; in `ProAssess`, what the financial and reputation
  engines find and the completeness score; in `RiskProfile`, publications without a
  score, the fields that go with a score, and bands, counts and dates that every
  refresh computes anew. In erasure, the other tables are column updates
  nothing else depends on.
