# Formal verification of AlphaLens

TLA+ specifications of the AlphaLens backend (`src/backend/app`), the TLC
configurations that check them on small instances, and TLAPS proofs that hold for
every value of the constants. `PROJECT.json` lists components, runs, mutants, the
lines every definition models, findings, hazards and theorems.

AlphaLens acquires BTC/USD candles from Kraken, keeps them as immutable canonical
evidence in PostgreSQL, derives features, targets and validation splits from them,
trains and selects a linear model, evaluates it once on a holdout, serves its
predictions over HTTP, and back-tests and paper-trades them. The processes share
nothing but the database: a FastAPI application whose handlers are coroutines with
one session per transaction, and command-line programs and schedulers beside it.
What is hard is therefore not in any one function but between two of their
transactions.

## Inventory

"State" names tables; all of them are insert-only except the counts of a batch,
which are completed inside the transaction that inserts it.

| Component (code) | State | Operations | Hard behaviour | What makes it correct |
|---|---|---|---|---|
| Kraken provider (`market_data/kraken.py`) | none | a page of OHLC rows | failures, short pages, revised values | external: its answers are inputs |
| Candle validation (`market_data/validation.py`) | none | `validate_candles` | boundaries, gaps | a passed window is contiguous and complete |
| Canonical candle store (`persistence/candles.py`, `market_data/conflicts.py`, `persistence/conflicts.py`) | `market_data_candles`, `market_data_ingestion_batches`, `market_data_source_conflicts` | `persist_historical_sample` under an advisory lock | concurrent writers of overlapping windows, all-or-nothing on conflict | insert-only, exact counts, exact conflict evidence |
| Acquisition orchestration (`market_data/orchestration.py`, `persistence/historical_orchestration.py`) | attempts, outcomes, checkpoints | `prepare_resume`, `record_attempt`, `persist_sample`, `record_failure`, `record_checkpoint` | crash between transactions, two processes, lost acknowledgement | every attempt is closed, checkpoints chain and verify for ever, stranded evidence is detected |
| Intraday ingestion (`market_data/history.py`, `persistence/intraday.py`) | the candle tables | fetch 5m and 15m, persist, derive 10m, persist | stop between three transactions, a source overtaken or refused | a 10m candle is the aggregate of its canonical 5m pair |
| Coverage snapshots (`market_data/coverage.py`, `persistence/coverage.py`) | snapshots, memberships | load at a cutoff, insert once, reload and verify | rows committed after the cutoff they belong to | a snapshot can be rebuilt for ever |
| Synchronization (`market_data/synchronization.py`, `persistence/synchronization.py`) | derivations, synchronized snapshots | load and persist three coverages, derive, synchronize | ingestion between the three loads | the three timeframes fit together and reload |
| Daily backfill (`market_data/history.py:100`) | none until it is persisted | fetch a page, move the provider's cursor, validate, pass or reject | pages that overlap, contradict, stall or jump | it ends; what passes is what the provider answered, every day once |
| Daily chain (`main.py`, `features/pipeline.py`, `targets/`, `validation/`, `research/dataset.py`, `persistence/features.py`, `targets.py`, `validation.py`, `provenance.py`, migration 0006) | daily batches, feature runs and values, target runs and labels, validation runs | ingest, compute, generate, plan, read the dataset | sessions racing at READ COMMITTED, partial runs, candles ingested after the batch was activated | active runs are complete, a dataset is that of its batch, no split looks ahead |
| Intraday features (`features/intraday_pipeline.py`, the formulas and registry, `persistence/intraday_features.py`, `features/live_validation.py`) | runs, shared values, memberships, dependency rows | load a snapshot, compute, verify, insert or reuse, promote, validate live | values shared by runs over different snapshots, racing inserts, warm-up and recursion | a run's members are what its own candles give; dependency rows explain each value |
| Quality, inspection, readiness (`market_data/quality.py`, `inspection.py`, `readiness*.py`, their `persistence/`, `historical_readiness.py`) | quality reports, readiness reports | count conflicts, load coverages, report; inspect at a cutoff, report readiness | evidence committed between two statements or after the cutoff it belongs to, outcomes dated before their commit | the verdict of a report for a settled cutoff stands, and the outcomes it names are final |
| Research chain (`research/*`, `persistence/*`) | experiments, prediction evidence, comparisons, explainability, statistics, diagnostics, regimes, selections | each report reads the ones before it | a predecessor of another validation run, two builders at once | a selection rests on evidence of one run |
| Holdout (`research/holdout_evaluation.py`, `persistence/holdout_evaluation.py`) | `holdout_evaluation_reports`, `holdout_consumptions` | lock the run, read the holdout, evaluate, consume, in one transaction | concurrent evaluations, a run superseded meanwhile, rollback | the holdout is read by one session and consumed once |
| Packaging and prediction API (`persistence/model_inference.py`, `model_packaging/`, `inference/*`, `api/*`, `persistence/prediction_api.py`, `persistence/dashboard.py`) | `model_inference_artifacts`, `prediction_api_audits`, counters in memory | package once; serve seven routes, audit every response | two packagers, an unacknowledged commit, an audit that fails after the answer is made, restarts | one artifact serves; a response is sent as made only if it is on record |
| Backtest (`backtesting/*`) | none | `simulate_risk_managed_portfolio` | order of open, protection and close; rounding | cash is conserved, no look-ahead |
| Paper trading (`paper_trading/*`, `persistence/paper_trading.py`) | reports | `run_cycle`, the scheduler | missed, raced and retried cycles; state reloaded by another process | equals one backtest of the same signals |
| Research statistics, report figures, plots, plain backtest metrics, label policies, frontend, logging | none | numeric functions of stored evidence, rendering, wiring | none of their own | not modelled |

Interactions: the orchestrator and the ingestion endpoint write the candle store
under the same advisory lock; coverage reads it through committed rows only;
synchronization reads coverages; features, targets, splits and research read one
another's committed rows by identifier; the daily chain further follows whichever
batch and runs are marked active; readiness reads what acquisition, synchronization
and quality left; packaging reads the selected experiment and the holdout report, the
API reads the packaged artifact; paper trading reads Kraken's daily candles
directly and keeps its whole memory in the report chain; it shares the risk manager,
the simulator and the position manager with the backtest.

## Modules and the code they model

**`CandleStore`** — the canonical table as a function from timestamps to an
observation or `NoCandle`, and the one transaction that writes it:
`SourceConflicts` (comparison with stored rows), `Promote` (`ON CONFLICT DO
NOTHING`), `PersistNative` (a native window with a conflict is kept out as a whole)
and `PersistUnchecked` (the derived 10m window is promoted without comparison).
`persist_historical_sample` holds an advisory lock from its first read to the
commit, so each use of these operators is one step of the modules that use them.

**`Acquisition`** (EXTENDS `CandleStore`) — `orchestrate_intraday_historical_window`
over the SQL store. `acq[a].pc` names the next statement of process `a`: under READ
COMMITTED each statement of `prepare_resume` sees its own snapshot, so
`ScanConflicts`, `FindIncomplete`, `CheckOrphanBatch`, `CloseOrphan`,
`LoadCheckpoint` and `VerifyCheckpoint` are actions of their own, and
`RecordAttempt`, `FetchWindow`, `PersistSample`, `ReadBack`, `RecordFailure`,
`RecordConflict` and `RecordCheckpoint` are the transactions after it.
`FetchFails`, `PersistFails` and `Crash` are failures before a commit and
`LateError` is a write that commits and is then reported as failed (`LateErrors`).
`IngestDirect` and `IngestInvalid` are the ingestion endpoint writing the same table
without an attempt. A configuration is a code version with its configuration hash.

**`RiskRules`, `Backtesting`, `PaperTrading`** — the risk manager, the execution
simulator and the position manager as operators on a book; the risk-managed
backtest as one pass over bars (`BookAfter` is one bar); and the paper-trading session of one configuration.
A worker fetches a snapshot (`fetch_completed_candles`), computes a cycle over the
latest report it reads (`PersistCycle`), and commits or fails at the flush (`Flush`,
`Abandon`). `RunCycle` is the whole engine: it processes every candle the prior
state has not seen, reloading the risk manager and the position from the report
(`Loaded`).

**`Synchronization`** (EXTENDS `CandleStore`) — the ingestion call
(`FetchFive`, `FetchFifteen`, `PersistFive`, `PersistFifteen`, `PersistTen`) and the
synchronization call (`StartSync`, then `LoadCoverage` and `PersistCoverage` for 5m,
10m and 15m, `PersistDerivations`, `PersistSynchronized`), each action one
transaction or one provider call. `Available` is the point-in-time selection,
`Derivable` and `Synchronizable` are what the builders demand before anything is
persisted. `AbandonIngest` and `AbandonSync` stop a call between two transactions.

**`ResearchChain`** — everything between a frozen daily dataset and the consumption
of its holdout. Each function of `persistence/` is one transaction at READ COMMITTED,
modelled as two steps: the one that reads and computes (`TrainExperiment`,
`CompareModels`, `ExplainModel`, `ValidateStatistics`, `DiagnoseResiduals`,
`AnalyzeRegimes`, `SelectModel`, `OpenHoldout`) keeps what it will insert in `job`,
the other inserts and commits it (`InsertExperiment`, `InsertReport`,
`CommitHoldout`). `create_validation_run` is three: the snapshot its UPDATE takes
(`StartValidationRun`), the wait for the rows in it (`LockActiveRuns`) and the insert
under the partial unique index (`RegisterValidationRun`). No lock is a variable: who
holds a row follows from `job`. `FOR UPDATE` (an evaluation) excludes another
evaluation, a creation and every foreign-key insert naming the run; `FOR NO KEY UPDATE`
(a creation) excludes evaluations and creations only. `Abort` is a session that ends
before its commit.

The ids the code hard-codes (`APPROVED_EXPERIMENT_IDS`, ...) are inputs of each call,
drawn from what is stored: one build fixes one choice, and successive builds against
one database make different ones. A report is identified with what its two hashes
cover, which is what the code compares.

**`CanonicalLedger`** — the abstract specification of the candle table: a ledger over
keys whose every write either fills empty keys under a number of its own or disputes
filled ones, never both, and never changes a row. Two modules implement it (`Ledger`,
`ImplementsLedger`): `Acquisition` with timestamps for keys, and `Synchronization` with
pairs of a timeframe and a slot for keys, so that the 5m, 15m and derived 10m rows are one
ledger. Both map the candles, the number of batches and the keys of recorded conflicts.

**`DailyPipeline`** — the daily chain. `Upgrade` is the data migration 0006, the only
code that ever sets `is_active` of a batch; `IngestDaily` stores a backfill. Each of
`compute_and_persist_features`, `generate_and_persist_forward_log_returns`,
`create_validation_run` and `build_model_ready_dataset` is two steps of a session's
`work`: what its transaction reads and checks (`ComputeFeatures`, `GenerateTargets`,
`PlanValidation`, `LoadProvenance`) and what it inserts or reads last
(`PersistFeatures`, `PersistTargets`, `RegisterPlan`, `ReadObservations`). `Splits`,
`Development` and `Splittable` are the arithmetic of `generate_development_splits`.
A feature value is the set of days it is a function of, which is what look-ahead and
reuse are about.

**`DailyBackfill`** — `fetch_btc_usd_daily_backfill` page by page, against a provider
that answers any page with any cursor; `Verdict` is the loop's decision, `Valid` the
validation of the joined rows.

**`IntradayFeatures`** — the registered outputs as three operators: from which
observation one exists (`Start`), the first candle its value depends on
(`FirstInput`), and what its dependency rows cite (`Links`); then the pipeline
(`LoadSnapshot`), the persisting transaction (`VerifySources`, `InsertAndPromote`),
the live validation around it (`CountValues`, `ReportLive`) and the pages that arrive
meanwhile (`StorePage`).

**`PredictionService`** — packaging (`StartPackaging`, `CommitArtifact`) and the API:
`Receive` runs a request to its first await, `LoadArtifact` and `LoadDashboard` are
the reads, `WriteAudit` the audit row, the replacement of the response, the counters
and the answer. `AnswerAtOnce` and `AnswerWith` are the order of the checks, and
`CallNext` is the branch of `observe_and_limit` in which the handler raises instead: the
answer is 500, with the artifact, and perhaps the prediction, the handler had noted. A
preflight request is answered 200 by `CORSMiddleware`, inside that handler.

**`HistoricalReadiness`** — quality generation (`StartQuality`, then
`CountConflicts` and `LoadCoverages` per timeframe in sessions of their own, and
`PersistQuality`), the inspection statement by statement (`Inspect` reads the attempts,
`InspectOutcome` and `InspectCheckpoint` the outcome and the checkpoint of one timeframe
after the other, then `InspectConflicts` and `InspectSynced`) and the readiness report
(`ReportReadiness`, `Blockers`), while ingestions, conflicts, synchronizations and the
transactions of acquisitions commit: `RecordAttempt`, `RecordFailure` (which stands for
`record_failure` and `record_conflict`), `CloseInterrupted` (the resumption's) and
`RecordCheckpoint` (checkpoint and outcome together). A row carries the time its
transaction began and commits up to `Lag` later. An outcome has no such time:
`_acquisition_evidence` admits it by `completed_at` (`OutcomeEvidence`), which every
caller but the resumption sets to the time the acquisition was given before its fetch,
so an outcome may be committed any time after a cutoff it belongs to.

**`Platform`** — the last five modules side by side. They share no state in the model, so
a variable `component`, chosen at the start, says which of them a behaviour exercises while
the others keep their initial state. The properties of a component are thereby checked on
exactly its own behaviours, and no product of unrelated states is built. `PlatformComposes`
proves that this loses nothing in the other direction: every behaviour of the platform is
one of each component.

**`MC*`** modules give the constants values for TLC; **`AcquisitionProofs`**,
**`PaperTradingProofs`**, **`SynchronizationProofs`**, **`ResearchChainProofs`**,
**`IntradayProofs`**, **`DailyProofs`** (with the backfill) and **`PlatformProofs`**
(prediction service, readiness and the composition) hold the theorems, **`Extremes`** the
lemmas several of them share on the least and the greatest member of a set.

### Abstractions

- OHLCV evidence is an opaque value; a hash of data is the data it hashes
  (collisions are out of scope). In `Synchronization`'s instance the aggregate tells
  every pair of values apart.
- A window that passed validation is contiguous, ends at the last completed candle
  and holds the latest `PageLimit` candles (fewer only when the clock is younger);
  one that failed is one kind of failure: the individual price rules are not told
  apart. Shorter pages are left out of `Synchronization`.
- Prices, fractions and quantities are integers in the smallest unit, and a division
  rounds down like the code's `Decimal` contexts at their last digit; the text round
  trip of a `Decimal` is exact. Lots are whole and there is no terminal liquidation.
- The action forecast for a candle is chosen when a cycle processes it: features such
  as an exponential average depend on where the snapshot begins, so two cycles need
  not agree about a candle.
- In `ResearchChain` one feature run and one target run are active throughout, training
  and statistics are functions of the experiments and reports they cite, and the family
  that wins a selection is any one. What a report reads in several statements of one
  transaction is read at once: the rows are insert-only, and what another session adds
  meanwhile could only make a check fail, apart from the active run, which the
  evaluation has locked.
- A daily candle is its day, and a daily value the days it was computed from;
  hashes of candles are the candles. Batches reach `DailyPipeline` whole: paging is
  `DailyBackfill`'s.
- An intraday value is its output, its candle, the first candle it depends on and the
  batch of its own candle; every formula reads a contiguous stretch that ends at its own
  candle. Outputs computed alike (the two directional indicators, the bands) are one;
  the periods are parameters.
- A prediction is its artifact and its feature vector. Of a request the model keeps path,
  method, the first check its body fails, and the vector. Artifact rows are never
  updated, so their hash checks do not fail.
- `HistoricalReadiness` counts time in candles of one size for all timeframes; an
  outcome succeeded or failed, and the ends that do not differ in evidence are one; an
  ingestion and a synchronization, detailed elsewhere, are one step.
- Audit events, performance figures, provenance fields, gap summaries and the
  5m/15m differences a synchronization reports are functions of what is modelled.

## What the runs show

| Run | Instance | Result |
|---|---|---|
| `acquisition_sequential` | one acquirer, two code versions, 3 attempts, 2 crashes, page of 2, 3 intervals | resumption closes every orphan, detects stranded evidence, never calls a persisted attempt interrupted, keeps one checkpoint chain of one code version and stops at a conflict |
| `acquisition_parallel` | two acquirers and the endpoint, lost acknowledgements, page of 2, 2 intervals | the tables are append-only, counts and conflict evidence are exact, checkpoints verify for ever, a persisted window reads back, and the table implements `CanonicalLedger`; `BatchAccounting` holds both the counts and the conflict evidence a batch stands for, with a mutant for each |
| `acquisition_lost_acknowledgement` | one acquirer, `LateErrors` | violation, below |
| `acquisition_race` | two acquirers | violation, below |
| `paper_trading` | two workers, 4 days of 3 bar shapes, window 3, lookback 2, every rule on | every report's book is the one-pass backtest of its signals; no look-ahead, no entry against cooldown or drawdown, no stop missed, cash conserved |
| `paper_trading_outage` | one worker, same instance | violation, below |
| `backtest_controls` | one worker, rules off | violation, below |
| `synchronization` | two ingestions and a synchronizing caller, page of 4, 5 intervals, cutoff 4 | what was synchronized can be rebuilt, past cutoffs settle, 10m candles match unless a 5m page clashed, a finished ingestion leaves no pair of its window without its 10m candle, and the table of all timeframes implements `CanonicalLedger` |
| `derivation_conflict` | same instance | violation, below |
| `research_chain` | two sessions, a ridge and a tree family, two configurations, two validation runs, one experiment per family and run, one report of each kind, one report built at a time | one active run, a holdout open in one session and consumed for the active run, a selection resting on one run |
| `research_closed` | same, one configuration | violation, below |
| `platform` | one of five components per behaviour: two analysts over 8 days and six upgraded databases; backfills of up to 4 pages from 23 possible ones; two writers over 7 candles, two pages of four windows and three runs; two clients, two packagers, two of five requests and a restart; one cutoff, a native and a derived timeframe, one attempt with its outcome, one conflict, one report of each kind | active daily runs are complete, a dataset is its batch's, no split looks ahead; a backfill ends and passes only what the provider said; feature runs own what their candles give and explain it; answers are on record and of one artifact; the verdict of a settled readiness report stands |

Why the bounds are enough. Acquisition: a checkpoint needs a predecessor, so three
attempts give a first window, a second that extends it and a third to be refused or
resumed; two intervals of a page of two give windows that overlap partly and wholly;
two values make a conflict; two crashes let a recovery itself crash. In the parallel
instance two acquirers with one attempt each and one direct batch interleave every
statement of one with every statement of the other. Paper trading: four days give a
signal, its fill, a protective exit and the end of a cooldown of one day; the three
bar shapes rise above the take-profit, hold and fall below every stop; a window one
longer than the lookback has one day of slack. Synchronization: pages of four hold
two 10m pairs, the second page slides by one candle so that a pair leaves it, and one
cutoff lies before the last tick. A page differs from a constant one in at most one
candle, which still makes every kind of overlap (equal, fresh, clashing in the first,
a middle or the last candle); `MaxSnapshots` lets a cutoff be synchronized again after
it was once. One syncer is checked; two would differ only in loads torn across three
ingestions, which is out of TLC's reach here. Research: two runs let each report be of
the wrong one, two sessions overlap creations, evaluations and inserts. The bounds of
one on reports are on drafting a report whose kind is stored already, and `MaxDrafts`
keeps two reports from being built at once: the proofs, which have no such bound, cover
what this leaves out.

Platform: two analysts overlap any two transactions of the chain; the six upgraded
databases have no daily batch, only a failed one, several passed ones, and an active
batch that is or is not the latest; eight days hold a window, a horizon, a purge and a
holdout of the sizes used, and let candles be ingested after the active batch. Pages of
up to five days include empty, overlapping, contradicting, unordered, gapped, untimed
and malformed ones. The intraday periods are the smallest that keep all warm-ups apart
(`Fast` 2, `Slow` 3, `Signal` 2, the others 2), and seven candles reach the last of
them (the average directional rating, 6); two pages may leave a gap, extend the history
forwards or backwards, or clash. Two requests are enough to interleave two handlers
and a restart; longer sequences repeat them, since handlers share only the artifact,
the audit table and the counters. The five requests are a prediction
that succeeds, one that fails a check of the service, one too large, the dashboard and a
preflight, which no audit row admits; a route without the artifact and an overlong path
take the same steps. Readiness has a cutoff in the past of some rows and in the future of
others, and a lag of one lets a row be committed after a cutoff its stamp precedes. It
has one attempt, whose outcome may be dated by the cutoff or after it and committed on
either side of every statement of the inspection and after the report. A second attempt,
to supersede the first or tie with it, triples the states beyond what TLC finishes in
minutes; the theorem covers any number of them, and of timeframes.

One property is a liveness property: `BackfillEnds`, under
`BackfillFairness == WF(FetchPage \/ ProviderFails)`. The code justifies it: the loop
does nothing but await the next answer, and the HTTP client's timeout turns a silent
provider into an error. No other run needs fairness, and the code's schedulers justify
none for the processes (an exception ends the paper scheduler's loop, and nothing
restarts an acquirer). `CHECK_DEADLOCK FALSE` is set where the bounds (clock, attempts,
ingestions, validation runs, reports, requests) make the model stop although the
program would go on.

Every property of a passing run has a mutant in `PROJECT.json`: a small change to
one definition of the code's model under which TLC finds the property violated. The
mutated forms stand beside the definitions they change, marked "Mutant", and no
action uses them.

## Findings

- **Lost acknowledgement** (`acquisition_lost_acknowledgement`). When
  `persist_sample` raises after the commit, the attempt is recorded as
  `PERSISTENCE_FAILED` with no batch; the committed batch is never noticed again,
  although `CheckpointReconciliationRequired` exists for committed evidence without a
  checkpoint.
- **Race of two acquirers** (`acquisition_race`). `prepare_resume` takes another
  process's running attempt for an interrupted one and records
  `INTERRUPTED_BEFORE_PERSISTENCE`; its batch is then persisted.
- **Outage** (`paper_trading_outage`). The guide promises that missed candles are
  processed; once the first unseen candle has fewer predecessors in the snapshot than
  the longest feature needs, every later cycle raises.
- **Controls are not independent** (`backtest_controls`). With the concurrent-position
  rule disabled, a BUY while a position is held aborts the backtest.
- **10m candles of a refused page** (`derivation_conflict`). The 10m window is derived
  from the 5m page in memory even when a source conflict kept that page out of the
  canonical table; the acquisition policy forbids it, and synchronizations that select
  such a candle raise from then on.
- **Development after the holdout** (`research_closed`). An experiment checks that the
  holdout is unconsumed before it trains and not when it is inserted, so one that was
  training when an evaluation committed is stored after it, although the code's own
  message says development is then closed. Without any overlap, a new validation run
  over the same data opens training again: consumption is keyed by the run's id, not by
  the dates of the holdout.

## Proofs

`AcquisitionProofs` proves for every set of acquirers, configurations and values and
every bound (from `AcquisitionAssumption` only: natural-number bounds, a positive page
and clock, `"none"` not a value):

- `TypeCorrect`: `Spec => []TypeOK`;
- `EvidenceIsAppendOnly`: `Spec => AppendOnly`;
- `CheckpointsAlwaysVerify`: `Spec => []CheckpointsVerify`;
- `ReadBackAlwaysMatches`: `Spec => []ReadBackMatches`;
- `StoreImplementsLedger`: `Spec => ImplementsLedger`, the refinement of
  `CanonicalLedger`: `PersistTransactionRefines` maps the transaction that writes the
  table to `Fill` or `Dispute`, by whether it met a conflict, and every other action to a
  stutter (`StepIsLedgerStep`); `IInv` supplies the shape of the sample.

`CheckpointsVerify` is not inductive: recording a checkpoint makes it true only
because of what the process holds in memory several transactions after it was
written. The invariant `IInv` is therefore `TypeOK`, `RowsSound` (every stored row
names an existing batch, and the rows of a batch are those it inserted), a
`RunSound` for each process (its attempt, batch and sample match the tables at each
`pc` after the commit, and the canonical rows hold its sample) and a
`CheckpointSound` for each checkpoint. Lemmas `RunSoundGrows`, `CheckpointSoundGrows`
and `HoldsGrows` carry the last two across any step that only adds evidence
(`EvidenceGrows`), so another process's step disturbs nothing; each action then has
to show only that it adds evidence and leaves its own run sound. `LocalStep`,
`ReturnStep` and `GotoStep` cover the read-only statements at once, and
`PersistTransactionKeeps` is the heart of the proof: the one transaction that changes
candles. `StepIsSound` combines one lemma per group of actions and `InvariantHolds`
closes the induction.

One more theorem holds for any acquirers: `BatchesAlwaysAccount`, from `AInv`.
`PersistTransactionAccounts` is the step: the transaction is the only one that adds rows or
conflicts, under a batch number no row carries yet, so the older batches keep their counts
and the new one's are those of the sample; and a recorded conflict names a row that no
later step rewrites.

What `Acquisition` promises of one acquirer at a time is proved under that hypothesis and
no other, `SingleAcquirer == \E a : Acquirers = {a}`: two acquirers do break it
(`acquisition_race` shows how), and no lock of the code excludes them.
`OrphansAreAlwaysClosed`, `InterruptedNeverPersisted`, `CheckpointsAlwaysChain` and
`ConflictAlwaysStops` are invariants of any configurations and values, with crashes, failed
and unacknowledged writes, and the ingestion endpoint racing the acquirer;
`StrandedEvidenceIsAlwaysDetectable` needs `~ LateErrors` besides, as its run does: a write
that commits and is reported as failed closes the attempt that holds its batch. The
invariant is `LoneInv`: the tables (`LoneTables`) and what the run may rely on at each
statement of its resumption (`LoneRun`): which attempt is the open one, that nothing is
open once a checkpoint is being looked up, that the predecessor it verified is the latest
checkpoint, that a conflict on record stops it. With two runs none of this survives the
other's next transaction, which is why the theorems need the hypothesis.

`ResearchChainProofs` proves from `ResearchAssumption`, for any sessions, families,
configurations and bounds:

- `OneActiveRunHolds`, `HoldoutOpenedOnceHolds`: `Spec => []OneActiveRun`,
  `Spec => []HoldoutOpenedOnce`;
- `ConsumedRunIsCurrentHolds`: `Spec => ConsumedRunIsCurrent`;
- `SelectionIsCoherentHolds`: `Spec => []SelectionIsCoherent`;
- `ResearchTypeOK`: `Spec => []TypeOK`.

The first three of them follow from `IInv` (theorem `Invariance`): `UniqueActive` (one active
run, without cardinalities), `EvaluationIsOpen` (a run whose holdout is open is
unconsumed and the active one), `LockExcludes` (no two evaluations of a run, and no
creation that holds it beside one) and the shapes these need. `EvaluationIsOpen` is what
the row lock buys: a creation must hold the active run to insert another, and cannot
while it is being evaluated. `SelectionIsCoherentHolds` needs `RInv`: every stored report *and every
report being built* rests on one run, since a draft is inserted steps after its checks. `TypeOK`
says more than shapes (records refer to stored ones, a residual report's evidence is
stored, there are no more runs than allowed), and follows from `TInv`: what an open
transaction refers to is stored already, `JobLater` carries this over the steps of others
(`Grows`), and a creation that started before the last allowed run was registered is one
the unique index refuses (`RunAllowed`).

`PlatformProofs` proves of the prediction service, for any clients, packagers and requests
(`PredictionSpec`):

- `OneArtifactAlwaysServes`: `PredictionSpec => []OneArtifactServes`, from
  `NamesTheArtifact`: the answers still being made name the artifact too, so the one
  inserted while they wait for their audit cannot be another;
- `AnswersAreAlwaysAudited`: `PredictionSpec => []AnswersAreAudited`, from `Numbered` (the
  requests being handled have different numbers, and none of them has an audit row yet)
  and `Audited` (no more successes are counted than rows confirm). Without `Numbered` an
  audit insert could find its own row there already and the count of rows would fall
  behind the counter.

Neither needs an assumption on the constants. `PredictionTypeCorrect`, the types of answers
and audit rows, needs `PredictionAssumption`: requests have a path, a method and a body
that passes or fails one of the checks.

`IntradayProofs` proves from `IntradayAssumption` (positive periods, the fast average of
the MACD no slower than the slow one, `features/macd.py:35-36`), for any writers, pages and
numbers of runs:

- `MembersAlwaysMatch`: `IntradaySpec => []MembersMatchTheirSources`. The invariant
  `SourcesStand` says that what a session holds is a stretch of stored candles with the
  batches they have, and that every stored run claims what its stretch gives.
  `SourcesGrow` carries both across a page, which only fills empty candles (`OnlyFills`),
  because a result is a function of its stretch (`ComputedFromSources`: every output
  starts inside the snapshot). The inserting step rests on `AgreementIsEquality`: rows
  that are part of a finite result and as many as it are the result, which is what the
  reconciliation and the count check of the transaction establish about rows inserted by
  others. The proof does not need that the sources were verified before the insertion:
  they cannot have changed.
- `EachValueIsInsertedOnce`: the counts of the runs are summed as one set of numbered
  insertions (`Insertions`), so that the sum over all runs is a cardinality, and
  `CountsAddUp` adds a run's own to the rows it adds.
- `LineageAlwaysExplains`: one lemma per family of outputs shows that following `Links`
  back along the output reaches every term of the series and leaves the stretch nowhere.
- `IntradayTypeCorrect`, with `IntradayBounds` (the feed's pages lie on the time line): no
  two stored rows have one output and candle, each depends on candles from the first to its
  own (`InputsInside`, `InputsNotLater`) and carries the batch of a stored one, and at most
  one run is active. Uniqueness is the part that needs an argument: a session inserts what
  no stored row is identical to *now*, whatever it saw when it verified its sources.

`DailyProofs` proves from `DailyAssumption` (days and the plans' fields are numbers, the
batches a migration finds hold days from 1 to the last and passed or did not, an ingestion
starts at a day, and the horizon is positive and within
the window, as 5 (`targets/forward_log_return.py:14`) is within 50
(`persistence/validation.py:32`)), for any analysts, window, horizon and plans:

- `ActiveRunsAreAlwaysComplete`: `DailySpec => []ActiveRunsAreComplete`. The invariant
  `DailyInv` rests on `OneSnapshot`: every run and every transaction still open computed
  from the same days, those of the one active batch. It holds because the active batch
  must have as many candles as the canonical table, and the table only grows: once a
  candle is ingested after the active batch, no transaction opens again. From it follow
  `FeaturesComplete` and `TargetsComplete`: either nothing is stored and no run is active,
  or one active run stored everything and a later run finds all of its rows there. That a
  run inserted only a part of its rows, the hazard, is thereby impossible although no
  statement of the code forbids it.
- `DatasetsAlwaysMatch` and `NoDatasetLooksAhead`, from `DatasetInv`: what each session
  has read is exactly the days of the active batch (`SnapshotsRead`, `PlansOpenRead`,
  `DatasetsOpenLoaded`), every plan is one the planner accepts for them (`PlansRead`), and
  nothing exists before the migration. The second follows from the first and the
  arithmetic of `Splits`: at least `Window` purged days separate the last training row
  from the first test row, a label is known `Horizon` days later, and `Horizon` is within
  `Window`.
- `PassedBackfillsAreFaithful`: `BackfillSpec => []PassedBackfillIsFaithful`, from
  `BackfillAssumption` (the day and the page limit are numbers, pages are sequences of
  rows): any provider, any cursors. `Keep`, the filter of a page, is a recursive function,
  and `KeptUpTo` and `KeepsWanted` reason about it by the least index where the claim
  would fail; no induction theorem is needed.
- `DailyTypeCorrect` and `BackfillTypeCorrect`: the tables keep their types and at most one
  batch, feature run, target run and plan is active. The partial unique indexes are not
  guards of the model: storing an active run deactivates the others (`AppendRunActive`),
  and the migration activates one batch. `MaxPages` is positive because the settings reject
  anything else (`settings.py:107`).

`SynchronizationProofs` proves from `SynchronizationAssumption` (a positive page limit no
longer than the time line, cutoffs are numbers, every pair of 5m values has one
aggregate), for any ingesters, synchronizers, cutoffs, values and page size:

- `TypeCorrect`, `TenMinuteAlwaysMatches`, `FinishedIngestsLeaveNoPair`,
  `SynchronizationsAlwaysReload`: the four invariants the run checks;
- `CutoffsSettle`: `Spec => PastCutoffsAreSettled`, an action property;
- `TimeframesImplementLedger`: `Spec => ImplementsLedger`, the refinement of
  `CanonicalLedger` by the tables of all timeframes. `PersistSampleRefines` covers the two
  native transactions and the unchecked promotion of derived 10m candles at once: whatever
  the sample, a conflict-free one fills empty keys and a clashing one changes none.

Their invariant is `SyncInv`. `IngestInv`, its first half, says of an ingestion between two
transactions what it may still rely on (`IngestSound`): the batch it persisted is its 5m
window, and unless some 5m window ever met a conflict that window is still what the table
holds. This is the fact that ties the 10m candles, derived from memory, to canonical rows.
The other half says of a synchronization at each `pc` that the rows it selected are still
in the tables and that the snapshots it has stored are those (`SyncSound`), and of every
stored synchronization that it reloads (`Reloads`). All of it is carried across the steps of
others by `EvidenceStands`: no row, batch, conflict, snapshot or derivation is ever changed
or lost, and the clock does not go back. `CutoffsSettle` needs besides that whatever enters
a table in a step was retrieved by a call in flight or is retrieved now.

`PlatformProofs` also proves from `ReadinessAssumption` (cutoffs and the delay of a commit are
numbers) and `ReadinessBounds` (an attempt's transaction does not begin before the
acquisition's own time), for any timeframes, acquisitions, cutoffs and interleaving,
`SettledReportsAlwaysStand`: `ReadinessSpec => []SettledReportsStand`. `NothingSeen` is
the step property behind it: once a cutoff is settled, every row still to be committed
carries a later time, so what a query bounded by the cutoff returns does not change any
more; outcomes alone may be added. `LatestStands` shows this of the latest
synchronization and quality report, which the code picks by order. What keeps an added
outcome from mattering is `CheckpointsConclude`: a checkpoint has the outcome of its
attempt, committed with it and dated no later, so an attempt whose checkpoint an
inspection sees has its outcome already, whatever order the two statements run in. The
invariant `InspectorStands` says which part of the evidence an inspection already holds
(`ReadStands`: the outcomes of the timeframes it is done with or is at, `Taken`, and the
checkpoints of those it is done with, `Checked`), `ReportsStand` says it of the finished
reports. `ReadinessTypeCorrect` needs
the rest of `ReadinessBounds` (some timeframe, native ones among them, pages of slots): a
quality generation holds counts and coverages of the same timeframes, up to the one it is reading
(`ReaderAt`), and every timeframe when it persists, so a stored report has them all.

`PlatformProofs` last composes. `PlatformSteps` says that a step of the platform is, for
each component, one of its steps or a stutter; from it

- `PlatformComposes`: `Spec` implies the specification of each component, the fairness of
  the backfill included;
- `PlatformTypeCorrect`: `Spec => []TypeOK`, from the five type theorems;
- `PlatformKeepsPromises`: the ten safety invariants of the components hold of `Spec`, the
  specification the run checks.

`PaperTradingProofs` proves every property of the `paper_trading` run, for any workers, bars,
actions, window, lookback, number of days and risk configuration. It assumes what the
configuration objects check (`RiskAssumption`: fractions in (0, 100%], a positive capital
and allocation), a bar whose prices lie between a positive low and its high
(`BarAssumption`), and two bounds that the code leaves to its caller: slippage below 100%
(above it every sale raises, `execution.py:103`) and transaction costs of at most 100%
(above it a sale would take cash). `AbsenceAssumption` says that the value for an absent
record is none of the records.

- `SessionTypeOK`: `Spec => []TypeOK`; cash is a natural number and a position has a
  positive quantity in every report;
- `SessionExecutesAtNextOpen`, `SessionConservesCash`, `SessionHeedsRisk`,
  `SessionHonoursStops`: `Spec => []P` for `OrdersExecuteAtNextOpen`,
  `CashIsConserved`, `NoEntryAgainstRisk` and `OpenPositionSurvivedItsStops`;
- `SessionMatchesBacktest`: `ASSUME OnePosition PROVE Spec => []PaperMatchesBacktest`. The
  hypothesis is a configured limit of one position. Without it a BUY while a position is
  held raises in the backtest (`backtest_controls` shows this) and the two no longer have
  a common result.

None of the properties is inductive: they speak of a report, and the next report is
computed from that one alone, day by day. The invariant `SessionInv` says that every
stored report, and every report a worker is about to insert, is sound (`ReportSound`); of
the worker's phase it needs nothing else, which is why races, retries and crashes
disturb nothing. A state is sound before a day (`StateSound`) when its book is a `Ledger`
(orders explained by earlier signals, fills alternating, a running balance above the
reserve, closes and peak in step, each entry allowed by the closes before it), its
position has survived its `Stops` with a watermark that is the highest price since its
entry, and, under `OnePosition`, the book is where the backtest's bar-by-bar path over
the same signals ends (`Traced`). `ObserveKeeps` is the heart: one candle carries this
through the pending order (`Entered`, `Exited`), the protective exits and the close,
one lemma for each part and move. `LoadedIsSame` shows that reloading a sound state
changes nothing, since its watermark is never below its entry. `SameStep` shows
that the paper order and the backtest order give one book, as both see at most one
position. `RunCycleKeeps` carries soundness across a catch-up of any length and
`TracedSimulates` identifies the path with `Simulate`, both by the least day where
the claim would fail (`SamePath`).

Only model-checked: liveness (`BackfillEnds`), which the provers cannot do, and the runs
that expect a violation. Every invariant and every other action or refinement property of
a passing run is a theorem. `SingleAcquirer`, `~ LateErrors` and `OnePosition` are the only
hypotheses beyond the assumptions on the constants, and each is the instance of a run.

## Observations

What follows from the models and contradicts no line of the repository, but a
maintainer should know:

- No code of the application activates a daily batch; migration 0006 does, once. A fresh
  database therefore never has an active batch, and features, targets, validation runs
  and datasets always refuse. In an upgraded one the chain refuses from the first daily
  candle ingested after the active batch on. The migration itself fails when daily
  batches exist and none passed (`is_active` becomes NULL).
- A gap in the stored intraday candles, or a page that adds a candle before the first
  one, makes every later feature run of the timeframe refuse: recursive values change
  with the start of the history, and stored values are immutable. The registry calls
  the directional index and the average rating bounded, although they inherit the
  recursion of what they are computed from.
- Of two feature results persisted out of order, the older snapshot stays active.
- The audit table admits GET and POST and 128 characters of path only, so a request with
  another method or a longer path is answered 503, and counted. A CORS preflight is one:
  `observe_and_limit` wraps `CORSMiddleware`, so its 200 is replaced as soon as the
  allowed origins are configured. `prediction_count` includes predictions whose
  audit failed and which were not delivered.
- The readiness report of a settled cutoff is not quite reproducible: its blockers are,
  but an attempt it shows as IN_PROGRESS may be shown with its failure by the same
  validation later, because `completed_at` is the time the acquisition began, and the
  content hash changes with it. `InspectOutcome` and `InspectCheckpoint` are two
  statements, so for a cutoff that is not settled a report may show a checkpoint and an
  open attempt that have committed together.
- A quality report counts conflicts by the close of the candle, the inspection also by
  when the row was stored, so two reports of one cutoff can differ; nothing in the
  application calls `generate_historical_quality_report`. A latest attempt that failed
  or is still open does not block readiness.

## Not modelled, and why

HTTP and JSON parsing of the provider, logging, settings, resource probes, plots, report
wording and the frontend are I/O and rendering. Regressions, residual diagnostics,
regime statistics, explainability, selection scores, holdout metrics, performance
figures and the arithmetic of indicators are numeric functions of stored evidence that
TLC cannot judge: what they read, and when, is modelled. The backtest without risk rules
is the same loop with fewer rules. Label policies are constants with no operation.
Of the migrations only the one that changes data is modelled, and of it what it does to
the batches: feature and validation runs older than it (without a batch) are not. That a
holdout is read again when an evaluation rolls back is modelled (`Abort`) and contradicts
nothing the repository says; that the last development labels are computed from closes
inside the holdout is in the model (`AvailableAt`), outside `NoLookAhead`, and allowed by
the research specification.

## Plan

Done, in this order: the candle store and acquisition with their proofs; risk rules,
backtest and paper trading; synchronization; the research chain with its proofs; the
ledger refinement; the daily chain, the backfill, intraday features, the prediction
service and readiness, the proofs of all of these, those of paper trading, the ledger
refinement of the three timeframes, and last the composition of the platform and its types.

Nothing of the plan is left. What a later revision of the code would call for first: the
statistics of the research reports, whose evidence flow `ResearchChain` models and whose
arithmetic it does not, and fractional lots and terminal liquidation in `Backtesting`.
