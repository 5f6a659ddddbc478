---------------------------- MODULE DailyPipeline ----------------------------
(* The chain behind the daily research dataset: backfilled candles and their  *)
(* batches, the feature runs, the target runs, the walk-forward plan and the  *)
(* dataset that is read from all of them. Each operation is one transaction   *)
(* at READ COMMITTED, in two steps: what it reads and checks, and what it     *)
(* inserts; other sessions commit in between.                                 *)
(*                                                                            *)
(* A candle is its day: daily candles are immutable. A value is identified    *)
(* with the days it was computed from; a hash of the candles with their days. *)
(* A batch becomes the active one only in the migration that added is_active: *)
(* no operation of the application sets the column.                           *)
EXTENDS Integers, Sequences, FiniteSets, FiniteSetsExt, SequencesExt

CONSTANTS
    Analysts,  \* sessions that call the endpoints
    Legacy,    \* batches a database of an earlier revision may hold
    LastDay,   \* bound on time
    Starts,    \* days a backfill may start from
    Window,    \* MAX_FEATURE_WINDOW: inputs of a bounded feature
    Horizon,   \* TARGET_HORIZON
    Plans,     \* walk-forward configurations a caller may ask for
    MaxRuns,   \* bound on the runs of each kind
    MaxBatches \* bound on ingestion batches

ASSUME DailyAssumption ==
    /\ LastDay \in Nat /\ Starts \subseteq Nat \ {0}
    /\ Window \in Nat /\ Horizon \in 1 .. Window
    /\ \A c \in Plans : {c.train, c.test, c.step, c.purge, c.holdout} \subseteq Int
    /\ \A history \in Legacy : /\ Len(history) \in Nat /\ DOMAIN history = 1 .. Len(history)
                               /\ \A i \in DOMAIN history : /\ history[i].days \subseteq 1 .. LastDay
                                                            /\ history[i].passed \in BOOLEAN

\* A bounded feature (SMA, Bollinger, volume) and a recursive one (EMA, RSI, MACD).
Features == {"sma", "ema"}

VARIABLES
    upgraded,      \* "no", "yes", or "failed": alembic upgrade head
    yesterday,     \* the last completed day
    days,          \* market_data_candles of 1d
    batches,       \* market_data_ingestion_batches of 1d
    featureRuns,   \* feature_pipeline_runs
    values,        \* engineered_features
    targetRuns,    \* forward_log_return_target_runs
    labels,        \* forward_log_return_targets
    plans,         \* validation_runs
    datasets,      \* the model-ready datasets handed to training
    work           \* what the transaction of each session has read

dailyVars == <<upgraded, yesterday, days, batches, featureRuns, values,
               targetRuns, labels, plans, datasets, work>>

Resting == [step |-> "rest"]
Ids(s) == DOMAIN s
Active(s) == {i \in Ids(s) : s[i].active}
\* one_or_none of the active row.
TheActive(s, i) == Active(s) = {i}

-----------------------------------------------------------------------------
(* Feature, target and split computations over an ordered set of days.        *)

UpTo(ds, d) == {e \in ds : e <= d}
Latest(ds, n) == {e \in ds : Cardinality({f \in ds : f >= e}) <= n}
\* The days the value of a feature at a day is a function of.
Inputs(name, ds, d) ==
    IF name = "sma" THEN Latest(UpTo(ds, d), Window) ELSE UpTo(ds, d)
\* run_feature_pipeline: a value once the window is full.
ComputedValues(ds) ==
    {[day |-> d, name |-> n, inputs |-> Inputs(n, ds, d)] :
        d \in {e \in ds : Cardinality(UpTo(ds, e)) >= Window}, n \in Features}

After(ds, d) == {e \in ds : e > d}
\* generate_forward_log_return_targets: the close Horizon candles later.
Labelled(ds) == {d \in ds : Cardinality(After(ds, d)) >= Horizon}
AvailableAt(ds, d) ==
    CHOOSE e \in After(ds, d) : Cardinality({f \in After(ds, d) : f <= e}) = Horizon
ForwardLabels(ds) == {[day |-> d, availableAt |-> AvailableAt(ds, d)] : d \in Labelled(ds)}

\* Positions of the days, as the split generator indexes the timestamps.
Slice(ds, from, to) ==
    {d \in ds : Cardinality(UpTo(ds, d)) > from /\ Cardinality(UpTo(ds, d)) <= to}

DevelopmentSize(ds, c) == Cardinality(ds) - c.holdout
Development(ds, c) == Slice(ds, 0, DevelopmentSize(ds, c))

\* _validate_config and the size check of generate_development_splits.
Splittable(ds, c) ==
    /\ c.train > 0 /\ c.test > 0 /\ c.step > 0 /\ c.holdout > 0
    /\ c.step >= c.test
    /\ Cardinality(ds) >= c.train + c.purge + c.test + c.holdout

TrainEnds(ds, c) ==
    {e \in c.train .. Cardinality(ds) :
        /\ (e - c.train) % c.step = 0
        /\ e + c.purge + c.test <= DevelopmentSize(ds, c)}
Splits(ds, c) ==
    {[train |-> Slice(ds, 0, e),
      test |-> Slice(ds, e + c.purge, e + c.purge + c.test)] : e \in TrainEnds(ds, c)}

-----------------------------------------------------------------------------
DailyInit ==
    /\ upgraded = "no" /\ yesterday = 0 /\ days = {}
    /\ batches = << >> /\ featureRuns = << >> /\ targetRuns = << >> /\ plans = << >>
    /\ values = {} /\ labels = {} /\ datasets = {}
    /\ work = [a \in Analysts |-> Resting]

Working(a, w) == work' = [work EXCEPT ![a] = w]
Rest(a) == Working(a, Resting)
Doing(a, step) == work[a].step = step

StoredBy(history) == UNION {history[i].days : i \in {j \in Ids(history) : history[j].passed}}

\* The batch the migration prefers: passed, longest, retrieved last.
Canonical(history) ==
    {i \in Ids(history) :
        /\ history[i].passed
        /\ \A j \in Ids(history) :
             history[j].passed =>
                \/ Cardinality(history[j].days) < Cardinality(history[i].days)
                \/ Cardinality(history[j].days) = Cardinality(history[i].days) /\ j <= i}

\* alembic upgrade head over a database of an earlier revision, before the
\* application serves. With daily batches and none passed, is_active becomes
\* NULL and the migration fails.
Upgrade ==
    /\ upgraded = "no"
    /\ \E history \in Legacy :
         /\ days' = StoredBy(history)
         /\ batches' = [i \in Ids(history) |->
                          [days |-> history[i].days, passed |-> history[i].passed,
                           active |-> i \in Canonical(history)]]
         /\ yesterday' = Max({0} \cup UNION {history[i].days : i \in Ids(history)})
         /\ upgraded' = IF history # << >> /\ Canonical(history) = {} THEN "failed" ELSE "yes"
    /\ UNCHANGED <<featureRuns, values, targetRuns, labels, plans, datasets, work>>

NextDay ==
    /\ upgraded = "yes" /\ yesterday < LastDay
    /\ yesterday' = yesterday + 1
    /\ UNCHANGED <<upgraded, days, batches, featureRuns, values, targetRuns, labels,
                   plans, datasets, work>>

\* Mutant: the batch that was just stored becomes the active one.
ActivateTheBatch(fetched, passed) ==
    IF passed THEN Append([i \in Ids(batches) |-> [batches[i] EXCEPT !.active = FALSE]],
                          [days |-> fetched, passed |-> passed, active |-> TRUE])
    ELSE Append(batches, [days |-> fetched, passed |-> passed, active |-> FALSE])

StoreBatch(fetched, passed) ==
    Append(batches, [days |-> fetched, passed |-> passed, active |-> FALSE])

\* persist_historical_sample of a daily backfill: stored candles are kept, a
\* failed sample leaves its batch only.
IngestDaily(start, passed) ==
    /\ upgraded = "yes" /\ Len(batches) < MaxBatches /\ start <= yesterday
    /\ batches' = StoreBatch(start .. yesterday, passed)
    /\ days' = IF passed THEN days \cup (start .. yesterday) ELSE days
    /\ UNCHANGED <<upgraded, yesterday, featureRuns, values, targetRuns, labels,
                   plans, datasets, work>>

\* The checks the transactions share: the active batch passed, and its count
\* and range are those of the stored candles.
DescribesAll(b) ==
    /\ days # {} /\ TheActive(batches, b) /\ batches[b].passed
    /\ Cardinality(batches[b].days) = Cardinality(days)
    /\ Min(batches[b].days) = Min(days) /\ Max(batches[b].days) = Max(days)

-----------------------------------------------------------------------------
(* compute_and_persist_features.                                              *)

SameValue(v, w) == v.day = w.day /\ v.name = w.name

\* A stored value that differs refuses the run; it is compared by what it was
\* computed from.
Immutable(computed) ==
    \A v \in computed, w \in values : SameValue(v, w) => v.inputs = w.inputs

ComputeFeatures(a) ==
    /\ upgraded = "yes" /\ Doing(a, "rest") /\ Len(featureRuns) < MaxRuns
    /\ \E b \in Ids(batches) :
         /\ DescribesAll(b)
         /\ Immutable(ComputedValues(days))
         /\ Working(a, [step |-> "features", batch |-> b, days |-> days])
    /\ UNCHANGED <<upgraded, yesterday, days, batches, featureRuns, values,
                   targetRuns, labels, plans, datasets>>

\* Mutant: a run is promoted whether or not it inserted a value.
AlwaysPromoted(inserted) == TRUE

Promoted(inserted) == inserted # {}

\* Mutant: earlier runs stay active.
KeepActive(runs, row) == Append(runs, row)

AppendRun(runs, row) ==
    Append(IF row.active THEN [r \in Ids(runs) |-> [runs[r] EXCEPT !.active = FALSE]]
           ELSE runs, row)

\* INSERT ... ON CONFLICT DO NOTHING, then the promotion, if rows came back.
PersistFeatures(a) ==
    /\ Doing(a, "features")
    /\ LET w == work[a]
           fresh == {v \in ComputedValues(w.days) : \A s \in values : ~ SameValue(v, s)}
           run == Len(featureRuns) + 1
       IN  /\ values' = values \cup
                {[day |-> v.day, name |-> v.name, inputs |-> v.inputs, run |-> run] : v \in fresh}
           /\ featureRuns' = AppendRun(featureRuns,
                [batch |-> w.batch, days |-> w.days, persisted |-> Cardinality(fresh),
                 active |-> Promoted(fresh)])
    /\ Rest(a)
    /\ UNCHANGED <<upgraded, yesterday, days, batches, targetRuns, labels, plans, datasets>>

-----------------------------------------------------------------------------
(* generate_and_persist_forward_log_returns.                                  *)

\* get_active_feature_run of the batch, with values and the candles it claims.
Usable(f, b) ==
    /\ TheActive(featureRuns, f)
    /\ featureRuns[f].batch = b /\ featureRuns[f].persisted > 0

\* _verify_existing_immutable_values, the provenance of the label included.
Unchanged(f) ==
    \A n \in ForwardLabels(days), l \in labels :
        n.day = l.day => /\ n.availableAt = l.availableAt
                         /\ l.featureRun = f /\ l.days = days

GenerateTargets(a) ==
    /\ upgraded = "yes" /\ Doing(a, "rest") /\ Len(targetRuns) < MaxRuns
    /\ \E b \in Ids(batches), f \in Ids(featureRuns) :
         /\ DescribesAll(b)
         /\ Usable(f, b) /\ featureRuns[f].days = days
         /\ Labelled(days) # {}
         /\ Unchanged(f)
         /\ Working(a, [step |-> "targets", batch |-> b, featureRun |-> f, days |-> days])
    /\ UNCHANGED <<upgraded, yesterday, days, batches, featureRuns, values,
                   targetRuns, labels, plans, datasets>>

PersistTargets(a) ==
    /\ Doing(a, "targets")
    /\ LET w == work[a]
           fresh == {n \in ForwardLabels(w.days) : \A l \in labels : l.day # n.day}
           run == Len(targetRuns) + 1
       IN  /\ labels' = labels \cup
                {[day |-> n.day, availableAt |-> n.availableAt, run |-> run,
                  featureRun |-> w.featureRun, days |-> w.days] : n \in fresh}
           /\ targetRuns' = AppendRun(targetRuns,
                [batch |-> w.batch, featureRun |-> w.featureRun, days |-> w.days,
                 active |-> Promoted(fresh)])
    /\ Rest(a)
    /\ UNCHANGED <<upgraded, yesterday, days, batches, featureRuns, values, plans, datasets>>

-----------------------------------------------------------------------------
(* create_validation_run.                                                     *)

OwnedBy(rows, r) == {x \in rows : x.run = r}

\* Mutant: no lower bound on the purge gap.
AnyPurge(c) == TRUE

PurgeCoversWindow(c) == c.purge >= Window

PlanValidation(a, c) ==
    /\ upgraded = "yes" /\ Doing(a, "rest") /\ Len(plans) < MaxRuns
    /\ PurgeCoversWindow(c) /\ Splittable(days, c)
    /\ \E b \in Ids(batches), f \in Ids(featureRuns) :
         /\ DescribesAll(b)
         /\ Usable(f, b)
         /\ Cardinality(OwnedBy(values, f)) = featureRuns[f].persisted
         /\ Working(a, [step |-> "plan", batch |-> b, featureRun |-> f, days |-> days,
                        config |-> c])
    /\ UNCHANGED <<upgraded, yesterday, days, batches, featureRuns, values,
                   targetRuns, labels, plans, datasets>>

\* ResearchChain has the race of two registrations; the loser's is Abandon.
RegisterPlan(a) ==
    /\ Doing(a, "plan")
    /\ LET w == work[a]
       IN  plans' = AppendRun(plans,
                      [batch |-> w.batch, featureRun |-> w.featureRun, config |-> w.config,
                       hashed |-> featureRuns[w.featureRun].days,
                       development |-> Development(w.days, w.config),
                       holdout |-> w.days \ Development(w.days, w.config),
                       splits |-> Splits(w.days, w.config), active |-> TRUE])
    /\ Rest(a)
    /\ UNCHANGED <<upgraded, yesterday, days, batches, featureRuns, values,
                   targetRuns, labels, datasets>>

-----------------------------------------------------------------------------
(* build_model_ready_dataset.                                                 *)

\* _validate_provenance: the four active rows describe one dataset.
Synchronized(b, f, t, p) ==
    /\ batches[b].passed
    /\ featureRuns[f].batch = b /\ targetRuns[t].batch = b /\ plans[p].batch = b
    /\ targetRuns[t].featureRun = f /\ plans[p].featureRun = f
    /\ targetRuns[t].days = featureRuns[f].days
    /\ plans[p].hashed = featureRuns[f].days

LoadProvenance(a) ==
    /\ upgraded = "yes" /\ Doing(a, "rest")
    /\ \E b \in Ids(batches), f \in Ids(featureRuns), t \in Ids(targetRuns), p \in Ids(plans) :
         /\ TheActive(batches, b) /\ TheActive(featureRuns, f)
         /\ TheActive(targetRuns, t) /\ TheActive(plans, p)
         /\ Synchronized(b, f, t, p)
         /\ Working(a, [step |-> "dataset", batch |-> b, featureRun |-> f,
                        targetRun |-> t, plan |-> p])
    /\ UNCHANGED <<upgraded, yesterday, days, batches, featureRuns, values,
                   targetRuns, labels, plans, datasets>>

\* Days for which the run owns a value of every feature, and the target run a label.
Eligible(f, t) ==
    {d \in {v.day : v \in OwnedBy(values, f)} :
        /\ {v.name : v \in {w \in OwnedBy(values, f) : w.day = d}} = Features
        /\ \E l \in OwnedBy(labels, t) : l.day = d}

Row(f, t, d) ==
    [day |-> d,
     features |-> {[name |-> v.name, inputs |-> v.inputs] :
                     v \in {w \in OwnedBy(values, f) : w.day = d}},
     availableAt |-> (CHOOSE l \in OwnedBy(labels, t) : l.day = d).availableAt]

\* The count of candles is read again; observations come by the ids of the runs.
ReadObservations(a) ==
    /\ Doing(a, "dataset")
    /\ LET w == work[a]
           eligible == Eligible(w.featureRun, w.targetRun)
           plan == plans[w.plan]
           development == {d \in eligible : d <= Max(plan.development)}
       IN  /\ Cardinality(days) = Cardinality(batches[w.batch].days)
           /\ eligible \subseteq development \cup (Min(plan.holdout) .. Max(plan.holdout))
           /\ datasets' = datasets \cup
                {[plan |-> w.plan,
                  rows |-> {Row(w.featureRun, w.targetRun, d) : d \in development}]}
    /\ Rest(a)
    /\ UNCHANGED <<upgraded, yesterday, days, batches, featureRuns, values,
                   targetRuns, labels, plans>>

\* An error or a lost connection rolls the transaction back.
Abandon(a) ==
    /\ ~ Doing(a, "rest")
    /\ Rest(a)
    /\ UNCHANGED <<upgraded, yesterday, days, batches, featureRuns, values,
                   targetRuns, labels, plans, datasets>>

DailyNext ==
    \/ Upgrade \/ NextDay
    \/ \E s \in Starts, passed \in BOOLEAN : IngestDaily(s, passed)
    \/ \E a \in Analysts :
         \/ ComputeFeatures(a) \/ PersistFeatures(a)
         \/ GenerateTargets(a) \/ PersistTargets(a)
         \/ RegisterPlan(a) \/ LoadProvenance(a) \/ ReadObservations(a) \/ Abandon(a)
         \/ \E c \in Plans : PlanValidation(a, c)

DailySpec == DailyInit /\ [][DailyNext]_dailyVars

-----------------------------------------------------------------------------
(* Properties.                                                                *)

Days == 1 .. LastDay
FeatureRunRows == [batch : Nat \ {0}, days : SUBSET Days, persisted : Nat, active : BOOLEAN]
FeatureRows == [day : Days, name : Features, inputs : SUBSET Days, run : Nat \ {0}]
TargetRunRows == [batch : Nat \ {0}, featureRun : Nat \ {0}, days : SUBSET Days, active : BOOLEAN]
LabelRows == [day : Days, availableAt : Days, run : Nat \ {0}, featureRun : Nat \ {0},
              days : SUBSET Days]

\* The tables, and the partial unique indexes on their active rows.
DailyTypeOK ==
    /\ upgraded \in {"no", "yes", "failed"} /\ yesterday \in 0 .. LastDay
    /\ days \subseteq Days
    /\ \A b \in Ids(batches) : batches[b] \in [days : SUBSET Days, passed : BOOLEAN, active : BOOLEAN]
    /\ \A r \in Ids(featureRuns) : featureRuns[r] \in FeatureRunRows
    /\ values \subseteq FeatureRows
    /\ \A r \in Ids(targetRuns) : targetRuns[r] \in TargetRunRows
    /\ labels \subseteq LabelRows
    /\ \A s \in {batches, featureRuns, targetRuns, plans} : Cardinality(Active(s)) <= 1

\* The active feature run owns every value its candles give, and the active
\* target run every label, although a run owns only the rows it inserted
\* itself: racing sessions, repeated calls and later candles leave no active
\* run with a part of them (compute_and_persist_features and
\* generate_and_persist_forward_log_returns promote only if rows came back).
ActiveRunsAreComplete ==
    /\ \A r \in Active(featureRuns) :
         {[day |-> v.day, name |-> v.name, inputs |-> v.inputs] : v \in OwnedBy(values, r)}
            = ComputedValues(featureRuns[r].days)
    /\ \A r \in Active(targetRuns) :
         {[day |-> l.day, availableAt |-> l.availableAt] : l \in OwnedBy(labels, r)}
            = ForwardLabels(targetRuns[r].days)

\* A dataset handed to training is the one a single pass over the candles of
\* its plan's batch gives: every development day with a full window and a full
\* horizon, with the values computed from those candles, whatever was ingested,
\* repeated or raced meanwhile (build_model_ready_dataset).
DatasetMatchesBatch ==
    \A x \in datasets :
      LET plan == plans[x.plan]
          ds == batches[plan.batch].days
      IN  x.rows = {[day |-> d,
                     features |-> {[name |-> n, inputs |-> Inputs(n, ds, d)] : n \in Features},
                     availableAt |-> AvailableAt(ds, d)] :
                      d \in {e \in Development(ds, plan.config) \cap Labelled(ds) :
                               Cardinality(UpTo(ds, e)) >= Window}}

\* In every dataset and split, the label of each training row is known before
\* the first test row is predicted, a test row's bounded inputs lie after the
\* training rows, and no test row is in the holdout: the purge gap of
\* generate_development_splits separates the two.
NoLookAhead ==
    \A x \in datasets : \A s \in plans[x.plan].splits :
      LET training == {r \in x.rows : r.day \in s.train}
          tested == {r \in x.rows : r.day \in s.test}
      IN  /\ s.test \cap plans[x.plan].holdout = {}
          /\ \A r \in training, q \in tested :
               /\ r.availableAt < q.day
               /\ \A v \in q.features : v.name = "sma" => \A e \in v.inputs : r.day < e
=============================================================================
