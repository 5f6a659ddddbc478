---------------------------- MODULE ResearchChain ----------------------------
(* The research pipeline over one frozen daily dataset: validation runs,      *)
(* baseline experiments, the five evidence reports, the final model selection *)
(* and the one-time holdout evaluation. Every function is one PostgreSQL      *)
(* transaction at READ COMMITTED: it reads and computes, then inserts and     *)
(* commits. Two steps per call, because others commit in between.             *)
(*                                                                            *)
(* A record is identified with its content, what its hash covers; a repeated  *)
(* experiment, the one record that may be stored twice, carries a copy        *)
(* number. The ids the code hard-codes (APPROVED_...) are an input of each    *)
(* call: a build fixes them, and successive builds fix different ones.        *)
(* Training, statistics and plots are functions of the cited records and are  *)
(* left out; the family that wins the selection is any one.                   *)
EXTENDS Naturals, Sequences, FiniteSets

CONSTANTS
    Procs,      \* sessions that may run the functions concurrently
    Families,   \* model families
    Trees,      \* the tree families, which explainability is approved for
    Ridge,      \* the family the holdout evaluation accepts
    Configs,    \* walk-forward configurations with a sufficient purge gap
    Registered, \* the one the holdout evaluation accepts (purge 50, holdout 10)
    Kinds,      \* the reports a model bounds separately
    MaxRuns,    \* bound on validation runs
    MaxCopies,  \* bound on the experiments of a family in a run, when built
    MaxReports, \* bound on the reports of a kind, when built
    MaxDrafts   \* bound on the reports built concurrently

ASSUME ResearchAssumption ==
    /\ Trees \subseteq Families /\ Ridge \in Families \ Trees
    /\ Registered \in Configs
    /\ Kinds = {"comparison", "explainability", "statistical", "residual",
                "market", "selection"}
    /\ MaxRuns \in Nat /\ MaxCopies \in Nat /\ MaxDrafts \in Nat
    /\ MaxReports \in [Kinds -> Nat]

VARIABLES
    runs,         \* validation_runs in creation order
    experiments,  \* regression_experiments and their splits
    evidence,     \* experiments with rows in experiment_prediction_evidence
    reports,      \* the report tables, of all kinds
    consumptions, \* holdout_consumptions with their holdout_evaluation_reports
    job           \* what each session's open transaction holds

vars == <<runs, experiments, evidence, reports, consumptions, job>>

RunIds == 1 .. Len(runs)
Idle == [op |-> "idle"]
ActiveRuns == {r \in RunIds : runs[r].active}
\* build_model_ready_dataset finds its one active run.
Current(r) == ActiveRuns = {r}
Consumed(r) == \E c \in consumptions : c.run = r
OfKind(k) == {x \in reports : x.kind = k}

Init ==
    /\ runs = << >>
    /\ experiments = {} /\ evidence = {} /\ reports = {} /\ consumptions = {}
    /\ job = [p \in Procs |-> Idle]

Become(p, j) == job' = [job EXCEPT ![p] = j]

-----------------------------------------------------------------------------
(* Row locks on validation_runs. An evaluation holds its run FOR UPDATE; a    *)
(* creation holds the rows it deactivates FOR NO KEY UPDATE, which the key    *)
(* share of a foreign key check does not wait for.                            *)

Evaluating(p, r) == job[p].op = "holdout" /\ job[p].draft.run = r
Superseding(p, r) == job[p].op = "register" /\ r \in job[p].held
RowFree(r) == \A q \in Procs : ~ Evaluating(q, r) /\ ~ Superseding(q, r)
\* A row that references the run can be inserted.
KeyShareFree(r) == \A q \in Procs : ~ Evaluating(q, r)

-----------------------------------------------------------------------------
(* create_validation_run.                                                     *)

\* The UPDATE has taken its snapshot of the active rows.
StartValidationRun(p, config) ==
    /\ job[p] = Idle
    /\ Len(runs) < MaxRuns
    /\ Become(p, [op |-> "supersede", config |-> config, seen |-> ActiveRuns])
    /\ UNCHANGED <<runs, experiments, evidence, reports, consumptions>>

\* It waits for whoever holds one of them, and updates those still active.
LockActiveRuns(p) ==
    /\ job[p].op = "supersede"
    /\ \A r \in job[p].seen : RowFree(r)
    /\ Become(p, [op |-> "register", config |-> job[p].config,
                  held |-> {r \in job[p].seen : runs[r].active}])
    /\ UNCHANGED <<runs, experiments, evidence, reports, consumptions>>

\* Mutant: no unique index on the active run.
AlwaysUnique(p) == TRUE

\* uq_active_validation_run_market: no other active run has been committed.
ActiveUnique(p) == ActiveRuns \subseteq job[p].held

RegisterValidationRun(p) ==
    /\ job[p].op = "register"
    /\ runs' = IF ActiveUnique(p)
               THEN Append([r \in RunIds |->
                              [runs[r] EXCEPT !.active = @ /\ r \notin job[p].held]],
                           [config |-> job[p].config, active |-> TRUE])
               ELSE runs
    /\ Become(p, Idle)
    /\ UNCHANGED <<experiments, evidence, reports, consumptions>>

-----------------------------------------------------------------------------
(* run_and_persist_baseline_experiment.                                       *)

Copies(family, r) == {e \in experiments : e.family = family /\ e.run = r}

TrainExperiment(p, family) ==
    /\ job[p] = Idle
    /\ \E r \in ActiveRuns :
         /\ Current(r)
         /\ ~ Consumed(r)
         /\ Cardinality(Copies(family, r)) < MaxCopies
         /\ Become(p, [op |-> "train", draft |-> [family |-> family, run |-> r]])
    /\ UNCHANGED <<runs, experiments, evidence, reports, consumptions>>

InsertExperiment(p) ==
    /\ job[p].op = "train"
    /\ LET d == job[p].draft
       IN  /\ KeyShareFree(d.run)
           /\ experiments' = experiments \cup
                {[family |-> d.family, run |-> d.run,
                  copy |-> Cardinality(Copies(d.family, d.run)) + 1]}
    /\ Become(p, Idle)
    /\ UNCHANGED <<runs, evidence, reports, consumptions>>

-----------------------------------------------------------------------------
(* The evidence reports and the selection. An approved set names one          *)
(* experiment of each family.                                                 *)

Approvals == {a \in [Families -> experiments] : \A f \in Families : a[f].family = f}
OfOneRun(a, r) == \A f \in Families : a[f].run = r
Explanations == SUBSET OfKind("explainability")
\* The approved artifacts explain the approved tree experiments.
Explain(explained, a) == {x.experiment : x \in explained} = {a[f] : f \in Trees}
\* The query that must find one report of the run.
TheOne(kind, r) == {x \in OfKind(kind) : \A y \in OfKind(kind) : y.run = r <=> y = x}

\* Mutant: a replay's predictions are not persisted.
NoEvidence(d) == {}

\* The experiments whose evidence the report's transaction inserts.
MissingEvidence(d) ==
    IF d.kind = "residual" THEN {d.experiments[f] : f \in Families} \ evidence ELSE {}

\* A report whose content is stored already is returned, and nothing changes.
Build(p, draft) ==
    /\ draft \notin reports
    /\ Cardinality(OfKind(draft.kind)) < MaxReports[draft.kind]
    /\ Cardinality({q \in Procs : job[q].op = "report"}) < MaxDrafts
    /\ Become(p, [op |-> "report", draft |-> draft, missing |-> MissingEvidence(draft)])
    /\ UNCHANGED <<runs, experiments, evidence, reports, consumptions>>

\* The comparison counts the experiments with the content of an approved one: its
\* family's in every run of the same configuration.
Matching(e) == Cardinality({x \in experiments :
                              /\ x.family = e.family
                              /\ runs[x.run].config = runs[e.run].config})

\* create_model_comparison_report.
CompareModels(p) ==
    /\ job[p] = Idle
    /\ \E r \in RunIds, a \in Approvals :
         /\ OfOneRun(a, r)
         /\ Build(p, [kind |-> "comparison", run |-> r, experiments |-> a,
                      matching |-> [f \in Families |-> Matching(a[f])]])

\* create_explainability_artifact replays the experiment on the active dataset.
ExplainModel(p) ==
    /\ job[p] = Idle
    /\ \E e \in experiments :
         /\ e.family \in Trees /\ Current(e.run)
         /\ Build(p, [kind |-> "explainability", run |-> e.run, experiment |-> e])

\* create_statistical_validation_report.
ValidateStatistics(p) ==
    /\ job[p] = Idle
    /\ \E r \in RunIds, a \in Approvals, explained \in Explanations :
         /\ OfOneRun(a, r)
         /\ Explain(explained, a)
         /\ Build(p, [kind |-> "statistical", run |-> r, experiments |-> a,
                      explained |-> explained])

\* create_residual_diagnostics_report replays the experiments on the active dataset.
DiagnoseResiduals(p) ==
    /\ job[p] = Idle
    /\ \E r \in ActiveRuns, a \in Approvals, explained \in Explanations :
         /\ Current(r) /\ OfOneRun(a, r)
         /\ Explain(explained, a)
         /\ \E s \in TheOne("statistical", r) :
              Build(p, [kind |-> "residual", run |-> r, experiments |-> a,
                        explained |-> explained, statistical |-> s])

\* create_market_regime_report reads the stored evidence on the active dataset.
AnalyzeRegimes(p) ==
    /\ job[p] = Idle
    /\ \E r \in ActiveRuns, a \in Approvals, explained \in Explanations :
         /\ Current(r) /\ OfOneRun(a, r)
         /\ \A f \in Families : a[f] \in evidence
         /\ Explain(explained, a)
         /\ \E s \in TheOne("statistical", r), d \in TheOne("residual", r) :
              Build(p, [kind |-> "market", run |-> r, experiments |-> a,
                        explained |-> explained, statistical |-> s, residual |-> d])

\* Mutant: the comparison's models are not checked against the other reports.
LinkedReportsOnly(c, s, d, m, explained) ==
    /\ d.run = s.run /\ m.run = s.run
    /\ d.statistical = s /\ m.statistical = s /\ m.residual = d
    /\ \A x \in explained : x.run = s.run

\* _validate_cross_artifact_references and _validated_provenance.
Coherent(c, s, d, m, explained) ==
    /\ c.run = s.run /\ d.run = s.run /\ m.run = s.run
    /\ d.statistical = s /\ m.statistical = s /\ m.residual = d
    /\ \A x \in explained : x.run = s.run

\* The stored evidence of the approved experiments is what both reports hashed.
EvidenceMatches(a, d, m) ==
    \A f \in Families : a[f] \in evidence /\ d.experiments[f] = a[f] /\ m.experiments[f] = a[f]

\* create_final_model_selection_report.
SelectModel(p) ==
    /\ job[p] = Idle
    /\ \E c \in OfKind("comparison"), s \in OfKind("statistical"), d \in OfKind("residual"),
          m \in OfKind("market"), explained \in Explanations, a \in Approvals :
         /\ Coherent(c, s, d, m, explained)
         /\ {x.experiment.family : x \in explained} = Trees
         /\ Cardinality(explained) = Cardinality(Trees)
         /\ EvidenceMatches(a, d, m)
         /\ \E f \in Families :
              Build(p, [kind |-> "selection", run |-> s.run, comparison |-> c,
                        statistical |-> s, residual |-> d, market |-> m, experiments |-> a,
                        explained |-> explained, selected |-> c.experiments[f]])

\* The unique constraints on a report's content and on an experiment's evidence
\* fail the transaction of whoever inserts second.
Unstored(j) == j.draft \notin reports /\ j.missing \cap evidence = {}

InsertReport(p) ==
    /\ job[p].op = "report"
    /\ KeyShareFree(job[p].draft.run)
    /\ reports' = IF Unstored(job[p]) THEN reports \cup {job[p].draft} ELSE reports
    /\ evidence' = IF Unstored(job[p]) THEN evidence \cup job[p].missing ELSE evidence
    /\ Become(p, Idle)
    /\ UNCHANGED <<runs, experiments, consumptions>>

-----------------------------------------------------------------------------
(* create_official_holdout_evaluation_report.                                 *)

\* Mutant: the run is read without FOR UPDATE.
NoRowLock(r) == TRUE

HoldoutLockFree(r) == RowFree(r)

\* Mutant: the dataset's run is not compared with the selection's.
RegisteredOnly(r) == runs[r].config = Registered

\* The registered configuration of the dataset's run.
RegisteredHoldout(r) == Current(r) /\ runs[r].config = Registered

\* The run is locked, unconsumed and the dataset's, the sources are verified, and
\* the holdout rows are read. A consumed run's report is loaded instead, and
\* nothing changes.
OpenHoldout(p) ==
    /\ job[p] = Idle
    /\ \E s \in OfKind("selection") :
         /\ s.selected.family = Ridge
         /\ HoldoutLockFree(s.run)
         /\ ~ Consumed(s.run)
         /\ RegisteredHoldout(s.run)
         /\ s.selected.run = s.run /\ s.selected \in evidence
         /\ \E d \in OfKind("residual") : d.experiments[Ridge] = s.selected
         /\ Become(p, [op |-> "holdout", draft |-> [run |-> s.run, selection |-> s]])
    /\ UNCHANGED <<runs, experiments, evidence, reports, consumptions>>

\* The report, its predictions and the consumption are one commit; "before" is
\* not stored: the experiments that exist when the holdout is consumed.
CommitHoldout(p) ==
    /\ job[p].op = "holdout"
    /\ consumptions' =
         IF Consumed(job[p].draft.run) THEN consumptions
         ELSE consumptions \cup
                {[run |-> job[p].draft.run, selection |-> job[p].draft.selection,
                  before |-> experiments]}
    /\ Become(p, Idle)
    /\ UNCHANGED <<runs, experiments, evidence, reports>>

\* A session ends before its commit: the transaction rolls back.
Abort(p) ==
    /\ job[p] # Idle
    /\ Become(p, Idle)
    /\ UNCHANGED <<runs, experiments, evidence, reports, consumptions>>

Next ==
    \E p \in Procs :
        \/ \E c \in Configs : StartValidationRun(p, c)
        \/ LockActiveRuns(p)
        \/ RegisterValidationRun(p)
        \/ \E f \in Families : TrainExperiment(p, f)
        \/ InsertExperiment(p)
        \/ CompareModels(p)
        \/ ExplainModel(p)
        \/ ValidateStatistics(p)
        \/ DiagnoseResiduals(p)
        \/ AnalyzeRegimes(p)
        \/ SelectModel(p)
        \/ InsertReport(p)
        \/ OpenHoldout(p)
        \/ CommitHoldout(p)
        \/ Abort(p)

Spec == Init /\ [][Next]_vars

-----------------------------------------------------------------------------
(* Properties.                                                                *)

Experiment == [family : Families, run : 1 .. MaxRuns, copy : Nat]
Jobs == {"idle", "supersede", "register", "train", "report", "holdout"}

\* The tables and the open transactions have their shapes, and every record
\* refers to a stored one.
TypeOK ==
    /\ runs \in Seq([config : Configs, active : BOOLEAN])
    /\ experiments \subseteq Experiment /\ \A e \in experiments : e.run \in RunIds
    /\ evidence \subseteq experiments
    /\ \A x \in reports : x.kind \in Kinds /\ x.run \in RunIds
    /\ \A x \in OfKind("residual") : \A f \in Families : x.experiments[f] \in evidence
    /\ \A c \in consumptions : c.run \in RunIds /\ c.selection \in reports
    /\ \A p \in Procs : job[p].op \in Jobs

\* Once a validation run exists, exactly one is active, whatever creations
\* overlap: the dataset functions, which fail on none and on two, always have
\* the run they work on (create_validation_run, _load_active_provenance).
OneActiveRun == runs # << >> => Cardinality(ActiveRuns) = 1

\* At most one session has the holdout of a run open, and none once it is
\* consumed (create_official_holdout_evaluation_report).
HoldoutOpenedOnce ==
    \A r \in RunIds :
        LET readers == {p \in Procs : Evaluating(p, r)}
        IN  Cardinality(readers) <= IF Consumed(r) THEN 0 ELSE 1

\* When a holdout is consumed its run is still the active one: no creation
\* supersedes it between the evaluation's check and its commit.
ConsumedRunIsCurrent ==
    [][\A c \in consumptions' \ consumptions : Current(c.run)]_vars

RestsOnOneRun(s) ==
    /\ {x.run : x \in {s.comparison, s.statistical, s.residual, s.market}
                      \cup s.explained} = {s.run}
    /\ OfOneRun(s.comparison.experiments, s.run)
    /\ OfOneRun(s.statistical.experiments, s.run)
    /\ OfOneRun(s.experiments, s.run)
    /\ s.market.residual = s.residual /\ s.residual.statistical = s.statistical

\* A selection rests on evidence of one validation run: the models it compares,
\* the tests, diagnostics, regimes and explanations it scores, and the approved
\* experiments (create_final_model_selection_report).
SelectionIsCoherent == \A s \in OfKind("selection") : RestsOnOneRun(s)

\* Once a holdout is consumed, no experiment is added over the data it covers.
HoldoutClosesDevelopment ==
    \A c \in consumptions : \A e \in experiments :
        runs[e.run].config = runs[c.run].config => e \in c.before
=============================================================================
