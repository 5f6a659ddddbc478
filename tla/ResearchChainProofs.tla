------------------------- MODULE ResearchChainProofs -------------------------
(* The single active validation run and the single use of its holdout, for    *)
(* any number of sessions, families, configurations and records.              *)
EXTENDS ResearchChain, FiniteSetTheorems, TLAPS

\* The open transactions and the run table have their shapes.
Shape ==
    /\ runs \in Seq([config : Configs, active : BOOLEAN])
    /\ job = [p \in Procs |-> job[p]]
    /\ \A p \in Procs : job[p].op \in {"supersede", "register"} => job[p].config \in Configs

\* One run is active as soon as there is one.
UniqueActive ==
    /\ \A r, s \in ActiveRuns : r = s
    /\ runs # << >> => ActiveRuns # {}

\* An evaluation works on the active run, and its holdout is not consumed.
EvaluationIsOpen ==
    \A p \in Procs : \A r : Evaluating(p, r) => r \in ActiveRuns /\ ~ Consumed(r)

\* The row lock of an evaluation excludes the other sessions.
LockExcludes ==
    \A p, q \in Procs : \A r :
        p # q /\ Evaluating(p, r) => ~ Evaluating(q, r) /\ ~ Superseding(q, r)

IInv == Shape /\ UniqueActive /\ EvaluationIsOpen /\ LockExcludes

-----------------------------------------------------------------------------
\* What Become does to the sessions' transactions.
LEMMA BecomeStep ==
    ASSUME Shape, NEW p \in Procs, NEW j, Become(p, j)
    PROVE  /\ job' = [q \in Procs |-> job'[q]]
           /\ job'[p] = j
           /\ \A q \in Procs \ {p} : job'[q] = job[q]
  BY DEF Shape, Become

\* A step that leaves runs and consumptions alone, and takes no lock, keeps the
\* invariant.
LEMMA QuietStep ==
    ASSUME IInv, NEW p \in Procs, NEW j, Become(p, j),
           j.op \notin {"holdout", "register"},
           j.op = "supersede" => j.config \in Configs,
           UNCHANGED <<runs, consumptions>>
    PROVE  IInv'
  <1>1. /\ job' = [q \in Procs |-> job'[q]]
        /\ job'[p] = j
        /\ \A q \in Procs \ {p} : job'[q] = job[q]
    BY BecomeStep DEF IInv
  <1>2. Shape'
    BY <1>1 DEF IInv, Shape
  <1>3. UniqueActive'
    BY DEF IInv, UniqueActive, ActiveRuns, RunIds
  <1>4. EvaluationIsOpen'
    BY <1>1 DEF IInv, EvaluationIsOpen, Evaluating, ActiveRuns, RunIds, Consumed
  <1>5. LockExcludes'
    BY <1>1 DEF IInv, LockExcludes, Evaluating, Superseding
  <1> QED
    BY <1>2, <1>3, <1>4, <1>5 DEF IInv

\* Every run was idle at the start.
LEMMA InitInv == Init => IInv
  <1> SUFFICES ASSUME Init PROVE IInv
    OBVIOUS
  <1>1. Shape
    BY DEF Init, Shape, Idle
  <1>2. UniqueActive
    BY DEF Init, UniqueActive, ActiveRuns, RunIds
  <1>3. \A p \in Procs : \A r : ~ Evaluating(p, r) /\ ~ Superseding(p, r)
    BY DEF Init, Evaluating, Superseding, Idle
  <1> QED
    BY <1>1, <1>2, <1>3 DEF IInv, EvaluationIsOpen, LockExcludes

\* Locking the active runs excludes evaluations of them.
LEMMA LockActiveRunsInv ==
    ASSUME IInv, NEW p \in Procs, LockActiveRuns(p)
    PROVE  IInv'
  <1> DEFINE j == [op |-> "register", config |-> job[p].config,
                   held |-> {r \in job[p].seen : runs[r].active}]
  <1>1. /\ job' = [q \in Procs |-> job'[q]]
        /\ job'[p] = j
        /\ \A q \in Procs \ {p} : job'[q] = job[q]
    BY BecomeStep DEF IInv, LockActiveRuns
  <1>2. Shape'
    BY <1>1 DEF IInv, Shape, LockActiveRuns
  <1>3. UniqueActive'
    BY DEF IInv, UniqueActive, ActiveRuns, RunIds, LockActiveRuns
  <1>4. EvaluationIsOpen'
    BY <1>1 DEF IInv, EvaluationIsOpen, Evaluating, ActiveRuns, RunIds, Consumed, LockActiveRuns
  <1>5. ASSUME NEW q \in Procs, NEW s \in Procs, NEW r, q # s, Evaluating(q, r)'
        PROVE  ~ Evaluating(s, r)' /\ ~ Superseding(s, r)'
    <2>1. q # p /\ Evaluating(q, r)
      BY <1>1, <1>5 DEF Evaluating
    <2>2. CASE s = p
      <3>1. r \notin job[p].seen
        BY <2>1 DEF LockActiveRuns, RowFree
      <3> QED
        BY <1>1, <2>2, <3>1 DEF Evaluating, Superseding
    <2>3. CASE s # p
      BY <1>1, <1>5, <2>1, <2>3 DEF IInv, LockExcludes, Evaluating, Superseding
    <2> QED
      BY <2>2, <2>3
  <1> QED
    BY <1>2, <1>3, <1>4, <1>5 DEF IInv, LockExcludes

\* The run that is created is the only active one.
LEMMA NewRun ==
    ASSUME Shape, NEW p \in Procs, RegisterValidationRun(p), ActiveUnique(p)
    PROVE  /\ runs' \in Seq([config : Configs, active : BOOLEAN])
           /\ Len(runs') = Len(runs) + 1 /\ ActiveRuns' = {Len(runs) + 1}
           /\ Len(runs) \in Nat
  <1> DEFINE old == [r \in RunIds |-> [runs[r] EXCEPT !.active = @ /\ r \notin job[p].held]]
             new == [config |-> job[p].config, active |-> TRUE]
             Runs == [config : Configs, active : BOOLEAN]
  <1>1. /\ runs \in Seq(Runs) /\ new \in Runs
        /\ Len(runs) \in Nat /\ RunIds = DOMAIN runs
    BY DEF Shape, RegisterValidationRun, RunIds
  <1>2. \A r \in RunIds : runs[r] \in Runs
    <2> HIDE DEF Runs
    <2> QED
      BY <1>1 DEF RunIds
  <1>3. old \in Seq(Runs) /\ Len(old) = Len(runs)
    <2>1. ASSUME NEW r \in RunIds PROVE old[r] \in Runs
      <3>1. runs[r] \in Runs
        BY <1>2
      <3> DEFINE b == runs[r].active /\ r \notin job[p].held
      <3>2. b \in BOOLEAN
        OBVIOUS
      <3>3. old[r] = [runs[r] EXCEPT !.active = b]
        OBVIOUS
      <3> HIDE DEF b
      <3> QED
        BY <3>1, <3>2, <3>3
    <2>2. old \in [1 .. Len(runs) -> Runs]
      BY <2>1 DEF RunIds
    <2> QED
      BY <1>1, <2>2
  <1>4. runs' = Append(old, new)
    BY DEF RegisterValidationRun
  <1>5. /\ runs' \in Seq(Runs) /\ Len(runs') = Len(runs) + 1
        /\ runs'[Len(runs) + 1] = new
        /\ \A r \in RunIds : runs'[r] = old[r]
    BY <1>1, <1>3, <1>4 DEF RunIds
  <1>6. \A r \in RunIds : ~ runs'[r].active
    <2> SUFFICES ASSUME NEW r \in RunIds PROVE ~ runs'[r].active
      OBVIOUS
    <2> DEFINE b == runs[r].active /\ r \notin job[p].held
    <2>1. runs[r] \in Runs /\ runs'[r] = [runs[r] EXCEPT !.active = b]
      BY <1>2, <1>5
    <2> HIDE DEF b
    <2>2. runs'[r].active = b
      BY <2>1
    <2>3. runs[r].active => r \in job[p].held
      BY DEF ActiveUnique, ActiveRuns
    <2> QED
      BY <2>2, <2>3 DEF b
  <1>7. ActiveRuns' = {Len(runs) + 1}
    BY <1>1, <1>5, <1>6 DEF ActiveRuns, RunIds
  <1> QED
    BY <1>1, <1>5, <1>7

\* The new run is the only active one, or nothing changes.
LEMMA RegisterValidationRunInv ==
    ASSUME IInv, NEW p \in Procs, RegisterValidationRun(p)
    PROVE  IInv'
  <1>1. CASE ~ ActiveUnique(p)
    <2>1. Idle.op = "idle"
      BY DEF Idle
    <2>2. UNCHANGED <<runs, consumptions>> /\ Become(p, Idle)
      BY <1>1 DEF RegisterValidationRun
    <2> QED
      BY <2>1, <2>2, QuietStep
  <1>2. CASE ActiveUnique(p)
    <2>1. /\ job' = [q \in Procs |-> job'[q]]
          /\ job'[p] = Idle
          /\ \A q \in Procs \ {p} : job'[q] = job[q]
      BY BecomeStep DEF IInv, RegisterValidationRun
    <2>2. /\ runs' \in Seq([config : Configs, active : BOOLEAN])
          /\ ActiveRuns' = {Len(runs) + 1}
      BY <1>2, NewRun DEF IInv
    <2>3. \A q \in Procs : \A r : ~ Evaluating(q, r)'
      <3> SUFFICES ASSUME NEW q \in Procs, NEW r, Evaluating(q, r)' PROVE FALSE
        OBVIOUS
      <3>1. q # p /\ Evaluating(q, r)
        BY <2>1 DEF Evaluating, Idle
      <3>2. r \in job[p].held
        BY <1>2, <3>1 DEF IInv, EvaluationIsOpen, ActiveUnique
      <3>3. Superseding(p, r)
        BY <3>2 DEF Superseding, RegisterValidationRun
      <3> QED
        BY <3>1, <3>3 DEF IInv, LockExcludes
    <2>4. Shape'
      BY <2>1, <2>2 DEF IInv, Shape, Idle
    <2>5. UniqueActive'
      BY <2>2 DEF UniqueActive
    <2> QED
      BY <2>3, <2>4, <2>5 DEF IInv, EvaluationIsOpen, LockExcludes
  <1> QED
    BY <1>1, <1>2

\* An evaluation starts on the active run when no session holds it.
LEMMA OpenHoldoutInv ==
    ASSUME IInv, NEW p \in Procs, OpenHoldout(p)
    PROVE  IInv'
  <1>1. PICK s \in OfKind("selection") :
          /\ RowFree(s.run) /\ ~ Consumed(s.run) /\ Current(s.run)
          /\ Become(p, [op |-> "holdout", draft |-> [run |-> s.run, selection |-> s]])
    BY DEF OpenHoldout, HoldoutLockFree, RegisteredHoldout
  <1> DEFINE j == [op |-> "holdout", draft |-> [run |-> s.run, selection |-> s]]
  <1>2. /\ job' = [q \in Procs |-> job'[q]]
        /\ job'[p] = j
        /\ \A q \in Procs \ {p} : job'[q] = job[q]
    BY <1>1, BecomeStep DEF IInv
  <1>3. Shape'
    BY <1>2 DEF IInv, Shape, OpenHoldout
  <1>4. UniqueActive' /\ ActiveRuns' = ActiveRuns
    BY DEF IInv, UniqueActive, ActiveRuns, RunIds, OpenHoldout
  <1>5. EvaluationIsOpen'
    <2> SUFFICES ASSUME NEW q \in Procs, NEW r, Evaluating(q, r)'
                 PROVE  r \in ActiveRuns' /\ ~ Consumed(r)'
      BY DEF EvaluationIsOpen
    <2>1. CASE q = p
      <3>1. r = s.run
        BY <1>2, <2>1 DEF Evaluating
      <3> QED
        BY <1>1, <1>4, <3>1 DEF Current, Consumed, OpenHoldout
    <2>2. CASE q # p
      BY <1>2, <1>4, <2>2 DEF IInv, EvaluationIsOpen, Evaluating, Consumed, OpenHoldout
    <2> QED
      BY <2>1, <2>2
  <1>6. LockExcludes'
    <2> SUFFICES ASSUME NEW q \in Procs, NEW t \in Procs, NEW r, q # t, Evaluating(q, r)'
                 PROVE  ~ Evaluating(t, r)' /\ ~ Superseding(t, r)'
      BY DEF LockExcludes
    <2>1. CASE q = p
      <3>1. r = s.run
        BY <1>2, <2>1 DEF Evaluating
      <3>2. ~ Evaluating(t, r) /\ ~ Superseding(t, r)
        BY <1>1, <3>1 DEF RowFree
      <3> QED
        BY <1>2, <2>1, <3>2 DEF Evaluating, Superseding
    <2>2. CASE t = p
      <3>1. q # p /\ Evaluating(q, r)
        BY <1>2, <2>2 DEF Evaluating
      <3>2. r # s.run
        BY <1>1, <3>1 DEF RowFree
      <3> QED
        BY <1>2, <2>2, <3>2 DEF Evaluating, Superseding
    <2>3. CASE q # p /\ t # p
      BY <1>2, <2>3 DEF IInv, LockExcludes, Evaluating, Superseding
    <2> QED
      BY <2>1, <2>2, <2>3
  <1> QED
    BY <1>3, <1>4, <1>5, <1>6 DEF IInv

\* A commit consumes a run no other session evaluates.
LEMMA CommitHoldoutInv ==
    ASSUME IInv, NEW p \in Procs, CommitHoldout(p)
    PROVE  IInv'
  <1> DEFINE run == job[p].draft.run
  <1>1. /\ job' = [q \in Procs |-> job'[q]]
        /\ job'[p] = Idle
        /\ \A q \in Procs \ {p} : job'[q] = job[q]
    BY BecomeStep DEF IInv, CommitHoldout
  <1>2. \A r : r # run => (Consumed(r)' <=> Consumed(r))
    BY DEF CommitHoldout, Consumed
  <1>3. Shape'
    BY <1>1 DEF IInv, Shape, CommitHoldout, Idle
  <1>4. UniqueActive' /\ ActiveRuns' = ActiveRuns
    BY DEF IInv, UniqueActive, ActiveRuns, RunIds, CommitHoldout
  <1>5. ASSUME NEW q \in Procs, NEW r, Evaluating(q, r)'
        PROVE  q # p /\ Evaluating(q, r)
    BY <1>1, <1>5 DEF Evaluating, Idle
  <1>6. EvaluationIsOpen'
    <2> SUFFICES ASSUME NEW q \in Procs, NEW r, Evaluating(q, r)'
                 PROVE  r \in ActiveRuns' /\ ~ Consumed(r)'
      BY DEF EvaluationIsOpen
    <2>1. q # p /\ Evaluating(q, r)
      BY <1>5
    <2>2. Evaluating(p, run)
      BY DEF CommitHoldout, Evaluating
    <2>3. r # run
      BY <2>1, <2>2 DEF IInv, LockExcludes
    <2> QED
      BY <1>2, <1>4, <2>1, <2>3 DEF IInv, EvaluationIsOpen
  <1>7. LockExcludes'
    BY <1>1, <1>5 DEF IInv, LockExcludes, Evaluating, Superseding, Idle
  <1> QED
    BY <1>3, <1>4, <1>6, <1>7 DEF IInv

\* The six report functions build a draft and change no table.
LEMMA ReportStep ==
    ASSUME NEW p \in Procs,
           \/ CompareModels(p) \/ ExplainModel(p) \/ ValidateStatistics(p)
           \/ DiagnoseResiduals(p) \/ AnalyzeRegimes(p) \/ SelectModel(p)
    PROVE  \E d : Build(p, d)
  <1>1. CASE CompareModels(p)
    BY <1>1 DEF CompareModels
  <1>2. CASE ExplainModel(p)
    BY <1>2 DEF ExplainModel
  <1>3. CASE ValidateStatistics(p)
    BY <1>3 DEF ValidateStatistics
  <1>4. CASE DiagnoseResiduals(p)
    BY <1>4 DEF DiagnoseResiduals
  <1>5. CASE AnalyzeRegimes(p)
    BY <1>5 DEF AnalyzeRegimes
  <1>6. CASE SelectModel(p)
    BY <1>6 DEF SelectModel
  <1> QED
    BY <1>1, <1>2, <1>3, <1>4, <1>5, <1>6

\* Every action keeps the invariant.
LEMMA NextInv == IInv /\ [Next]_vars => IInv'
  <1> SUFFICES ASSUME IInv, [Next]_vars PROVE IInv'
    OBVIOUS
  <1>1. CASE UNCHANGED vars
    BY <1>1 DEF vars, IInv, Shape, UniqueActive, EvaluationIsOpen, LockExcludes,
                ActiveRuns, RunIds, Evaluating, Superseding, Consumed
  <1>2. ASSUME NEW p \in Procs, NEW c \in Configs, StartValidationRun(p, c) PROVE IInv'
    <2> DEFINE j == [op |-> "supersede", config |-> c, seen |-> ActiveRuns]
    <2>1. Become(p, j) /\ UNCHANGED <<runs, consumptions>>
      BY <1>2 DEF StartValidationRun
    <2>2. j.op = "supersede" /\ j.config = c
      OBVIOUS
    <2> HIDE DEF j
    <2> QED
      BY <2>1, <2>2, QuietStep
  <1>3. ASSUME NEW p \in Procs, LockActiveRuns(p) PROVE IInv'
    BY <1>3, LockActiveRunsInv
  <1>4. ASSUME NEW p \in Procs, RegisterValidationRun(p) PROVE IInv'
    BY <1>4, RegisterValidationRunInv
  <1>5. ASSUME NEW p \in Procs, NEW f \in Families, TrainExperiment(p, f) PROVE IInv'
    <2>1. PICK r \in ActiveRuns :
            Become(p, [op |-> "train", draft |-> [family |-> f, run |-> r]])
      BY <1>5 DEF TrainExperiment
    <2> QED
      BY <1>5, <2>1, QuietStep DEF TrainExperiment
  <1>6. ASSUME NEW p \in Procs, NEW d, Build(p, d) PROVE IInv'
    BY <1>6, QuietStep DEF Build
  <1>7. ASSUME NEW p \in Procs,
               \/ CompareModels(p) \/ ExplainModel(p) \/ ValidateStatistics(p)
               \/ DiagnoseResiduals(p) \/ AnalyzeRegimes(p) \/ SelectModel(p)
        PROVE  \E d : Build(p, d)
    BY <1>7, ReportStep
  <1>8. ASSUME NEW p \in Procs, InsertExperiment(p) \/ InsertReport(p) \/ Abort(p) PROVE IInv'
    <2>1. Become(p, Idle) /\ UNCHANGED <<runs, consumptions>> /\ Idle.op = "idle"
      BY <1>8 DEF InsertExperiment, InsertReport, Abort, Idle
    <2> QED
      BY <2>1, QuietStep
  <1>9. ASSUME NEW p \in Procs, OpenHoldout(p) PROVE IInv'
    BY <1>9, OpenHoldoutInv
  <1>10. ASSUME NEW p \in Procs, CommitHoldout(p) PROVE IInv'
    BY <1>10, CommitHoldoutInv
  <1>11. CASE Next
    BY <1>11, <1>2, <1>3, <1>4, <1>5, <1>6, <1>7, <1>8, <1>9, <1>10 DEF Next
  <1> QED
    BY <1>1, <1>11

\* The inductive invariant holds throughout.
THEOREM Invariance == Spec => []IInv
  BY InitInv, NextInv, PTL DEF Spec

-----------------------------------------------------------------------------
\* A set with an element that equals all of them has one.
LEMMA SingletonCardinality ==
    ASSUME NEW S, NEW x \in S, \A y \in S : y = x
    PROVE  Cardinality(S) = 1
  <1>1. S = {x}
    OBVIOUS
  <1> QED
    BY <1>1, FS_Singleton

\* However many sessions create validation runs, exactly one run is active once
\* there is one (create_validation_run).
THEOREM OneActiveRunHolds == Spec => []OneActiveRun
  <1>1. IInv => OneActiveRun
    <2> SUFFICES ASSUME IInv, runs # << >> PROVE Cardinality(ActiveRuns) = 1
      BY DEF OneActiveRun
    <2>1. PICK r : r \in ActiveRuns
      BY DEF IInv, UniqueActive
    <2> QED
      BY <2>1, SingletonCardinality DEF IInv, UniqueActive
  <1> QED
    BY <1>1, Invariance, PTL

\* However many sessions evaluate, one at a time has a run's holdout open, and
\* none once it is consumed (create_official_holdout_evaluation_report).
THEOREM HoldoutOpenedOnceHolds == Spec => []HoldoutOpenedOnce
  <1>1. IInv => HoldoutOpenedOnce
    <2> SUFFICES ASSUME IInv, NEW r \in RunIds
                 PROVE  Cardinality({p \in Procs : Evaluating(p, r)})
                          <= IF Consumed(r) THEN 0 ELSE 1
      BY DEF HoldoutOpenedOnce
    <2> DEFINE readers == {p \in Procs : Evaluating(p, r)}
    <2>1. CASE readers = {}
      BY <2>1, FS_EmptySet
    <2>2. CASE readers # {}
      <3>1. PICK p \in Procs : Evaluating(p, r)
        BY <2>2
      <3>2. \A q \in readers : q = p
        BY <3>1 DEF IInv, LockExcludes
      <3>3. Cardinality(readers) = 1
        BY <3>1, <3>2, SingletonCardinality
      <3>4. ~ Consumed(r)
        BY <3>1 DEF IInv, EvaluationIsOpen
      <3> QED
        BY <3>3, <3>4
    <2> QED
      BY <2>1, <2>2
  <1> QED
    BY <1>1, Invariance, PTL

\* A holdout is consumed only while its run is the active one: a creation of
\* another run cannot commit between the evaluation's check and its commit.
THEOREM ConsumedRunIsCurrentHolds == Spec => ConsumedRunIsCurrent
  <1>1. IInv /\ [Next]_vars => [\A c \in consumptions' \ consumptions : Current(c.run)]_vars
    <2> SUFFICES ASSUME IInv, Next, NEW c \in consumptions' \ consumptions
                 PROVE  Current(c.run)
      BY DEF vars
    <2>1. PICK p \in Procs : CommitHoldout(p)
      <3>1. consumptions' # consumptions
        OBVIOUS
      <3>2. ASSUME NEW p \in Procs, NEW d, Build(p, d) PROVE consumptions' = consumptions
        BY <3>2 DEF Build
      <3> QED
        BY <3>1, <3>2, ReportStep DEF Next, StartValidationRun, LockActiveRuns,
           RegisterValidationRun, TrainExperiment, InsertExperiment, InsertReport,
           OpenHoldout, Abort
    <2>2. c.run = job[p].draft.run
      BY <2>1 DEF CommitHoldout
    <2>3. c.run \in ActiveRuns
      BY <2>1, <2>2 DEF IInv, EvaluationIsOpen, Evaluating, CommitHoldout
    <2> QED
      BY <2>3 DEF IInv, UniqueActive, Current
  <1> QED
    BY <1>1, Invariance, PTL DEF Spec, ConsumedRunIsCurrent

-----------------------------------------------------------------------------
\* What a report of each kind says of its run.
ReportSound(x) ==
    /\ x.kind \in {"comparison", "statistical", "residual"} => OfOneRun(x.experiments, x.run)
    /\ x.kind = "selection" => RestsOnOneRun(x)

\* Stored reports and open drafts are sound.
RInv ==
    /\ job = [p \in Procs |-> job[p]]
    /\ \A x \in reports : ReportSound(x)
    /\ \A p \in Procs : job[p].op = "report" => ReportSound(job[p].draft)

\* Each report function drafts a sound report.
LEMMA DraftSound ==
    ASSUME RInv, NEW p \in Procs,
           \/ CompareModels(p) \/ ExplainModel(p) \/ ValidateStatistics(p)
           \/ DiagnoseResiduals(p) \/ AnalyzeRegimes(p) \/ SelectModel(p)
    PROVE  \E d : Build(p, d) /\ ReportSound(d)
  <1>1. CASE CompareModels(p)
    BY <1>1 DEF CompareModels, ReportSound
  <1>2. CASE ExplainModel(p)
    BY <1>2 DEF ExplainModel, ReportSound
  <1>3. CASE ValidateStatistics(p)
    BY <1>3 DEF ValidateStatistics, ReportSound
  <1>4. CASE DiagnoseResiduals(p)
    BY <1>4 DEF DiagnoseResiduals, ReportSound
  <1>5. CASE AnalyzeRegimes(p)
    BY <1>5 DEF AnalyzeRegimes, ReportSound
  <1>6. CASE SelectModel(p)
    <2>1. PICK c \in OfKind("comparison"), s \in OfKind("statistical"),
               d \in OfKind("residual"), m \in OfKind("market"), explained \in Explanations,
               a \in Approvals, f \in Families :
            /\ Coherent(c, s, d, m, explained)
            /\ EvidenceMatches(a, d, m)
            /\ Build(p, [kind |-> "selection", run |-> s.run, comparison |-> c,
                         statistical |-> s, residual |-> d, market |-> m, experiments |-> a,
                         explained |-> explained, selected |-> c.experiments[f]])
      BY <1>6 DEF SelectModel
    <2>2. ASSUME NEW x, x.kind = "selection", x.run = s.run, x.comparison = c,
                 x.statistical = s, x.residual = d, x.market = m, x.experiments = a,
                 x.explained = explained
          PROVE  ReportSound(x)
      <3>1. {y.run : y \in {c, s, d, m} \cup explained} = {s.run}
        BY <2>1 DEF Coherent
      <3>2. OfOneRun(c.experiments, s.run) /\ OfOneRun(s.experiments, s.run)
        BY <2>1 DEF RInv, ReportSound, OfKind, Coherent
      <3>3. OfOneRun(a, s.run)
        <4>1. OfOneRun(d.experiments, s.run)
          BY <2>1 DEF RInv, ReportSound, OfKind, Coherent
        <4> QED
          BY <2>1, <4>1 DEF OfOneRun, EvidenceMatches
      <3>4. m.residual = d /\ d.statistical = s
        BY <2>1 DEF Coherent
      <3> QED
        BY <2>2, <3>1, <3>2, <3>3, <3>4 DEF ReportSound, RestsOnOneRun
    <2> QED
      BY <2>1, <2>2
  <1> QED
    BY <1>1, <1>2, <1>3, <1>4, <1>5, <1>6

\* Every action keeps the reports sound.
LEMMA ReportsNext == RInv /\ [Next]_vars => RInv'
  <1> SUFFICES ASSUME RInv, [Next]_vars PROVE RInv'
    OBVIOUS
  <1>1. ASSUME NEW p \in Procs, NEW j, Become(p, j), reports' = reports,
               j.op = "report" => ReportSound(j.draft)
        PROVE  RInv'
    BY <1>1 DEF RInv, Become
  <1>2. CASE UNCHANGED vars
    BY <1>2 DEF vars, RInv
  <1>3. ASSUME NEW p \in Procs,
               \/ CompareModels(p) \/ ExplainModel(p) \/ ValidateStatistics(p)
               \/ DiagnoseResiduals(p) \/ AnalyzeRegimes(p) \/ SelectModel(p)
        PROVE  RInv'
    <2>1. PICK d : Build(p, d) /\ ReportSound(d)
      BY <1>3, DraftSound
    <2> QED
      BY <1>1, <2>1 DEF Build
  <1>4. ASSUME NEW p \in Procs, InsertReport(p) PROVE RInv'
    <2>1. Become(p, Idle) /\ reports' \subseteq reports \cup {job[p].draft}
          /\ job[p].op = "report" /\ Idle.op = "idle"
      BY <1>4 DEF InsertReport, Idle
    <2> QED
      BY <2>1 DEF RInv, Become
  <1>5. ASSUME NEW p \in Procs, NEW c \in Configs, StartValidationRun(p, c) PROVE RInv'
    BY <1>1, <1>5 DEF StartValidationRun
  <1>6. ASSUME NEW p \in Procs, LockActiveRuns(p) PROVE RInv'
    BY <1>1, <1>6 DEF LockActiveRuns
  <1>7. ASSUME NEW p \in Procs, NEW f \in Families, TrainExperiment(p, f) PROVE RInv'
    <2>1. PICK r \in ActiveRuns :
            Become(p, [op |-> "train", draft |-> [family |-> f, run |-> r]])
      BY <1>7 DEF TrainExperiment
    <2> QED
      BY <1>1, <1>7, <2>1 DEF TrainExperiment
  <1>8. ASSUME NEW p \in Procs, OpenHoldout(p) PROVE RInv'
    <2>1. PICK s \in OfKind("selection") :
            Become(p, [op |-> "holdout", draft |-> [run |-> s.run, selection |-> s]])
      BY <1>8 DEF OpenHoldout
    <2> QED
      BY <1>1, <1>8, <2>1 DEF OpenHoldout
  <1>9. ASSUME NEW p \in Procs,
               RegisterValidationRun(p) \/ InsertExperiment(p) \/ CommitHoldout(p) \/ Abort(p)
        PROVE  RInv'
    <2>1. Become(p, Idle) /\ reports' = reports /\ Idle.op = "idle"
      BY <1>9 DEF RegisterValidationRun, InsertExperiment, CommitHoldout, Abort, Idle
    <2> QED
      BY <1>1, <2>1
  <1>10. CASE Next
    BY <1>10, <1>3, <1>4, <1>5, <1>6, <1>7, <1>8, <1>9 DEF Next
  <1> QED
    BY <1>2, <1>10

\* Whatever ids successive builds approve, a stored selection rests on evidence
\* of one validation run (create_final_model_selection_report).
THEOREM SelectionIsCoherentHolds == Spec => []SelectionIsCoherent
  <1>1. Init => RInv
    BY DEF Init, RInv, Idle
  <1>2. RInv => SelectionIsCoherent
    BY DEF RInv, ReportSound, SelectionIsCoherent, OfKind
  <1> QED
    BY <1>1, <1>2, ReportsNext, PTL DEF Spec

-----------------------------------------------------------------------------
(* Types: what every record and every open transaction refers to is stored.   *)

Run == [config : Configs, active : BOOLEAN]

\* A creation's snapshot is of stored runs; once no more runs are allowed, another
\* run has become active since and the unique index will refuse the creation.
RunAllowed(seen) == Len(runs) < MaxRuns \/ ~ (ActiveRuns \subseteq seen)

\* A draft of a report, and the evidence inserted with it.
DraftTyped(d) ==
    /\ d.kind \in Kinds /\ d.run \in RunIds
    /\ d.kind = "residual" => \A f \in Families : d.experiments[f] \in experiments

DraftStored(j) ==
    /\ j.draft.kind \in Kinds /\ j.draft.run \in RunIds /\ j.missing \subseteq experiments
    /\ j.draft.kind = "residual" =>
         \A f \in Families : j.draft.experiments[f] \in evidence \cup j.missing

\* What an open transaction refers to is stored.
JobTyped(j) ==
    /\ j.op \in Jobs
    /\ j.op = "supersede" => j.seen \subseteq RunIds /\ RunAllowed(j.seen)
    /\ j.op = "register" => j.held \subseteq RunIds /\ RunAllowed(j.held)
    /\ j.op = "train" => j.draft.family \in Families /\ j.draft.run \in RunIds
    /\ j.op = "report" => DraftStored(j)
    /\ j.op = "holdout" => j.draft.run \in RunIds /\ j.draft.selection \in reports

RunsTyped == runs \in Seq(Run) /\ Len(runs) <= MaxRuns
ExperimentsTyped ==
    /\ experiments \subseteq Experiment /\ IsFiniteSet(experiments)
    /\ \A e \in experiments : e.run \in RunIds
    /\ evidence \subseteq experiments
ReportsTyped ==
    \A x \in reports :
        /\ x.kind \in Kinds /\ x.run \in RunIds
        /\ x.kind = "residual" => \A f \in Families : x.experiments[f] \in evidence
ConsumptionsTyped == \A c \in consumptions : c.run \in RunIds /\ c.selection \in reports
JobsTyped == job = [p \in Procs |-> job[p]] /\ \A p \in Procs : JobTyped(job[p])

TInv ==
    /\ RunsTyped /\ ExperimentsTyped /\ ReportsTyped /\ ConsumptionsTyped /\ JobsTyped

\* How the tables change: nothing stored is removed, and a run is added to be the
\* only active one.
Grows ==
    /\ experiments \subseteq experiments' /\ evidence \subseteq evidence'
    /\ reports \subseteq reports'
    /\ \/ runs' = runs
       \/ Len(runs') = Len(runs) + 1 /\ ActiveRuns' = {Len(runs) + 1}

\* Another session's transaction still refers to stored records then.
LEMMA JobLater ==
    ASSUME RunsTyped, Grows, NEW j, JobTyped(j)
    PROVE  JobTyped(j)'
  <1>1. Len(runs) \in Nat /\ MaxRuns \in Nat
    BY ResearchAssumption DEF RunsTyped
  <1>2. RunIds \subseteq RunIds'
    BY <1>1 DEF Grows, RunIds
  <1>3. ASSUME NEW seen, seen \subseteq RunIds, RunAllowed(seen)
        PROVE  RunAllowed(seen)'
    <2>1. CASE runs' = runs
      BY <1>3, <2>1 DEF RunAllowed, ActiveRuns, RunIds
    <2>2. CASE Len(runs') = Len(runs) + 1 /\ ActiveRuns' = {Len(runs) + 1}
      <3>1. Len(runs) + 1 \notin seen
        BY <1>1, <1>3 DEF RunIds
      <3> QED
        BY <2>2, <3>1 DEF RunAllowed
    <2> QED
      BY <2>1, <2>2 DEF Grows
  <1>4. j.op = "report" => DraftStored(j)'
    BY <1>2 DEF JobTyped, DraftStored, Grows
  <1>5. j.op = "supersede" => j.seen \subseteq RunIds' /\ RunAllowed(j.seen)'
    BY <1>2, <1>3 DEF JobTyped
  <1>6. j.op = "register" => j.held \subseteq RunIds' /\ RunAllowed(j.held)'
    BY <1>2, <1>3 DEF JobTyped
  <1>7. /\ j.op \in Jobs
        /\ j.op = "train" => j.draft.family \in Families /\ j.draft.run \in RunIds'
        /\ j.op = "holdout" => j.draft.run \in RunIds' /\ j.draft.selection \in reports'
    BY <1>2 DEF JobTyped, Grows
  <1> QED
    BY <1>4, <1>5, <1>6, <1>7 DEF JobTyped

\* A step of one session keeps the open transactions typed when the one it leaves
\* that session with is.
LEMMA JobsStep ==
    ASSUME RunsTyped, JobsTyped, Grows, NEW p \in Procs, NEW j, Become(p, j), JobTyped(j)'
    PROVE  JobsTyped'
  <1>1. job' = [q \in Procs |-> job'[q]] /\ job'[p] = j
    BY DEF JobsTyped, Become
  <1>2. ASSUME NEW q \in Procs, q # p PROVE JobTyped(job[q])'
    <2>1. PICK k : k = job[q]
      OBVIOUS
    <2>2. JobTyped(k)'
      BY <2>1, JobLater DEF JobsTyped
    <2>3. job'[q] = k
      BY <1>2, <2>1 DEF JobsTyped, Become
    <2> QED
      BY <2>2, <2>3
  <1> QED
    BY <1>1, <1>2 DEF JobsTyped

\* The function that drafts a report drafts it of stored runs and experiments.
LEMMA DraftIsTyped ==
    ASSUME TInv, NEW p \in Procs,
           \/ CompareModels(p) \/ ExplainModel(p) \/ ValidateStatistics(p)
           \/ DiagnoseResiduals(p) \/ AnalyzeRegimes(p) \/ SelectModel(p)
    PROVE  \E d : Build(p, d) /\ DraftTyped(d)
  <1>1. ActiveRuns \subseteq RunIds
    BY DEF ActiveRuns
  <1>2. \A a \in Approvals : \A f \in Families : a[f] \in experiments
    BY DEF Approvals
  <1>3. CASE CompareModels(p)
    BY <1>3, ResearchAssumption DEF CompareModels, DraftTyped
  <1>4. CASE ExplainModel(p)
    BY <1>4, ResearchAssumption DEF ExplainModel, DraftTyped, TInv, ExperimentsTyped
  <1>5. CASE ValidateStatistics(p)
    BY <1>5, ResearchAssumption DEF ValidateStatistics, DraftTyped
  <1>6. CASE DiagnoseResiduals(p)
    BY <1>1, <1>2, <1>6, ResearchAssumption DEF DiagnoseResiduals, DraftTyped
  <1>7. CASE AnalyzeRegimes(p)
    BY <1>1, <1>7, ResearchAssumption DEF AnalyzeRegimes, DraftTyped
  <1>8. CASE SelectModel(p)
    <2>1. \A s \in OfKind("statistical") : s.run \in RunIds
      BY DEF TInv, ReportsTyped, OfKind
    <2> QED
      BY <1>8, <2>1, ResearchAssumption DEF SelectModel, DraftTyped
  <1> QED
    BY <1>3, <1>4, <1>5, <1>6, <1>7, <1>8

\* A step that leaves the tables alone keeps them typed.
LEMMA TablesStand ==
    ASSUME TInv, UNCHANGED <<runs, experiments, evidence, reports, consumptions>>,
           NEW p \in Procs, NEW j, Become(p, j), JobTyped(j)
    PROVE  TInv'
  <1>1. Grows
    BY DEF Grows
  <1>2. JobTyped(j)'
    BY <1>1, JobLater DEF TInv
  <1>3. JobsTyped'
    BY <1>1, <1>2, JobsStep DEF TInv
  <1> QED
    BY <1>3 DEF TInv, RunsTyped, ExperimentsTyped, ReportsTyped, ConsumptionsTyped, RunIds

\* A session without a transaction refers to nothing.
LEMMA IdleTyped == JobTyped(Idle)
  BY DEF JobTyped, Idle, Jobs

\* A creation adds the only active run, within the bound on runs, or nothing.
LEMMA RegisterTyped ==
    ASSUME TInv, Shape, NEW p \in Procs, RegisterValidationRun(p)
    PROVE  TInv'
  <1>1. CASE ~ ActiveUnique(p)
    <2>1. UNCHANGED <<runs, experiments, evidence, reports, consumptions>> /\ Become(p, Idle)
      BY <1>1 DEF RegisterValidationRun
    <2> QED
      BY <2>1, IdleTyped, TablesStand
  <1>2. CASE ActiveUnique(p)
    <2>1. /\ runs' \in Seq(Run) /\ Len(runs') = Len(runs) + 1
          /\ ActiveRuns' = {Len(runs) + 1} /\ Len(runs) \in Nat
      BY <1>2, NewRun DEF Run
    <2>2. UNCHANGED <<experiments, evidence, reports, consumptions>> /\ Become(p, Idle)
      BY DEF RegisterValidationRun
    <2>3. Grows
      BY <2>1, <2>2 DEF Grows
    <2>4. Len(runs) < MaxRuns
      BY <1>2 DEF RegisterValidationRun, TInv, JobsTyped, JobTyped, RunAllowed, ActiveUnique
    <2>5. RunsTyped' /\ RunIds \subseteq RunIds'
      BY <2>1, <2>4, ResearchAssumption DEF RunsTyped, RunIds
    <2>6. JobTyped(Idle)'
      BY <2>3, IdleTyped, JobLater DEF TInv
    <2>7. JobsTyped'
      BY <2>2, <2>3, <2>6, JobsStep DEF TInv
    <2> QED
      BY <2>2, <2>5, <2>7 DEF TInv, ExperimentsTyped, ReportsTyped, ConsumptionsTyped
  <1> QED
    BY <1>1, <1>2

\* An experiment is added for the run it was trained on.
LEMMA InsertExperimentTyped ==
    ASSUME TInv, NEW p \in Procs, InsertExperiment(p)
    PROVE  TInv'
  <1> DEFINE d == job[p].draft
             e == [family |-> d.family, run |-> d.run,
                   copy |-> Cardinality(Copies(d.family, d.run)) + 1]
  <1>1. /\ experiments' = experiments \cup {e}
        /\ UNCHANGED <<runs, evidence, reports, consumptions>> /\ Become(p, Idle)
    BY DEF InsertExperiment
  <1>2. d.family \in Families /\ d.run \in RunIds
    BY DEF TInv, JobsTyped, JobTyped, InsertExperiment
  <1>3. Cardinality(Copies(d.family, d.run)) \in Nat
    <2>1. IsFiniteSet(Copies(d.family, d.run))
      BY FS_Subset DEF Copies, TInv, ExperimentsTyped
    <2> QED
      BY <2>1, FS_CardinalityType
  <1>4. RunIds \subseteq 1 .. MaxRuns
    BY ResearchAssumption DEF RunIds, TInv, RunsTyped
  <1> HIDE DEF d
  <1>5. e \in Experiment /\ e.run \in RunIds
    <2> DEFINE n == Cardinality(Copies(d.family, d.run)) + 1
    <2>1. n \in Nat
      BY <1>3
    <2> HIDE DEF n
    <2> QED
      BY <1>2, <1>4, <2>1 DEF Experiment, n
  <1> HIDE DEF e
  <1>6. ExperimentsTyped'
    <2>1. IsFiniteSet(experiments')
      BY <1>1, FS_AddElement DEF TInv, ExperimentsTyped
    <2> QED
      BY <1>1, <1>5, <2>1 DEF TInv, ExperimentsTyped, RunIds
  <1>7. Grows
    BY <1>1 DEF Grows
  <1>8. JobTyped(Idle)'
    BY <1>7, IdleTyped, JobLater DEF TInv
  <1>9. JobsTyped'
    BY <1>1, <1>7, <1>8, JobsStep DEF TInv
  <1> QED
    BY <1>1, <1>6, <1>9 DEF TInv, RunsTyped, ReportsTyped, ConsumptionsTyped, RunIds

\* A report is inserted with the evidence it was drafted with.
LEMMA InsertReportTyped ==
    ASSUME TInv, NEW p \in Procs, InsertReport(p)
    PROVE  TInv'
  <1>1. CASE ~ Unstored(job[p])
    <2>1. UNCHANGED <<runs, experiments, evidence, reports, consumptions>> /\ Become(p, Idle)
      BY <1>1 DEF InsertReport
    <2> QED
      BY <2>1, IdleTyped, TablesStand
  <1>2. CASE Unstored(job[p])
    <2>1. /\ reports' = reports \cup {job[p].draft} /\ evidence' = evidence \cup job[p].missing
          /\ UNCHANGED <<runs, experiments, consumptions>> /\ Become(p, Idle)
      BY <1>2 DEF InsertReport
    <2>2. DraftStored(job[p])
      BY DEF InsertReport, TInv, JobsTyped, JobTyped
    <2>3. ReportsTyped'
      BY <2>1, <2>2 DEF TInv, ReportsTyped, DraftStored, RunIds
    <2>4. ExperimentsTyped'
      BY <2>1, <2>2 DEF TInv, ExperimentsTyped, DraftStored, RunIds
    <2>5. Grows
      BY <2>1 DEF Grows
    <2>6. JobTyped(Idle)'
      BY <2>5, IdleTyped, JobLater DEF TInv
    <2>7. JobsTyped'
      BY <2>1, <2>5, <2>6, JobsStep DEF TInv
    <2> QED
      BY <2>1, <2>3, <2>4, <2>7 DEF TInv, RunsTyped, ConsumptionsTyped, RunIds
  <1> QED
    BY <1>1, <1>2

\* A consumption names the selection that its evaluation opened.
LEMMA CommitHoldoutTyped ==
    ASSUME TInv, NEW p \in Procs, CommitHoldout(p)
    PROVE  TInv'
  <1>1. UNCHANGED <<runs, experiments, evidence, reports>> /\ Become(p, Idle)
    BY DEF CommitHoldout
  <1>2. job[p].draft.run \in RunIds /\ job[p].draft.selection \in reports
    BY DEF CommitHoldout, TInv, JobsTyped, JobTyped
  <1>3. ConsumptionsTyped'
    BY <1>1, <1>2 DEF TInv, ConsumptionsTyped, CommitHoldout, RunIds
  <1>4. Grows
    BY <1>1 DEF Grows
  <1>5. JobTyped(Idle)'
    BY <1>4, IdleTyped, JobLater DEF TInv
  <1>6. JobsTyped'
    BY <1>1, <1>4, <1>5, JobsStep DEF TInv
  <1> QED
    BY <1>1, <1>3, <1>6 DEF TInv, RunsTyped, ExperimentsTyped, ReportsTyped, RunIds

\* Every action keeps the types.
LEMMA TypesNext == TInv /\ Shape /\ [Next]_vars => TInv'
  <1> SUFFICES ASSUME TInv, Shape, [Next]_vars PROVE TInv'
    OBVIOUS
  <1>1. CASE UNCHANGED vars
    BY <1>1 DEF vars, TInv, RunsTyped, ExperimentsTyped, ReportsTyped, ConsumptionsTyped,
                JobsTyped, JobTyped, DraftStored, RunAllowed, ActiveRuns, RunIds
  <1>2. ASSUME NEW p \in Procs, NEW c \in Configs, StartValidationRun(p, c) PROVE TInv'
    <2> DEFINE j == [op |-> "supersede", config |-> c, seen |-> ActiveRuns]
    <2>1. JobTyped(j)
      BY <1>2 DEF StartValidationRun, JobTyped, Jobs, RunAllowed, ActiveRuns
    <2> QED
      BY <1>2, <2>1, TablesStand DEF StartValidationRun
  <1>3. ASSUME NEW p \in Procs, LockActiveRuns(p) PROVE TInv'
    <2> DEFINE held == {r \in job[p].seen : runs[r].active}
               j == [op |-> "register", config |-> job[p].config, held |-> held]
    <2>1. job[p].seen \subseteq RunIds /\ RunAllowed(job[p].seen)
      BY <1>3 DEF LockActiveRuns, TInv, JobsTyped, JobTyped
    <2>2. held \subseteq RunIds /\ RunAllowed(held)
      BY <2>1 DEF RunAllowed
    <2> HIDE DEF held
    <2>3. JobTyped(j)
      BY <2>2 DEF JobTyped, Jobs
    <2> QED
      BY <1>3, <2>3, TablesStand DEF LockActiveRuns, held
  <1>4. ASSUME NEW p \in Procs, RegisterValidationRun(p) PROVE TInv'
    BY <1>4, RegisterTyped
  <1>5. ASSUME NEW p \in Procs, NEW f \in Families, TrainExperiment(p, f) PROVE TInv'
    <2>1. PICK r \in ActiveRuns :
            Become(p, [op |-> "train", draft |-> [family |-> f, run |-> r]])
      BY <1>5 DEF TrainExperiment
    <2>2. JobTyped([op |-> "train", draft |-> [family |-> f, run |-> r]])
      BY <2>1 DEF JobTyped, Jobs, ActiveRuns
    <2> QED
      BY <1>5, <2>1, <2>2, TablesStand DEF TrainExperiment
  <1>6. ASSUME NEW p \in Procs, InsertExperiment(p) PROVE TInv'
    BY <1>6, InsertExperimentTyped
  <1>7. ASSUME NEW p \in Procs,
               \/ CompareModels(p) \/ ExplainModel(p) \/ ValidateStatistics(p)
               \/ DiagnoseResiduals(p) \/ AnalyzeRegimes(p) \/ SelectModel(p)
        PROVE  TInv'
    <2>1. PICK d : Build(p, d) /\ DraftTyped(d)
      BY <1>7, DraftIsTyped
    <2> DEFINE j == [op |-> "report", draft |-> d, missing |-> MissingEvidence(d)]
    <2>2. JobTyped(j)
      <3>1. j.op = "report" /\ DraftStored(j)
        BY <2>1 DEF DraftTyped, DraftStored, MissingEvidence
      <3> QED
        BY <3>1 DEF JobTyped, Jobs
    <2> QED
      BY <2>1, <2>2, TablesStand DEF Build
  <1>8. ASSUME NEW p \in Procs, InsertReport(p) PROVE TInv'
    BY <1>8, InsertReportTyped
  <1>9. ASSUME NEW p \in Procs, OpenHoldout(p) PROVE TInv'
    <2>1. PICK s \in OfKind("selection") :
            Become(p, [op |-> "holdout", draft |-> [run |-> s.run, selection |-> s]])
      BY <1>9 DEF OpenHoldout
    <2>2. s \in reports /\ s.run \in RunIds
      BY <2>1 DEF OfKind, TInv, ReportsTyped
    <2>3. JobTyped([op |-> "holdout", draft |-> [run |-> s.run, selection |-> s]])
      BY <2>2 DEF JobTyped, Jobs
    <2> QED
      BY <1>9, <2>1, <2>3, TablesStand DEF OpenHoldout
  <1>10. ASSUME NEW p \in Procs, CommitHoldout(p) PROVE TInv'
    BY <1>10, CommitHoldoutTyped
  <1>11. ASSUME NEW p \in Procs, Abort(p) PROVE TInv'
    BY <1>11, IdleTyped, TablesStand DEF Abort
  <1>12. CASE Next
    BY <1>12, <1>2, <1>3, <1>4, <1>5, <1>6, <1>7, <1>8, <1>9, <1>10, <1>11 DEF Next
  <1> QED
    BY <1>1, <1>12

\* Every record refers to stored ones, of its run and its experiments, and a stored
\* residual report has the evidence it was drafted with, whoever inserted it
\* (persistence/residual_diagnostics.py).
THEOREM ResearchTypeOK == Spec => []TypeOK
  <1>1. Init => TInv
    <2> SUFFICES ASSUME Init PROVE TInv
      OBVIOUS
    <2>1. RunsTyped /\ ReportsTyped /\ ConsumptionsTyped
      BY ResearchAssumption DEF Init, RunsTyped, ReportsTyped, ConsumptionsTyped
    <2>2. ExperimentsTyped
      BY FS_EmptySet DEF Init, ExperimentsTyped
    <2>3. JobsTyped
      BY IdleTyped DEF Init, JobsTyped
    <2> QED
      BY <2>1, <2>2, <2>3 DEF TInv
  <1>2. IInv => Shape
    BY DEF IInv
  <1>3. TInv => TypeOK
    BY DEF TInv, TypeOK, RunsTyped, Run, ExperimentsTyped, ReportsTyped, OfKind,
           ConsumptionsTyped, JobsTyped, JobTyped
  <1> QED
    BY <1>1, <1>2, <1>3, TypesNext, Invariance, PTL DEF Spec
=============================================================================
