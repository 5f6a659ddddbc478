----------------------------- MODULE DailyProofs -----------------------------
(* For any analysts, windows, horizons, split configurations, databases of an *)
(* earlier revision and ingestions: the active feature and target runs are    *)
(* complete, and every dataset is a single pass over the candles of its       *)
(* batch that looks at nothing ahead; and the daily backfill hands over       *)
(* nothing but a faithful sample, whatever pages and cursors Kraken answers.  *)
EXTENDS DailyPipeline, DailyBackfill, Extremes, FiniteSetTheorems, TLAPS

-----------------------------------------------------------------------------
(* Tables of runs and of batches.                                             *)

BatchFields == {"active"}
RunFields == {"batch", "days", "active"}
IsTable(s, fields) ==
    /\ Len(s) \in Nat /\ DOMAIN s = 1 .. Len(s)
    /\ \A i \in DOMAIN s : fields \subseteq DOMAIN s[i]

LEMMA AppendShape ==
    ASSUME NEW s, Len(s) \in Nat, DOMAIN s = 1 .. Len(s), NEW row
    PROVE  /\ Len(Append(s, row)) = Len(s) + 1
           /\ DOMAIN Append(s, row) = 1 .. Len(s) + 1
           /\ Append(s, row)[Len(s) + 1] = row
           /\ \A i \in DOMAIN s : Append(s, row)[i] = s[i]
  OBVIOUS

\* A row that is not active joins the table and changes no other.
LEMMA AppendInactive ==
    ASSUME NEW s, NEW fields, IsTable(s, fields), NEW row,
           fields \subseteq DOMAIN row, ~ row.active
    PROVE  /\ IsTable(Append(s, row), fields)
           /\ Active(Append(s, row)) = Active(s)
           /\ \A i \in DOMAIN s : Append(s, row)[i] = s[i]
           /\ Append(s, row)[Len(s) + 1] = row
           /\ DOMAIN Append(s, row) = DOMAIN s \cup {Len(s) + 1}
           /\ Len(s) + 1 \notin DOMAIN s
  <1>1. /\ Len(Append(s, row)) = Len(s) + 1
        /\ DOMAIN Append(s, row) = 1 .. Len(s) + 1
        /\ Append(s, row)[Len(s) + 1] = row
        /\ \A i \in DOMAIN s : Append(s, row)[i] = s[i]
    BY AppendShape DEF IsTable
  <1>2. /\ DOMAIN Append(s, row) = DOMAIN s \cup {Len(s) + 1}
        /\ Len(s) + 1 \notin DOMAIN s
        /\ Len(s) + 1 \in Nat
    BY <1>1 DEF IsTable
  <1> QED
    BY <1>1, <1>2 DEF IsTable, Active, Ids

\* The batch and the days that a run or an open transaction computed from.
Snapshot(x) == <<x.batch, x.days>>

\* A new run keeps the batch and the days of the others; if it is active, it is
\* the only active one.
LEMMA AppendRunShape ==
    ASSUME NEW s, IsTable(s, RunFields), NEW row, RunFields \subseteq DOMAIN row
    PROVE  /\ IsTable(AppendRun(s, row), RunFields)
           /\ \A i \in DOMAIN s : Snapshot(AppendRun(s, row)[i]) = Snapshot(s[i])
           /\ AppendRun(s, row)[Len(s) + 1] = row
           /\ DOMAIN AppendRun(s, row) = DOMAIN s \cup {Len(s) + 1}
           /\ row.active => Active(AppendRun(s, row)) = {Len(s) + 1}
           /\ ~ row.active => Active(AppendRun(s, row)) = Active(s)
  <1>1. CASE ~ row.active
    <2>1. AppendRun(s, row) = Append(s, row)
      BY <1>1 DEF AppendRun
    <2>2. /\ IsTable(Append(s, row), RunFields)
          /\ Active(Append(s, row)) = Active(s)
          /\ \A i \in DOMAIN s : Append(s, row)[i] = s[i]
          /\ Append(s, row)[Len(s) + 1] = row
          /\ DOMAIN Append(s, row) = DOMAIN s \cup {Len(s) + 1}
      BY <1>1, AppendInactive
    <2> QED
      BY <1>1, <2>1, <2>2
  <1>2. CASE row.active
    <2> DEFINE t == [i \in Ids(s) |-> [s[i] EXCEPT !.active = FALSE]]
    <2>1. DOMAIN t = DOMAIN s /\ t \in [1 .. Len(s) -> {t[i] : i \in DOMAIN s}] /\ Len(s) \in Nat
      BY DEF Ids, IsTable
    <2>2. \A i \in DOMAIN s : /\ t[i].active = FALSE
                              /\ Snapshot(t[i]) = Snapshot(s[i])
                              /\ RunFields \subseteq DOMAIN t[i]
      BY DEF IsTable, Ids, RunFields, Snapshot
    <2> HIDE DEF t
    <2>3. Len(t) = Len(s) /\ DOMAIN t = 1 .. Len(t)
      BY <2>1
    <2>4. /\ Len(Append(t, row)) = Len(s) + 1
          /\ DOMAIN Append(t, row) = 1 .. Len(s) + 1
          /\ Append(t, row)[Len(s) + 1] = row
          /\ \A i \in DOMAIN s : Append(t, row)[i] = t[i]
      BY <2>1, <2>3, AppendShape
    <2>5. AppendRun(s, row) = Append(t, row)
      BY <1>2 DEF AppendRun, t
    <2>6. DOMAIN Append(t, row) = DOMAIN s \cup {Len(s) + 1} /\ Len(s) + 1 \in Nat
      BY <2>1, <2>4 DEF IsTable
    <2>7. IsTable(Append(t, row), RunFields)
      BY <2>2, <2>4, <2>6 DEF IsTable
    <2>8. Active(Append(t, row)) = {Len(s) + 1}
      BY <1>2, <2>2, <2>4, <2>6 DEF Active, Ids
    <2> QED
      BY <1>2, <2>2, <2>4, <2>5, <2>6, <2>7, <2>8
  <1> QED
    BY <1>1, <1>2

-----------------------------------------------------------------------------
(* The invariant.                                                             *)

Computing == {a \in Analysts : Doing(a, "features") \/ Doing(a, "targets")}

Snapshots == {Snapshot(work[a]) : a \in Computing}
             \cup {Snapshot(featureRuns[r]) : r \in DOMAIN featureRuns}
             \cup {Snapshot(targetRuns[r]) : r \in DOMAIN targetRuns}

\* What was ever computed was computed from the same days: those of the active
\* batch, which no later candle is one of.
OneSnapshot ==
    /\ \A x \in Snapshots : /\ Active(batches) = {x[1]}
                            /\ x[2] \subseteq days
                            /\ Cardinality(x[2]) = Cardinality(batches[x[1]].days)
    /\ \A x, y \in Snapshots : x[2] = y[2]

\* Rows without the columns that name their run.
FeatureOf(v) == [day |-> v.day, name |-> v.name, inputs |-> v.inputs]
LabelOf(l) == [day |-> l.day, availableAt |-> l.availableAt]

ValuesOf(ds, run) ==
    {[day |-> v.day, name |-> v.name, inputs |-> v.inputs, run |-> run] : v \in ComputedValues(ds)}

\* Either nothing was stored, or one run stored everything and is the active one.
FeaturesComplete ==
    \/ values = {} /\ Active(featureRuns) = {}
    \/ \E r \in DOMAIN featureRuns : /\ Active(featureRuns) = {r}
                                     /\ values = ValuesOf(featureRuns[r].days, r)

\* The same for labels, whose rows also name the feature run and the candles.
TargetsComplete ==
    \/ labels = {} /\ Active(targetRuns) = {}
    \/ \E r \in DOMAIN targetRuns :
         /\ Active(targetRuns) = {r}
         /\ \A l \in labels : l.run = r
         /\ {LabelOf(l) : l \in labels}
              = ForwardLabels(targetRuns[r].days)

\* Before the upgrade nothing was computed, and there are finitely many candles.
Tables ==
    /\ IsTable(featureRuns, RunFields) /\ IsTable(targetRuns, RunFields)
    /\ upgraded = "no" => Snapshots = {}
    /\ upgraded # "no" => IsTable(batches, BatchFields)
    /\ IsFiniteSet(days) /\ yesterday \in Int
    /\ work = [a \in Analysts |-> work[a]]

DailyInv == Tables /\ OneSnapshot /\ FeaturesComplete /\ TargetsComplete

-----------------------------------------------------------------------------
(* One snapshot.                                                              *)

LEMMA OneSnapshotStays ==
    ASSUME OneSnapshot, Snapshots' \subseteq Snapshots, days \subseteq days',
           Snapshots # {} => /\ Active(batches') = Active(batches)
                             /\ \A b \in Active(batches) : batches'[b] = batches[b]
    PROVE  OneSnapshot'
  <1>1. ASSUME NEW x \in Snapshots'
        PROVE  /\ Active(batches') = {x[1]}
               /\ x[2] \subseteq days'
               /\ Cardinality(x[2]) = Cardinality(batches'[x[1]].days)
    <2>1. x \in Snapshots /\ Active(batches) = {x[1]} /\ x[2] \subseteq days
          /\ Cardinality(x[2]) = Cardinality(batches[x[1]].days)
      BY <1>1 DEF OneSnapshot
    <2>2. Active(batches') = Active(batches) /\ batches'[x[1]] = batches[x[1]]
      BY <2>1
    <2> QED
      BY <2>1, <2>2
  <1>2. \A x, y \in Snapshots' : x[2] = y[2]
    BY DEF OneSnapshot
  <1> HIDE DEF Snapshots
  <1>3. Snapshots' = Snapshots' /\ batches' = batches' /\ days' = days'
    OBVIOUS
  <1> QED
    BY <1>1, <1>2 DEF OneSnapshot

\* A transaction that opens reads what the others read: the same number of
\* candles as the active batch has, among at least theirs.
LEMMA OneSnapshotOpens ==
    ASSUME OneSnapshot, IsFiniteSet(days), UNCHANGED <<days, batches>>,
           NEW b \in Ids(batches), DescribesAll(b),
           Snapshots' \subseteq Snapshots \cup {<<b, days>>}
    PROVE  OneSnapshot'
  <1>1. Active(batches) = {b} /\ Cardinality(batches[b].days) = Cardinality(days)
    BY DEF DescribesAll, TheActive
  <1>2. \A x \in Snapshots : x[2] = days
    <2> TAKE x \in Snapshots
    <2>1. Active(batches) = {x[1]} /\ x[2] \subseteq days
          /\ Cardinality(x[2]) = Cardinality(batches[x[1]].days)
      BY DEF OneSnapshot
    <2>2. Cardinality(x[2]) = Cardinality(days)
      BY <1>1, <2>1
    <2> QED
      BY <2>1, <2>2, FS_Subset
  <1>3. \A x \in Snapshots' : x[2] = days /\ (x[1] = b \/ x \in Snapshots)
    BY <1>2
  <1>4. \A x \in Snapshots' : Active(batches) = {x[1]}
    BY <1>1, <1>3 DEF OneSnapshot
  <1>5. \A x \in Snapshots' : Cardinality(x[2]) = Cardinality(batches[x[1]].days)
    BY <1>1, <1>3, <1>4
  <1> HIDE DEF Snapshots
  <1> QED
    BY <1>3, <1>4, <1>5 DEF OneSnapshot

\* A session's next work.
LEMMA WorkStep ==
    ASSUME work = [a \in Analysts |-> work[a]], NEW a \in Analysts, NEW w, Working(a, w)
    PROVE  /\ work' = [e \in Analysts |-> work'[e]]
           /\ work'[a] = w
           /\ \A e \in Analysts \ {a} : work'[e] = work[e]
  BY DEF Working

\* A session that ends or reads for another purpose.
LEMMA SnapshotsStay ==
    ASSUME Tables, NEW a \in Analysts, NEW w, Working(a, w),
           w.step \notin {"features", "targets"}, UNCHANGED <<featureRuns, targetRuns>>
    PROVE  Snapshots' \subseteq Snapshots
  <1>1. \A e \in Computing' : e \in Computing /\ work'[e] = work[e]
    BY WorkStep DEF Tables, Computing, Doing
  <1> QED
    BY <1>1 DEF Snapshots

\* A transaction opens.
LEMMA SnapshotsOpen ==
    ASSUME Tables, NEW a \in Analysts, NEW w, Working(a, w),
           UNCHANGED <<featureRuns, targetRuns>>
    PROVE  Snapshots' \subseteq Snapshots \cup {Snapshot(w)}
  <1>1. \A e \in Computing' : \/ e \in Computing /\ work'[e] = work[e]
                              \/ work'[e] = w
    BY WorkStep DEF Tables, Computing, Doing
  <1> QED
    BY <1>1 DEF Snapshots

\* A transaction becomes a run of its own snapshot.
LEMMA SnapshotsPersist ==
    ASSUME Tables, NEW a \in Computing, Rest(a), NEW row, RunFields \subseteq DOMAIN row,
           Snapshot(row) = Snapshot(work[a]),
           \/ featureRuns' = AppendRun(featureRuns, row) /\ UNCHANGED targetRuns
           \/ targetRuns' = AppendRun(targetRuns, row) /\ UNCHANGED featureRuns
    PROVE  Snapshots' \subseteq Snapshots
  <1>1. a \in Analysts /\ Working(a, Resting) /\ Resting.step = "rest"
    BY DEF Computing, Rest, Resting
  <1>2. \A e \in Computing' : e \in Computing /\ work'[e] = work[e]
    BY <1>1, WorkStep DEF Tables, Computing, Doing
  <1>3. \A s : IsTable(s, RunFields) =>
          \A i \in DOMAIN AppendRun(s, row) :
            \/ i \in DOMAIN s /\ Snapshot(AppendRun(s, row)[i]) = Snapshot(s[i])
            \/ Snapshot(AppendRun(s, row)[i]) = Snapshot(work[a])
    <2> TAKE s
    <2> HAVE IsTable(s, RunFields)
    <2>1. /\ \A i \in DOMAIN s : Snapshot(AppendRun(s, row)[i]) = Snapshot(s[i])
          /\ AppendRun(s, row)[Len(s) + 1] = row
          /\ DOMAIN AppendRun(s, row) = DOMAIN s \cup {Len(s) + 1}
      BY AppendRunShape
    <2> QED
      BY <2>1
  <1>4. CASE featureRuns' = AppendRun(featureRuns, row) /\ UNCHANGED targetRuns
    <2>1. \A i \in DOMAIN featureRuns' :
            \/ i \in DOMAIN featureRuns /\ Snapshot(featureRuns'[i]) = Snapshot(featureRuns[i])
            \/ Snapshot(featureRuns'[i]) = Snapshot(work[a])
      BY <1>3, <1>4 DEF Tables
    <2>2. \A i \in DOMAIN featureRuns' : Snapshot(featureRuns'[i]) \in Snapshots
      BY <2>1 DEF Snapshots
    <2>3. \A i \in DOMAIN targetRuns' : Snapshot(targetRuns'[i]) \in Snapshots
      BY <1>4 DEF Snapshots
    <2>4. \A e \in Computing' : Snapshot(work'[e]) \in Snapshots
      BY <1>2 DEF Snapshots
    <2> QED
      BY <2>2, <2>3, <2>4 DEF Snapshots
  <1>5. CASE targetRuns' = AppendRun(targetRuns, row) /\ UNCHANGED featureRuns
    <2>1. \A i \in DOMAIN targetRuns' :
            \/ i \in DOMAIN targetRuns /\ Snapshot(targetRuns'[i]) = Snapshot(targetRuns[i])
            \/ Snapshot(targetRuns'[i]) = Snapshot(work[a])
      BY <1>3, <1>5 DEF Tables
    <2>2. \A i \in DOMAIN targetRuns' : Snapshot(targetRuns'[i]) \in Snapshots
      BY <2>1 DEF Snapshots
    <2>3. \A i \in DOMAIN featureRuns' : Snapshot(featureRuns'[i]) \in Snapshots
      BY <1>5 DEF Snapshots
    <2>4. \A e \in Computing' : Snapshot(work'[e]) \in Snapshots
      BY <1>2 DEF Snapshots
    <2> QED
      BY <2>2, <2>3, <2>4 DEF Snapshots
  <1> QED
    BY <1>4, <1>5

-----------------------------------------------------------------------------
(* The steps that compute nothing.                                            *)

\* They leave the runs, their rows and the snapshots as they are.
LEMMA QuietStepKeeps ==
    ASSUME DailyInv, UNCHANGED <<featureRuns, targetRuns, values, labels, days, batches, yesterday>>,
           upgraded # "no", UNCHANGED upgraded,
           NEW a \in Analysts, NEW w, Working(a, w), w.step \notin {"features", "targets"}
    PROVE  DailyInv'
  <1>1. Snapshots' \subseteq Snapshots
    BY SnapshotsStay DEF DailyInv
  <1>2. OneSnapshot'
    BY <1>1, OneSnapshotStays DEF DailyInv
  <1>3. Tables'
    BY WorkStep DEF DailyInv, Tables
  <1> QED
    BY <1>2, <1>3 DEF DailyInv, FeaturesComplete, TargetsComplete

LEMMA UpgradeKeeps == ASSUME DailyInv, Upgrade PROVE DailyInv'
  <1>1. UNCHANGED <<featureRuns, targetRuns, values, labels, work>> /\ Snapshots = {}
    BY DEF Upgrade, DailyInv, Tables
  <1>2. Snapshots' = {}
    BY <1>1 DEF Snapshots, Computing, Doing
  <1>3. PICK history \in Legacy :
          /\ days' = StoredBy(history)
          /\ batches' = [i \in Ids(history) |->
                           [days |-> history[i].days, passed |-> history[i].passed,
                            active |-> i \in Canonical(history)]]
          /\ yesterday' = Max({0} \cup UNION {history[i].days : i \in Ids(history)})
          /\ upgraded' = IF history # << >> /\ Canonical(history) = {} THEN "failed" ELSE "yes"
    BY DEF Upgrade
  <1>4. IsFiniteSet(days') /\ yesterday' \in Int
    <2> DEFINE S == {0} \cup UNION {history[i].days : i \in Ids(history)}
    <2>1. S \in SUBSET (0 .. LastDay) /\ LastDay \in Nat /\ S # {} /\ days' \in SUBSET (0 .. LastDay)
      BY <1>3, DailyAssumption DEF StoredBy, Ids
    <2> HIDE DEF S
    <2>2. Max(S) \in S
      BY <2>1, MinMaxAreMembers
    <2>3. IsFiniteSet(0 .. LastDay)
      BY <2>1, FS_Interval
    <2>4. yesterday' = Max(S)
      BY <1>3 DEF S
    <2>5. IsFiniteSet(days')
      BY <2>1, <2>3, FS_Subset
    <2>6. \A x \in S : x \in Int
      BY <2>1
    <2> QED
      BY <2>2, <2>4, <2>5, <2>6
  <1>5. IsTable(batches', BatchFields)
    <2>1. Len(history) \in Nat /\ DOMAIN history = 1 .. Len(history)
      BY DailyAssumption
    <2> QED
      BY <1>3, <2>1 DEF IsTable, BatchFields, Ids
  <1>6. Tables'
    BY <1>1, <1>2, <1>4, <1>5 DEF DailyInv, Tables
  <1>7. OneSnapshot'
    <2> HIDE DEF Snapshots
    <2> QED
      BY <1>2 DEF OneSnapshot
  <1> QED
    BY <1>1, <1>6, <1>7 DEF DailyInv, FeaturesComplete, TargetsComplete

LEMMA NextDayKeeps == ASSUME DailyInv, NextDay PROVE DailyInv'
  <1>1. /\ UNCHANGED <<upgraded, days, batches, featureRuns, values, targetRuns, labels, work>>
        /\ yesterday' = yesterday + 1
    BY DEF NextDay
  <1>2. Snapshots' = Snapshots
    BY <1>1 DEF Snapshots, Computing, Doing
  <1>3. Tables'
    BY <1>1, <1>2 DEF DailyInv, Tables
  <1>4. OneSnapshot'
    BY <1>1, <1>2, OneSnapshotStays DEF DailyInv
  <1> QED
    BY <1>1, <1>3, <1>4 DEF DailyInv, FeaturesComplete, TargetsComplete

\* A batch never becomes the active one, and candles are only added.
LEMMA IngestDailyKeeps ==
    ASSUME DailyInv, NEW start \in Starts, NEW passed \in BOOLEAN, IngestDaily(start, passed)
    PROVE  DailyInv'
  <1> DEFINE row == [days |-> start .. yesterday, passed |-> passed, active |-> FALSE]
  <1>1. /\ UNCHANGED <<upgraded, yesterday, featureRuns, values, targetRuns, labels, work>>
        /\ batches' = Append(batches, row) /\ upgraded = "yes"
        /\ days' = IF passed THEN days \cup (start .. yesterday) ELSE days
    BY DEF IngestDaily, StoreBatch
  <1>2. Snapshots' = Snapshots
    BY <1>1 DEF Snapshots, Computing, Doing
  <1>3. IsTable(batches, BatchFields)
    BY <1>1 DEF DailyInv, Tables
  <1>4. /\ IsTable(batches', BatchFields)
        /\ Active(batches') = Active(batches)
        /\ \A i \in DOMAIN batches : batches'[i] = batches[i]
    <2>1. BatchFields \subseteq DOMAIN row /\ ~ row.active
      BY DEF BatchFields
    <2> HIDE DEF row
    <2> QED
      BY <1>1, <1>3, <2>1, AppendInactive
  <1>5. IsFiniteSet(days') /\ days \subseteq days'
    <2>1. start \in Int /\ yesterday \in Int /\ IsFiniteSet(days)
      BY DailyAssumption DEF DailyInv, Tables
    <2>2. IsFiniteSet(start .. yesterday)
      BY <2>1, FS_Interval
    <2> QED
      BY <1>1, <2>1, <2>2, FS_Union
  <1>6. OneSnapshot'
    BY <1>2, <1>4, <1>5, OneSnapshotStays DEF DailyInv, Active, Ids
  <1>7. Tables'
    BY <1>1, <1>2, <1>4, <1>5 DEF DailyInv, Tables
  <1> QED
    BY <1>1, <1>6, <1>7 DEF DailyInv, FeaturesComplete, TargetsComplete

-----------------------------------------------------------------------------
(* Feature and target runs.                                                   *)

\* A transaction that opens on the stored candles.
LEMMA OpenKeeps ==
    ASSUME DailyInv, upgraded = "yes", NEW a \in Analysts, NEW w, Working(a, w),
           NEW b \in Ids(batches), DescribesAll(b), Snapshot(w) = <<b, days>>,
           UNCHANGED <<upgraded, yesterday, days, batches, featureRuns, values, targetRuns, labels>>
    PROVE  DailyInv'
  <1>1. Snapshots' \subseteq Snapshots \cup {<<b, days>>}
    BY SnapshotsOpen DEF DailyInv
  <1>2. OneSnapshot'
    BY <1>1, OneSnapshotOpens DEF DailyInv, Tables
  <1>3. Tables'
    BY WorkStep DEF DailyInv, Tables
  <1> QED
    BY <1>2, <1>3 DEF DailyInv, FeaturesComplete, TargetsComplete

LEMMA ComputeKeeps ==
    ASSUME DailyInv, NEW a \in Analysts, ComputeFeatures(a) \/ GenerateTargets(a)
    PROVE  DailyInv'
  <1>1. /\ upgraded = "yes"
        /\ UNCHANGED <<upgraded, yesterday, days, batches, featureRuns, values, targetRuns, labels>>
    BY DEF ComputeFeatures, GenerateTargets
  <1>2. PICK b \in Ids(batches) :
          DescribesAll(b) /\ \E w : Working(a, w) /\ Snapshot(w) = <<b, days>>
    <2>1. CASE ComputeFeatures(a)
      <3>1. PICK b \in Ids(batches) :
              DescribesAll(b) /\ Working(a, [step |-> "features", batch |-> b, days |-> days])
        BY <2>1 DEF ComputeFeatures
      <3>2. Snapshot([step |-> "features", batch |-> b, days |-> days]) = <<b, days>>
        BY DEF Snapshot
      <3> QED
        BY <3>1, <3>2
    <2>2. CASE GenerateTargets(a)
      <3>1. PICK b \in Ids(batches), f \in Ids(featureRuns) :
              /\ DescribesAll(b)
              /\ Working(a, [step |-> "targets", batch |-> b, featureRun |-> f, days |-> days])
        BY <2>2 DEF GenerateTargets
      <3>2. Snapshot([step |-> "targets", batch |-> b, featureRun |-> f, days |-> days])
              = <<b, days>>
        BY DEF Snapshot
      <3> QED
        BY <3>1, <3>2
    <2> QED
      BY <2>1, <2>2
  <1> QED
    BY <1>1, <1>2, OpenKeeps

\* The transaction of a run commits: its snapshot is the one everything stored
\* was computed from, so either all its rows are new or none is.
LEMMA PersistKeepsTables ==
    ASSUME DailyInv, NEW a \in Computing, Rest(a), NEW row, RunFields \subseteq DOMAIN row,
           Snapshot(row) = Snapshot(work[a]),
           \/ featureRuns' = AppendRun(featureRuns, row) /\ UNCHANGED targetRuns
           \/ targetRuns' = AppendRun(targetRuns, row) /\ UNCHANGED featureRuns,
           UNCHANGED <<upgraded, yesterday, days, batches>>
    PROVE  Tables' /\ OneSnapshot'
  <1>1. Snapshots' \subseteq Snapshots
    BY SnapshotsPersist DEF DailyInv
  <1>2. OneSnapshot'
    BY <1>1, OneSnapshotStays DEF DailyInv
  <1>3. work' = [e \in Analysts |-> work'[e]]
    BY WorkStep DEF DailyInv, Tables, Rest, Computing
  <1>4. IsTable(featureRuns', RunFields) /\ IsTable(targetRuns', RunFields)
    BY AppendRunShape DEF DailyInv, Tables
  <1>5. Tables'
    BY <1>1, <1>3, <1>4 DEF DailyInv, Tables
  <1> QED
    BY <1>2, <1>5

LEMMA SameDays ==
    ASSUME DailyInv, NEW a \in Computing
    PROVE  /\ \A r \in DOMAIN featureRuns : featureRuns[r].days = work[a].days
           /\ \A r \in DOMAIN targetRuns : targetRuns[r].days = work[a].days
  <1>1. \A x, y : Snapshot(x) \in Snapshots /\ Snapshot(y) \in Snapshots => x.days = y.days
    BY DEF DailyInv, OneSnapshot, Snapshot
  <1> QED
    BY <1>1 DEF Snapshots

\* Whoever computes after an active run inserts nothing.
LEMMA LaterFeatureRun ==
    ASSUME DailyInv, NEW a \in Analysts, PersistFeatures(a), Active(featureRuns) # {}
    PROVE  values' = values /\ Active(featureRuns') = Active(featureRuns)
  <1> DEFINE w == work[a]
             fresh == {v \in ComputedValues(w.days) : \A s \in values : ~ SameValue(v, s)}
             row == [batch |-> w.batch, days |-> w.days, persisted |-> Cardinality(fresh),
                     active |-> Promoted(fresh)]
  <1>1. a \in Computing /\ featureRuns' = AppendRun(featureRuns, row)
    BY DEF PersistFeatures, Computing
  <1>2. PICK r \in DOMAIN featureRuns : values = ValuesOf(featureRuns[r].days, r)
    BY DEF DailyInv, FeaturesComplete
  <1>3. featureRuns[r].days = w.days
    BY <1>1, SameDays
  <1>4. ASSUME NEW v \in ComputedValues(w.days)
        PROVE  \E x \in values : SameValue(v, x)
    <2> DEFINE x == [day |-> v.day, name |-> v.name, inputs |-> v.inputs, run |-> r]
    <2>1. x \in values
      BY <1>2, <1>3 DEF ValuesOf
    <2>2. SameValue(v, x)
      BY DEF SameValue
    <2> QED
      BY <2>1, <2>2
  <1>5. fresh = {}
    BY <1>4
  <1>6. RunFields \subseteq DOMAIN row /\ ~ row.active /\ IsTable(featureRuns, RunFields)
    BY <1>5 DEF RunFields, Promoted, DailyInv, Tables
  <1>7. values' = values
    BY <1>5 DEF PersistFeatures
  <1> HIDE DEF row
  <1> QED
    BY <1>1, <1>6, <1>7, AppendRunShape

LEMMA LaterTargetRun ==
    ASSUME DailyInv, NEW a \in Analysts, PersistTargets(a), Active(targetRuns) # {}
    PROVE  labels' = labels /\ Active(targetRuns') = Active(targetRuns)
  <1> DEFINE w == work[a]
             fresh == {n \in ForwardLabels(w.days) : \A l \in labels : l.day # n.day}
             row == [batch |-> w.batch, featureRun |-> w.featureRun, days |-> w.days,
                     active |-> Promoted(fresh)]
  <1>1. a \in Computing /\ targetRuns' = AppendRun(targetRuns, row)
    BY DEF PersistTargets, Computing
  <1>2. PICK r \in DOMAIN targetRuns :
          {LabelOf(l) : l \in labels} = ForwardLabels(targetRuns[r].days)
    BY DEF DailyInv, TargetsComplete
  <1>3. targetRuns[r].days = w.days
    BY <1>1, SameDays
  <1>4. \A n \in ForwardLabels(w.days) : \E l \in labels : l.day = n.day
    BY <1>2, <1>3 DEF LabelOf
  <1>5. fresh = {}
    BY <1>4
  <1>6. RunFields \subseteq DOMAIN row /\ ~ row.active /\ IsTable(targetRuns, RunFields)
    BY <1>5 DEF RunFields, Promoted, DailyInv, Tables
  <1>7. labels' = labels
    BY <1>5 DEF PersistTargets
  <1> HIDE DEF row
  <1> QED
    BY <1>1, <1>6, <1>7, AppendRunShape

LEMMA PersistFeaturesKeeps ==
    ASSUME DailyInv, NEW a \in Analysts, PersistFeatures(a)
    PROVE  DailyInv'
  <1> DEFINE w == work[a]
             fresh == {v \in ComputedValues(w.days) : \A s \in values : ~ SameValue(v, s)}
             run == Len(featureRuns) + 1
             row == [batch |-> w.batch, days |-> w.days, persisted |-> Cardinality(fresh),
                     active |-> Promoted(fresh)]
  <1>1. /\ values' = values \cup
             {[day |-> v.day, name |-> v.name, inputs |-> v.inputs, run |-> run] : v \in fresh}
        /\ featureRuns' = AppendRun(featureRuns, row)
        /\ Rest(a) /\ a \in Computing
        /\ UNCHANGED <<upgraded, yesterday, days, batches, targetRuns, labels>>
    BY DEF PersistFeatures, Computing
  <1>2. RunFields \subseteq DOMAIN row /\ Snapshot(row) = Snapshot(w) /\ row.days = w.days
        /\ row.active = Promoted(fresh)
    BY DEF RunFields, Snapshot
  <1>3. Tables' /\ OneSnapshot'
    <2> HIDE DEF row, w
    <2> QED
      BY <1>1, <1>2, PersistKeepsTables DEF w
  <1>4. /\ \A i \in DOMAIN featureRuns : Snapshot(featureRuns'[i]) = Snapshot(featureRuns[i])
        /\ featureRuns'[run] = row
        /\ DOMAIN featureRuns' = DOMAIN featureRuns \cup {run}
        /\ row.active => Active(featureRuns') = {run}
        /\ ~ row.active => Active(featureRuns') = Active(featureRuns)
    <2> HIDE DEF row
    <2>1. IsTable(featureRuns, RunFields) /\ RunFields \subseteq DOMAIN row
      BY <1>2 DEF DailyInv, Tables
    <2>2. /\ \A i \in DOMAIN featureRuns :
               Snapshot(AppendRun(featureRuns, row)[i]) = Snapshot(featureRuns[i])
          /\ AppendRun(featureRuns, row)[run] = row
          /\ DOMAIN AppendRun(featureRuns, row) = DOMAIN featureRuns \cup {run}
          /\ row.active => Active(AppendRun(featureRuns, row)) = {run}
          /\ ~ row.active => Active(AppendRun(featureRuns, row)) = Active(featureRuns)
      BY <2>1, AppendRunShape
    <2> HIDE DEF run
    <2> QED
      BY <1>1, <2>2
  <1> HIDE DEF row, run
  <1>5. FeaturesComplete'
    <2>1. CASE values = {} /\ Active(featureRuns) = {}
      <3>1. fresh = ComputedValues(w.days)
        BY <2>1
      <3>2. CASE fresh = {}
        BY <1>1, <1>2, <1>4, <2>1, <3>2 DEF Promoted, FeaturesComplete
      <3>3. CASE fresh # {}
        <4>1. Active(featureRuns') = {run} /\ run \in DOMAIN featureRuns'
          BY <1>2, <1>4, <3>3 DEF Promoted
        <4>2. values' = ValuesOf(featureRuns'[run].days, run)
          BY <1>1, <1>2, <1>4, <2>1, <3>1 DEF ValuesOf
        <4> QED
          BY <4>1, <4>2 DEF FeaturesComplete
      <3> QED
        BY <3>2, <3>3
    <2>2. ASSUME NEW r \in DOMAIN featureRuns, Active(featureRuns) = {r},
                 values = ValuesOf(featureRuns[r].days, r)
          PROVE  FeaturesComplete'
      <3>1. values' = values /\ Active(featureRuns') = {r} /\ r \in DOMAIN featureRuns'
        BY <1>4, <2>2, LaterFeatureRun
      <3>2. featureRuns'[r].days = featureRuns[r].days
        BY <1>4 DEF Snapshot
      <3> QED
        BY <2>2, <3>1, <3>2 DEF FeaturesComplete
    <2> QED
      BY <2>1, <2>2 DEF DailyInv, FeaturesComplete
  <1> QED
    BY <1>1, <1>3, <1>5 DEF DailyInv, TargetsComplete

LEMMA PersistTargetsKeeps ==
    ASSUME DailyInv, NEW a \in Analysts, PersistTargets(a)
    PROVE  DailyInv'
  <1> DEFINE w == work[a]
             fresh == {n \in ForwardLabels(w.days) : \A l \in labels : l.day # n.day}
             run == Len(targetRuns) + 1
             row == [batch |-> w.batch, featureRun |-> w.featureRun, days |-> w.days,
                     active |-> Promoted(fresh)]
             Rows == {[day |-> n.day, availableAt |-> n.availableAt, run |-> run,
                       featureRun |-> w.featureRun, days |-> w.days] : n \in fresh}
  <1>1. /\ labels' = labels \cup Rows
        /\ targetRuns' = AppendRun(targetRuns, row)
        /\ Rest(a) /\ a \in Computing
        /\ UNCHANGED <<upgraded, yesterday, days, batches, featureRuns, values>>
    BY DEF PersistTargets, Computing
  <1>2. RunFields \subseteq DOMAIN row /\ Snapshot(row) = Snapshot(w) /\ row.days = w.days
        /\ row.active = Promoted(fresh)
    BY DEF RunFields, Snapshot
  <1>3. Tables' /\ OneSnapshot'
    <2> HIDE DEF row, w
    <2> QED
      BY <1>1, <1>2, PersistKeepsTables DEF w
  <1>4. /\ \A i \in DOMAIN targetRuns : Snapshot(targetRuns'[i]) = Snapshot(targetRuns[i])
        /\ targetRuns'[run] = row
        /\ DOMAIN targetRuns' = DOMAIN targetRuns \cup {run}
        /\ row.active => Active(targetRuns') = {run}
        /\ ~ row.active => Active(targetRuns') = Active(targetRuns)
    <2> HIDE DEF row
    <2>1. IsTable(targetRuns, RunFields) /\ RunFields \subseteq DOMAIN row
      BY <1>2 DEF DailyInv, Tables
    <2>2. /\ \A i \in DOMAIN targetRuns :
               Snapshot(AppendRun(targetRuns, row)[i]) = Snapshot(targetRuns[i])
          /\ AppendRun(targetRuns, row)[run] = row
          /\ DOMAIN AppendRun(targetRuns, row) = DOMAIN targetRuns \cup {run}
          /\ row.active => Active(AppendRun(targetRuns, row)) = {run}
          /\ ~ row.active => Active(AppendRun(targetRuns, row)) = Active(targetRuns)
      BY <2>1, AppendRunShape
    <2> HIDE DEF run
    <2> QED
      BY <1>1, <2>2
  <1> HIDE DEF row, run
  <1>5. TargetsComplete'
    <2>1. CASE labels = {} /\ Active(targetRuns) = {}
      <3>1. fresh = ForwardLabels(w.days)
        BY <2>1
      <3>2. CASE fresh = {}
        BY <1>1, <1>2, <1>4, <2>1, <3>2 DEF Promoted, TargetsComplete
      <3>3. CASE fresh # {}
        <4>1. Active(targetRuns') = {run} /\ run \in DOMAIN targetRuns'
          BY <1>2, <1>4, <3>3 DEF Promoted
        <4>2. \A l \in labels' : l.run = run
          BY <1>1, <2>1
        <4>3. {LabelOf(l) : l \in labels'}
                = ForwardLabels(targetRuns'[run].days)
          <5>1. labels' = Rows
            BY <1>1, <2>1
          <5>2. {LabelOf(l) : l \in Rows}
                  = {LabelOf(n) : n \in fresh}
            <6> DEFINE G(n) == [day |-> n.day, availableAt |-> n.availableAt, run |-> run,
                                featureRun |-> w.featureRun, days |-> w.days]
            <6>1. Rows = {G(n) : n \in fresh} /\ \A n \in fresh : LabelOf(G(n)) = LabelOf(n)
              BY DEF LabelOf
            <6> HIDE DEF G, Rows, fresh, w, run
            <6> QED
              BY <6>1
          <5>3. {LabelOf(n) : n \in ForwardLabels(w.days)}
                  = ForwardLabels(w.days)
            BY DEF ForwardLabels, LabelOf
          <5> QED
            BY <1>2, <1>4, <3>1, <5>1, <5>2, <5>3
        <4> QED
          BY <4>1, <4>2, <4>3 DEF TargetsComplete
      <3> QED
        BY <3>2, <3>3
    <2>2. ASSUME NEW r \in DOMAIN targetRuns, Active(targetRuns) = {r},
                 \A l \in labels : l.run = r,
                 {LabelOf(l) : l \in labels}
                   = ForwardLabels(targetRuns[r].days)
          PROVE  TargetsComplete'
      <3>1. labels' = labels /\ Active(targetRuns') = {r} /\ r \in DOMAIN targetRuns'
        BY <1>4, <2>2, LaterTargetRun
      <3>2. targetRuns'[r].days = targetRuns[r].days
        BY <1>4 DEF Snapshot
      <3> QED
        BY <2>2, <3>1, <3>2 DEF TargetsComplete
    <2> QED
      BY <2>1, <2>2 DEF DailyInv, TargetsComplete
  <1> QED
    BY <1>1, <1>3, <1>5 DEF DailyInv, FeaturesComplete

-----------------------------------------------------------------------------
LEMMA OtherWorkKeeps ==
    ASSUME DailyInv, NEW a \in Analysts,
           \/ RegisterPlan(a) \/ LoadProvenance(a) \/ ReadObservations(a) \/ Abandon(a)
           \/ \E c \in Plans : PlanValidation(a, c)
    PROVE  DailyInv'
  <1>1. UNCHANGED <<upgraded, featureRuns, targetRuns, values, labels, days, batches, yesterday>>
    BY DEF RegisterPlan, LoadProvenance, ReadObservations, Abandon, PlanValidation
  <1>2. \E w : Working(a, w) /\ w.step \notin {"features", "targets"}
    <2>1. CASE Rest(a)
      BY <2>1 DEF Rest, Resting
    <2>2. CASE LoadProvenance(a)
      BY <2>2 DEF LoadProvenance
    <2>3. ASSUME NEW c \in Plans, PlanValidation(a, c)
          PROVE  \E w : Working(a, w) /\ w.step \notin {"features", "targets"}
      BY <2>3 DEF PlanValidation
    <2> QED
      BY <2>1, <2>2, <2>3 DEF RegisterPlan, ReadObservations, Abandon
  <1>3. CASE upgraded # "no"
    BY <1>1, <1>2, <1>3, QuietStepKeeps
  <1>4. CASE upgraded = "no"
    <2>1. Snapshots' = {}
      BY <1>1, <1>2, <1>4, SnapshotsStay DEF DailyInv, Tables
    <2>2. Tables'
      BY <1>1, <1>2, <1>4, <2>1, WorkStep DEF DailyInv, Tables
    <2>3. OneSnapshot'
      BY <1>1, <2>1, OneSnapshotStays DEF DailyInv
    <2> QED
      BY <1>1, <2>2, <2>3 DEF DailyInv, FeaturesComplete, TargetsComplete
  <1> QED
    BY <1>3, <1>4

LEMMA DailyNextKeeps == DailyInv /\ [DailyNext]_dailyVars => DailyInv'
  <1> SUFFICES ASSUME DailyInv, [DailyNext]_dailyVars PROVE DailyInv'
    OBVIOUS
  <1>1. CASE UNCHANGED dailyVars
    <2>1. UNCHANGED <<upgraded, yesterday, days, batches, featureRuns, values, targetRuns,
                      labels, work>>
      BY <1>1 DEF dailyVars
    <2>2. Snapshots' = Snapshots
      BY <2>1 DEF Snapshots, Computing, Doing
    <2>3. Tables' /\ OneSnapshot'
      BY <2>1, <2>2, OneSnapshotStays DEF DailyInv, Tables
    <2> QED
      BY <2>1, <2>3 DEF DailyInv, FeaturesComplete, TargetsComplete
  <1> QED
    BY <1>1, UpgradeKeeps, NextDayKeeps, IngestDailyKeeps, ComputeKeeps, PersistFeaturesKeeps,
       PersistTargetsKeeps, OtherWorkKeeps DEF DailyNext

LEMMA DailyInitHolds == ASSUME DailyInit PROVE DailyInv
  <1>1. Snapshots = {}
    BY DEF DailyInit, Snapshots, Computing, Doing, Resting
  <1>2. Tables
    BY <1>1, FS_EmptySet DEF DailyInit, Tables, IsTable
  <1>3. OneSnapshot
    <2> HIDE DEF Snapshots
    <2> QED
      BY <1>1 DEF OneSnapshot
  <1> QED
    BY <1>2, <1>3 DEF DailyInit, DailyInv, FeaturesComplete, TargetsComplete, Active, Ids

\* Whoever computes first, however often it is repeated or raced and whatever is
\* ingested meanwhile: the active feature run owns every value its candles give,
\* and the active target run every label (compute_and_persist_features,
\* generate_and_persist_forward_log_returns).
THEOREM ActiveRunsAreAlwaysComplete == DailySpec => []ActiveRunsAreComplete
  <1>1. DailyInit => DailyInv
    BY DailyInitHolds
  <1>2. DailyInv => ActiveRunsAreComplete
    <2> SUFFICES ASSUME DailyInv PROVE ActiveRunsAreComplete
      OBVIOUS
    <2>1. ASSUME NEW r \in Active(featureRuns)
          PROVE  {FeatureOf(v) : v \in OwnedBy(values, r)}
                   = ComputedValues(featureRuns[r].days)
      <3> DEFINE C == ComputedValues(featureRuns[r].days)
      <3>1. values = ValuesOf(featureRuns[r].days, r)
        BY <2>1 DEF DailyInv, FeaturesComplete
      <3>2. OwnedBy(values, r) = {[day |-> v.day, name |-> v.name, inputs |-> v.inputs, run |-> r] :
                                    v \in C}
        BY <3>1 DEF OwnedBy, ValuesOf
      <3>3. {FeatureOf(v) : v \in C} = C
        BY DEF ComputedValues, FeatureOf
      <3>4. {FeatureOf(v) : v \in OwnedBy(values, r)}
              = {FeatureOf(v) : v \in C}
        <4> DEFINE G(v) == [day |-> v.day, name |-> v.name, inputs |-> v.inputs, run |-> r]
        <4>1. OwnedBy(values, r) = {G(v) : v \in C} /\ \A v \in C : FeatureOf(G(v)) = FeatureOf(v)
          BY <3>2 DEF FeatureOf
        <4> HIDE DEF G, C
        <4> QED
          BY <4>1
      <3> QED
        BY <3>3, <3>4
    <2>2. ASSUME NEW r \in Active(targetRuns)
          PROVE  {LabelOf(l) : l \in OwnedBy(labels, r)}
                   = ForwardLabels(targetRuns[r].days)
      <3>1. OwnedBy(labels, r) = labels
        BY <2>2 DEF DailyInv, TargetsComplete, OwnedBy
      <3> QED
        BY <2>2, <3>1 DEF DailyInv, TargetsComplete
    <2> QED
      BY <2>1, <2>2 DEF ActiveRunsAreComplete, FeatureOf, LabelOf
  <1> QED
    BY <1>1, <1>2, DailyNextKeeps, PTL DEF DailySpec

-----------------------------------------------------------------------------
(* Positions in a set of days.                                                *)

Calendars == SUBSET (0 .. LastDay)

LEMMA CalendarsAreNaturals ==
    ASSUME NEW ds \in Calendars
    PROVE  LastDay \in Nat /\ ds \subseteq 0 .. LastDay /\ ds \subseteq Nat
  BY DailyAssumption DEF Calendars

LEMMA CalendarsAreFinite ==
    ASSUME NEW ds \in Calendars
    PROVE  /\ IsFiniteSet(ds) /\ Cardinality(ds) \in Nat
           /\ \A s \in SUBSET ds : /\ IsFiniteSet(s) /\ Cardinality(s) \in Nat
                                   /\ Cardinality(s) <= Cardinality(ds)
  <1>1. IsFiniteSet(0 .. LastDay)
    BY CalendarsAreNaturals, FS_Interval
  <1>2. IsFiniteSet(ds)
    BY <1>1, FS_Subset DEF Calendars
  <1>3. Cardinality(ds) \in Nat
    BY <1>2, FS_CardinalityType
  <1>4. ASSUME NEW s \in SUBSET ds
        PROVE  IsFiniteSet(s) /\ Cardinality(s) \in Nat /\ Cardinality(s) <= Cardinality(ds)
    <2>1. IsFiniteSet(s) /\ Cardinality(s) <= Cardinality(ds)
      BY <1>2, FS_Subset
    <2> QED
      BY <2>1, FS_CardinalityType
  <1> QED
    BY <1>2, <1>3, <1>4

\* Two disjoint parts of a set of days.
LEMMA PartsAdd ==
    ASSUME NEW ds \in Calendars, NEW s \in SUBSET ds, NEW t \in SUBSET ds, s \cap t = {}
    PROVE  Cardinality(s \cup t) = Cardinality(s) + Cardinality(t)
  <1>1. Cardinality(s \cup t) = Cardinality(s) + Cardinality(t) - Cardinality(s \cap t)
    BY CalendarsAreFinite, FS_Union
  <1> QED
    BY <1>1, CalendarsAreFinite, FS_EmptySet

\* A later day has at least the position of an earlier one.
LEMMA PositionsAscend ==
    ASSUME NEW ds \in Calendars, NEW d \in Nat, NEW e \in Nat, d <= e
    PROVE  Cardinality(UpTo(ds, d)) <= Cardinality(UpTo(ds, e))
  <1>1. UpTo(ds, e) \in SUBSET ds /\ UpTo(ds, d) \in SUBSET UpTo(ds, e)
    BY CalendarsAreNaturals DEF UpTo
  <1> QED
    BY <1>1, CalendarsAreFinite, FS_Subset

\* Every position up to the size of the set is taken.
LEMMA PositionTaken ==
    ASSUME NEW ds \in Calendars, NEW k \in Nat \ {0}, k <= Cardinality(ds)
    PROVE  \E e \in ds : Cardinality(UpTo(ds, e)) = k
  <1> DEFINE T == {e \in ds : Cardinality(UpTo(ds, e)) >= k}
  <1>1. ds \subseteq 0 .. LastDay /\ LastDay \in Nat /\ ds \subseteq Nat
    BY CalendarsAreNaturals
  <1>2. ds # {}
    BY FS_EmptySet
  <1>3. PICK m \in ds : \A d \in ds : m >= d
    BY <1>1, <1>2, GreatestExists
  <1>4. UpTo(ds, m) = ds
    BY <1>3 DEF UpTo
  <1>5. T \in SUBSET Nat /\ m \in T
    BY <1>1, <1>3, <1>4
  <1>6. PICK e \in T : \A d \in T : e <= d
    BY <1>5, LeastExists
  <1> DEFINE Earlier == UpTo(ds, e) \ {e}
  <1>7. e \in UpTo(ds, e) /\ UpTo(ds, e) \in SUBSET ds /\ Earlier \in SUBSET ds
    BY <1>1 DEF UpTo
  <1>8. /\ Cardinality(Earlier) = Cardinality(UpTo(ds, e)) - 1
        /\ Cardinality(UpTo(ds, e)) \in Nat
        /\ Cardinality(UpTo(ds, e)) >= k
    BY <1>7, CalendarsAreFinite, FS_RemoveElement
  <1>9. Cardinality(Earlier) < k
    <2> SUFFICES ASSUME Cardinality(Earlier) >= k PROVE FALSE
      BY <1>8
    <2>1. Earlier # {}
      BY FS_EmptySet
    <2>2. PICK g \in Earlier : \A d \in Earlier : g >= d
      BY <1>1, <1>7, <2>1, GreatestExists
    <2>3. g < e /\ g \in ds /\ g \in Nat /\ e \in Nat
      BY <1>1, <1>7, <2>2 DEF UpTo
    <2>4. UpTo(ds, g) = Earlier
      <3>1. \A d \in ds : d \in Nat /\ (d <= g <=> d <= e /\ d # e)
        <4> TAKE d \in ds
        <4>1. d \in Nat /\ (d <= e /\ d # e => d <= g)
          BY <1>1, <2>2 DEF UpTo
        <4> QED
          BY <2>3, <4>1
      <3> QED
        BY <3>1 DEF UpTo
    <2> QED
      BY <1>6, <2>3, <2>4
  <1> HIDE DEF Earlier
  <1> QED
    BY <1>6, <1>8, <1>9

\* The label of a day exists and has the position Horizon later.
LEMMA LabelPosition ==
    ASSUME NEW ds \in Calendars, NEW d \in Labelled(ds)
    PROVE  /\ AvailableAt(ds, d) \in ds
           /\ Cardinality(UpTo(ds, AvailableAt(ds, d))) = Cardinality(UpTo(ds, d)) + Horizon
  <1> DEFINE Ds == After(ds, d)
             e == AvailableAt(ds, d)
  <1>1. /\ Ds \in Calendars /\ Ds \subseteq ds /\ d \in ds /\ ds \subseteq Nat
        /\ Cardinality(Ds) \in Nat
        /\ Horizon \in Nat \ {0} /\ Horizon <= Cardinality(Ds)
    <2>1. Ds \in SUBSET ds /\ d \in ds /\ Cardinality(Ds) >= Horizon
      BY DEF After, Labelled
    <2>2. Cardinality(Ds) \in Nat
      BY <2>1, CalendarsAreFinite
    <2>3. Horizon \in Nat \ {0}
      BY DailyAssumption
    <2> QED
      BY <2>1, <2>2, <2>3, CalendarsAreNaturals DEF Calendars
  <1>2. \E g \in Ds : Cardinality({f \in Ds : f <= g}) = Horizon
    BY <1>1, PositionTaken DEF UpTo
  <1>3. e \in Ds /\ Cardinality({f \in Ds : f <= e}) = Horizon
    BY <1>2 DEF AvailableAt
  <1>4. /\ UpTo(ds, e) = UpTo(ds, d) \cup {f \in Ds : f <= e}
        /\ UpTo(ds, d) \cap {f \in Ds : f <= e} = {}
    <2>1. e \in Nat /\ d \in Nat /\ e > d
      BY <1>1, <1>3 DEF After
    <2>2. \A f \in ds : f \in Nat /\ (f <= d \/ f > d)
      BY <1>1
    <2> HIDE DEF e
    <2> QED
      BY <2>1, <2>2 DEF UpTo, After
  <1>5. UpTo(ds, d) \in SUBSET ds /\ {f \in Ds : f <= e} \in SUBSET ds
    BY DEF UpTo, After
  <1>6. Cardinality(UpTo(ds, e)) = Cardinality(UpTo(ds, d)) + Cardinality({f \in Ds : f <= e})
    BY <1>4, <1>5, PartsAdd
  <1> QED
    BY <1>1, <1>3, <1>6

-----------------------------------------------------------------------------
(* What a dataset of a set of days is, and why it looks at nothing ahead.      *)

\* A configuration that create_validation_run accepts for these days.
AcceptedPlan(ds, c) == c \in Plans /\ PurgeCoversWindow(c) /\ Splittable(ds, c)

\* The days with a value of every feature and a label.
Observed(ds) == {e \in Labelled(ds) : Cardinality(UpTo(ds, e)) >= Window}

ObservedRow(ds, d) ==
    [day |-> d,
     features |-> {[name |-> n, inputs |-> Inputs(n, ds, d)] : n \in Features},
     availableAt |-> AvailableAt(ds, d)]

TrainingRows(ds, c) ==
    {ObservedRow(ds, d) : d \in Development(ds, c) \cap Observed(ds)}

LEMMA AcceptedSizes ==
    ASSUME NEW ds \in Calendars, NEW c, AcceptedPlan(ds, c)
    PROVE  /\ c.train \in Nat \ {0} /\ c.test \in Nat \ {0} /\ c.holdout \in Nat \ {0}
           /\ c.purge \in Nat /\ c.purge >= Window /\ c.step \in Nat \ {0}
           /\ Window \in Nat /\ Horizon \in 1 .. Window
           /\ Cardinality(ds) \in Nat
           /\ DevelopmentSize(ds, c) \in Nat \ {0}
           /\ DevelopmentSize(ds, c) <= Cardinality(ds)
  <1>1. {c.train, c.test, c.step, c.purge, c.holdout} \subseteq Int
        /\ Window \in Nat /\ Horizon \in 1 .. Window
    BY DailyAssumption DEF AcceptedPlan
  <1>2. Cardinality(ds) \in Nat
    BY CalendarsAreFinite
  <1>3. /\ c.train \in Int /\ c.test \in Int /\ c.step \in Int
        /\ c.purge \in Int /\ c.holdout \in Int
    BY <1>1
  <1>4. c.train > 0 /\ c.test > 0 /\ c.step > 0 /\ c.holdout > 0 /\ c.purge >= Window
        /\ Cardinality(ds) >= c.train + c.purge + c.test + c.holdout
    BY DEF AcceptedPlan, Splittable, PurgeCoversWindow
  <1> QED
    BY <1>1, <1>2, <1>3, <1>4 DEF DevelopmentSize

\* The development days are the ones up to the last of them.
LEMMA DevelopmentIsAPrefix ==
    ASSUME NEW ds \in Calendars, NEW c, AcceptedPlan(ds, c)
    PROVE  \A d \in ds : d <= Max(Development(ds, c)) <=> d \in Development(ds, c)
  <1> DEFINE D == Development(ds, c)
  <1>1. D \subseteq ds /\ D \in SUBSET (0 .. LastDay) /\ LastDay \in Nat /\ ds \subseteq Nat
    BY CalendarsAreNaturals DEF Development, Slice
  <1>2. /\ DevelopmentSize(ds, c) \in Nat \ {0}
        /\ DevelopmentSize(ds, c) <= Cardinality(ds) /\ Cardinality(ds) \in Nat
    BY AcceptedSizes
  <1>3. \E e \in ds : Cardinality(UpTo(ds, e)) = DevelopmentSize(ds, c)
    BY <1>2, PositionTaken
  <1>4. D # {}
    BY <1>2, <1>3 DEF Development, Slice
  <1>5. Max(D) \in D /\ \A d \in D : Max(D) >= d
    <2> HIDE DEF D
    <2>1. \E m \in D : \A d \in D : m >= d
      BY <1>1, <1>4, GreatestExists
    <2> QED
      BY <2>1 DEF Max
  <1>6. ASSUME NEW d \in ds, d <= Max(D) PROVE d \in D
    <2>1. d \in Nat /\ Max(D) \in Nat /\ Max(D) \in ds
      BY <1>1, <1>5
    <2>2. Cardinality(UpTo(ds, Max(D))) <= DevelopmentSize(ds, c)
      BY <1>5 DEF Development, Slice
    <2> HIDE DEF D
    <2>3. Cardinality(UpTo(ds, d)) <= Cardinality(UpTo(ds, Max(D)))
      BY <1>6, <2>1, PositionsAscend
    <2>4. Cardinality(UpTo(ds, d)) \in Nat /\ Cardinality(UpTo(ds, Max(D))) \in Nat
      BY CalendarsAreFinite DEF UpTo
    <2>5. UpTo(ds, d) # {} /\ UpTo(ds, d) \in SUBSET ds
      BY <2>1 DEF UpTo
    <2>6. Cardinality(UpTo(ds, d)) # 0
      BY <2>5, CalendarsAreFinite, FS_EmptySet
    <2> QED
      BY <1>2, <2>2, <2>3, <2>4, <2>6 DEF D, Development, Slice
  <1> QED
    BY <1>1, <1>5, <1>6

\* A day of a higher position is later.
LEMMA HigherIsLater ==
    ASSUME NEW ds \in Calendars, NEW d \in ds, NEW e \in ds,
           Cardinality(UpTo(ds, d)) < Cardinality(UpTo(ds, e))
    PROVE  d < e
  <1>1. d \in Nat /\ e \in Nat
    BY CalendarsAreNaturals
  <1>2. Cardinality(UpTo(ds, d)) \in Nat /\ Cardinality(UpTo(ds, e)) \in Nat
    BY CalendarsAreFinite DEF UpTo
  <1>3. e <= d => Cardinality(UpTo(ds, e)) <= Cardinality(UpTo(ds, d))
    BY <1>1, PositionsAscend
  <1> QED
    BY <1>1, <1>2, <1>3

\* A bounded window ending at a day does not reach one more than a window earlier.
LEMMA WindowIsBounded ==
    ASSUME NEW ds \in Calendars, NEW d \in ds, NEW q \in ds,
           Cardinality(UpTo(ds, d)) + Window < Cardinality(UpTo(ds, q)),
           NEW e \in Latest(UpTo(ds, q), Window)
    PROVE  d < e
  <1> DEFINE Inside == {f \in UpTo(ds, q) : f >= e}
             Earlier == UpTo(ds, e) \ {e}
  <1>1. /\ e \in ds /\ e <= q /\ Cardinality(Inside) <= Window
        /\ d \in Nat /\ e \in Nat /\ q \in Nat /\ ds \subseteq Nat /\ Window \in Nat
    BY CalendarsAreNaturals, DailyAssumption DEF Latest, UpTo
  <1>2. /\ Inside \in SUBSET ds /\ Earlier \in SUBSET ds /\ Inside \cap Earlier = {}
        /\ UpTo(ds, q) = Inside \cup Earlier
        /\ e \in UpTo(ds, e) /\ UpTo(ds, e) \in SUBSET ds
    <2>1. \A f \in ds : /\ f <= q <=> (f <= q /\ f >= e) \/ (f <= e /\ f # e)
                        /\ ~ (f >= e /\ f <= e /\ f # e)
      BY <1>1
    <2>2. UpTo(ds, q) = Inside \cup Earlier /\ Inside \cap Earlier = {}
      BY <2>1 DEF UpTo
    <2>3. e \in UpTo(ds, e)
      BY <1>1 DEF UpTo
    <2> QED
      BY <2>2, <2>3 DEF UpTo
  <1>3. Cardinality(UpTo(ds, q)) = Cardinality(Inside) + Cardinality(Earlier)
    <2> HIDE DEF Inside, Earlier
    <2> QED
      BY <1>2, PartsAdd
  <1>4. Cardinality(Earlier) = Cardinality(UpTo(ds, e)) - 1
    BY <1>2, CalendarsAreFinite, FS_RemoveElement
  <1>5. /\ Cardinality(UpTo(ds, e)) \in Nat /\ Cardinality(UpTo(ds, d)) \in Nat
        /\ Cardinality(Inside) \in Nat /\ Cardinality(UpTo(ds, q)) \in Nat
    BY <1>2, CalendarsAreFinite DEF UpTo
  <1> HIDE DEF Inside, Earlier
  <1>6. e <= d => Cardinality(UpTo(ds, e)) <= Cardinality(UpTo(ds, d))
    BY <1>1, PositionsAscend
  <1> QED
    BY <1>1, <1>3, <1>4, <1>5, <1>6

\* The purge gap separates the training days of a split from its test days.
LEMMA SplitSeparates ==
    ASSUME NEW ds \in Calendars, NEW c, AcceptedPlan(ds, c), NEW s \in Splits(ds, c)
    PROVE  /\ s.test \subseteq Development(ds, c)
           /\ s.train \subseteq ds /\ s.test \subseteq ds
           /\ \A d \in s.train, q \in s.test :
                Cardinality(UpTo(ds, d)) + Window < Cardinality(UpTo(ds, q))
  <1>1. PICK e \in TrainEnds(ds, c) :
          s = [train |-> Slice(ds, 0, e),
               test |-> Slice(ds, e + c.purge, e + c.purge + c.test)]
    BY DEF Splits
  <1>2. /\ c.train \in Nat \ {0} /\ c.test \in Nat \ {0}
        /\ c.purge \in Nat /\ c.purge >= Window /\ Window \in Nat
        /\ Cardinality(ds) \in Nat /\ DevelopmentSize(ds, c) \in Nat
    BY AcceptedSizes
  <1>3. e \in Nat \ {0} /\ e + c.purge + c.test <= DevelopmentSize(ds, c)
    BY <1>2 DEF TrainEnds
  <1>4. s.train = Slice(ds, 0, e) /\ s.test = Slice(ds, e + c.purge, e + c.purge + c.test)
    BY <1>1
  <1>5. \A d \in ds : Cardinality(UpTo(ds, d)) \in Nat
    BY CalendarsAreFinite DEF UpTo
  <1>6. s.train \subseteq ds /\ s.test \subseteq ds
    BY <1>4 DEF Slice
  <1>7. \A d \in s.train, q \in s.test :
          /\ Cardinality(UpTo(ds, d)) <= e
          /\ Cardinality(UpTo(ds, q)) > e + c.purge
          /\ Cardinality(UpTo(ds, q)) <= DevelopmentSize(ds, c)
    BY <1>2, <1>3, <1>4, <1>5 DEF Slice
  <1>8. \A q \in s.test : /\ Cardinality(UpTo(ds, q)) > 0
                          /\ Cardinality(UpTo(ds, q)) <= DevelopmentSize(ds, c)
    BY <1>2, <1>3, <1>4, <1>5 DEF Slice
  <1>9. s.test \subseteq Development(ds, c)
    BY <1>6, <1>8 DEF Development, Slice
  <1>10. ASSUME NEW d \in s.train, NEW q \in s.test
         PROVE  Cardinality(UpTo(ds, d)) + Window < Cardinality(UpTo(ds, q))
    <2>1. /\ Cardinality(UpTo(ds, d)) <= e
          /\ Cardinality(UpTo(ds, q)) > e + c.purge
          /\ Cardinality(UpTo(ds, d)) \in Nat /\ Cardinality(UpTo(ds, q)) \in Nat
      BY <1>5, <1>6, <1>7
    <2> QED
      BY <1>2, <1>3, <2>1
  <1> QED
    BY <1>6, <1>9, <1>10

LEMMA RowsLookNowhereAhead ==
    ASSUME NEW ds \in Calendars, NEW c, AcceptedPlan(ds, c), NEW s \in Splits(ds, c),
           NEW r \in TrainingRows(ds, c), r.day \in s.train,
           NEW q \in TrainingRows(ds, c), q.day \in s.test
    PROVE  /\ r.availableAt < q.day
           /\ \A v \in q.features : v.name = "sma" => \A e \in v.inputs : r.day < e
  <1>1. /\ r.day \in Labelled(ds) /\ r.availableAt = AvailableAt(ds, r.day)
        /\ q.features = {[name |-> n, inputs |-> Inputs(n, ds, q.day)] : n \in Features}
    BY DEF TrainingRows, ObservedRow, Observed
  <1>2. /\ Cardinality(UpTo(ds, r.day)) + Window < Cardinality(UpTo(ds, q.day))
        /\ r.day \in ds /\ q.day \in ds
    BY SplitSeparates
  <1>3. /\ AvailableAt(ds, r.day) \in ds
        /\ Cardinality(UpTo(ds, AvailableAt(ds, r.day))) = Cardinality(UpTo(ds, r.day)) + Horizon
    BY <1>1, LabelPosition
  <1>4. /\ Cardinality(UpTo(ds, r.day)) \in Nat /\ Cardinality(UpTo(ds, q.day)) \in Nat
        /\ Window \in Nat /\ Horizon \in 1 .. Window
    BY CalendarsAreFinite, AcceptedSizes DEF UpTo
  <1>5. Cardinality(UpTo(ds, AvailableAt(ds, r.day))) < Cardinality(UpTo(ds, q.day))
    BY <1>2, <1>3, <1>4
  <1>6. r.availableAt < q.day
    BY <1>1, <1>2, <1>3, <1>5, HigherIsLater
  <1>7. ASSUME NEW v \in q.features, v.name = "sma", NEW e \in v.inputs
        PROVE  r.day < e
    <2>1. v.inputs = Latest(UpTo(ds, q.day), Window)
      BY <1>1, <1>7 DEF Inputs, Features
    <2> QED
      BY <1>2, <1>7, <2>1, WindowIsBounded
  <1> QED
    BY <1>6, <1>7

-----------------------------------------------------------------------------
(* The invariant behind the datasets.                                         *)

ReadFrom(table, b, ds) == Active(table) = {b} /\ table[b].days = ds

\* Nothing is dated after today, and the candles of the active batch are stored.
Calendar ==
    /\ days \in Calendars /\ yesterday \in 0 .. LastDay
    /\ \A b \in Active(batches) : batches[b].days \subseteq days

\* Every computation, plan and dataset read exactly the candles of the batch.
SnapshotsRead == \A x \in Snapshots : ReadFrom(batches, x[1], x[2])

PlanReads(table, w) == ReadFrom(table, w.batch, w.days) /\ AcceptedPlan(w.days, w.config)
PlansOpenRead == \A a \in Analysts : Doing(a, "plan") => PlanReads(batches, work[a])

PlanFields == {"batch", "config", "development", "holdout", "splits", "active"}
PlanRow(p) == <<p.batch, p.config, p.development, p.holdout, p.splits>>
IsPlan(table, p) ==
    \E ds : /\ ReadFrom(table, p.batch, ds) /\ AcceptedPlan(ds, p.config)
            /\ p.development = Development(ds, p.config)
            /\ p.holdout = ds \ Development(ds, p.config)
            /\ p.splits = Splits(ds, p.config)
PlansRead ==
    /\ IsTable(plans, PlanFields)
    /\ \A p \in DOMAIN plans : IsPlan(batches, plans[p])

\* The runs a dataset is read from are still the active ones when it is read:
\* a later run inserts no row, so it takes no run's place.
Loaded(w) ==
    /\ w.plan \in DOMAIN plans /\ plans[w.plan].batch = w.batch
    /\ Active(featureRuns) = {w.featureRun} /\ Active(targetRuns) = {w.targetRun}
DatasetsOpenLoaded == \A a \in Analysts : Doing(a, "dataset") => Loaded(work[a])

Matches(x) ==
    /\ x.plan \in DOMAIN plans
    /\ x.rows = TrainingRows(batches[plans[x.plan].batch].days, plans[x.plan].config)
DatasetsMatch == \A x \in datasets : Matches(x)

NothingBeforeUpgrade ==
    upgraded = "no" => /\ DOMAIN plans = {} /\ datasets = {}
                       /\ \A a \in Analysts : ~ Doing(a, "plan") /\ ~ Doing(a, "dataset")

DatasetInv ==
    /\ DailyInv /\ Calendar /\ SnapshotsRead /\ PlansOpenRead /\ PlansRead
    /\ DatasetsOpenLoaded /\ DatasetsMatch /\ NothingBeforeUpgrade

-----------------------------------------------------------------------------
(* What a step may change.                                                    *)

BatchesStand ==
    /\ Active(batches') = Active(batches)
    /\ \A b \in Active(batches) : batches'[b] = batches[b]

PlansStand ==
    /\ DOMAIN plans \subseteq DOMAIN plans'
    /\ \A p \in DOMAIN plans : PlanRow(plans'[p]) = PlanRow(plans[p])

RunsStand ==
    /\ Active(featureRuns) # {} => Active(featureRuns') = Active(featureRuns)
    /\ Active(targetRuns) # {} => Active(targetRuns') = Active(targetRuns)

LEMMA StandingReads ==
    ASSUME BatchesStand
    PROVE  /\ \A b, ds : ReadFrom(batches, b, ds) => ReadFrom(batches', b, ds)
           /\ \A w : PlanReads(batches, w) => PlanReads(batches', w)
           /\ \A p : IsPlan(batches, p) => IsPlan(batches', p)
  <1>1. \A b, ds : ReadFrom(batches, b, ds) => ReadFrom(batches', b, ds)
    BY DEF BatchesStand, ReadFrom
  <1> QED
    BY <1>1 DEF PlanReads, IsPlan

\* The days and the configuration behind a plan do not change.
LEMMA MatchesStand ==
    ASSUME BatchesStand, PlansStand, PlansRead, NEW x, Matches(x)
    PROVE  Matches(x)'
  <1>1. x.plan \in DOMAIN plans /\ x.plan \in DOMAIN plans'
    BY DEF Matches, PlansStand
  <1>2. /\ plans'[x.plan].batch = plans[x.plan].batch
        /\ plans'[x.plan].config = plans[x.plan].config
    BY <1>1 DEF PlansStand, PlanRow
  <1>3. batches'[plans[x.plan].batch] = batches[plans[x.plan].batch]
    BY <1>1 DEF PlansRead, IsPlan, ReadFrom, BatchesStand
  <1> QED
    BY <1>1, <1>2, <1>3 DEF Matches

LEMMA PlanRowsSuffice ==
    ASSUME NEW table, NEW p, NEW q, PlanRow(p) = PlanRow(q), IsPlan(table, p)
    PROVE  IsPlan(table, q)
  <1>1. /\ p.batch = q.batch /\ p.config = q.config /\ p.development = q.development
        /\ p.holdout = q.holdout /\ p.splits = q.splits
    BY DEF PlanRow
  <1> QED
    BY <1>1 DEF IsPlan

\* A step that keeps what was read, and whose own reads are of the batch.
LEMMA ReadsKeep ==
    ASSUME DatasetInv, DailyInv', Calendar', NothingBeforeUpgrade',
           BatchesStand, PlansStand, RunsStand, IsTable(plans, PlanFields)',
           \A x \in Snapshots' : x \in Snapshots \/ ReadFrom(batches', x[1], x[2]),
           \A e \in Analysts : Doing(e, "plan")' =>
             (Doing(e, "plan") /\ work'[e] = work[e]) \/ PlanReads(batches', work'[e]),
           \A e \in Analysts : Doing(e, "dataset")' =>
             (Doing(e, "dataset") /\ work'[e] = work[e]) \/ Loaded(work[e])',
           \A p \in DOMAIN plans' : p \in DOMAIN plans \/ IsPlan(batches', plans'[p]),
           \A x \in datasets' : x \in datasets \/ Matches(x)'
    PROVE  DatasetInv'
  <1>1. SnapshotsRead'
    <2> HIDE DEF Snapshots
    <2>1. \A x \in Snapshots' : ReadFrom(batches', x[1], x[2])
      BY StandingReads DEF DatasetInv, SnapshotsRead
    <2> QED
      BY <2>1 DEF SnapshotsRead
  <1>2. PlansOpenRead'
    BY StandingReads DEF DatasetInv, PlansOpenRead
  <1>3. PlansRead'
    <2>1. ASSUME NEW p \in DOMAIN plans' PROVE IsPlan(batches', plans'[p])
      <3>1. CASE p \in DOMAIN plans
        <4>1. IsPlan(batches', plans[p])
          BY <3>1, StandingReads DEF DatasetInv, PlansRead
        <4>2. PlanRow(plans'[p]) = PlanRow(plans[p])
          BY <3>1 DEF PlansStand
        <4> QED
          BY <4>1, <4>2, PlanRowsSuffice
      <3> QED
        BY <2>1, <3>1
    <2> QED
      BY <2>1 DEF PlansRead
  <1>4. DatasetsOpenLoaded'
    <2>1. ASSUME NEW e \in Analysts, Doing(e, "dataset"), work'[e] = work[e]
          PROVE  Loaded(work[e])'
      <3>1. /\ work[e].plan \in DOMAIN plans /\ plans[work[e].plan].batch = work[e].batch
            /\ Active(featureRuns) = {work[e].featureRun}
            /\ Active(targetRuns) = {work[e].targetRun}
        BY <2>1 DEF DatasetInv, DatasetsOpenLoaded, Loaded
      <3>2. /\ work[e].plan \in DOMAIN plans'
            /\ plans'[work[e].plan].batch = plans[work[e].plan].batch
        BY <3>1 DEF PlansStand, PlanRow
      <3>3. /\ Active(featureRuns') = {work[e].featureRun}
            /\ Active(targetRuns') = {work[e].targetRun}
        BY <3>1 DEF RunsStand
      <3> QED
        BY <2>1, <3>1, <3>2, <3>3 DEF Loaded
    <2> QED
      BY <2>1 DEF DatasetsOpenLoaded
  <1>5. DatasetsMatch'
    BY MatchesStand DEF DatasetInv, DatasetsMatch
  <1> QED
    BY <1>1, <1>2, <1>3, <1>4, <1>5 DEF DatasetInv

-----------------------------------------------------------------------------
(* Each step keeps it.                                                        *)

LEMMA DescribedIsRead ==
    ASSUME Calendar, NEW b, DescribesAll(b)
    PROVE  ReadFrom(batches, b, days)
  <1>1. /\ Active(batches) = {b} /\ Cardinality(batches[b].days) = Cardinality(days)
        /\ batches[b].days \in SUBSET days
    BY DEF DescribesAll, TheActive, Calendar
  <1> QED
    BY <1>1, CalendarsAreFinite, FS_Subset DEF ReadFrom, Calendar

LEMMA UpgradeReads == ASSUME DatasetInv, Upgrade PROVE DatasetInv'
  <1>1. /\ UNCHANGED <<featureRuns, targetRuns, plans, datasets, work>> /\ Snapshots = {}
        /\ upgraded = "no" /\ upgraded' # "no"
    BY DEF Upgrade, DatasetInv, DailyInv, Tables
  <1>2. Snapshots' = {}
    BY <1>1 DEF Snapshots, Computing, Doing
  <1>3. PICK history \in Legacy :
          /\ days' = StoredBy(history)
          /\ batches' = [i \in Ids(history) |->
                           [days |-> history[i].days, passed |-> history[i].passed,
                            active |-> i \in Canonical(history)]]
          /\ yesterday' = Max({0} \cup UNION {history[i].days : i \in Ids(history)})
    BY DEF Upgrade
  <1>4. days' \in Calendars /\ yesterday' \in 0 .. LastDay
    <2> DEFINE S == {0} \cup UNION {history[i].days : i \in Ids(history)}
    <2>1. S \in SUBSET (0 .. LastDay) /\ LastDay \in Nat /\ S # {} /\ days' \in SUBSET (0 .. LastDay)
      BY <1>3, DailyAssumption DEF StoredBy, Ids
    <2> HIDE DEF S
    <2>2. Max(S) \in S
      BY <2>1, MinMaxAreMembers
    <2>3. yesterday' = Max(S)
      BY <1>3 DEF S
    <2> QED
      BY <2>1, <2>2, <2>3 DEF Calendars
  <1>5. \A b \in Active(batches') : batches'[b].days \subseteq days'
    BY <1>3 DEF Active, Ids, Canonical, StoredBy
  <1>6. Calendar'
    BY <1>4, <1>5 DEF Calendar
  <1>7. SnapshotsRead'
    <2> HIDE DEF Snapshots
    <2> QED
      BY <1>2 DEF SnapshotsRead
  <1>8. /\ DOMAIN plans = {} /\ datasets = {}
        /\ \A a \in Analysts : ~ Doing(a, "plan") /\ ~ Doing(a, "dataset")
    BY <1>1 DEF DatasetInv, NothingBeforeUpgrade
  <1>9. PlansOpenRead' /\ DatasetsOpenLoaded' /\ DatasetsMatch' /\ NothingBeforeUpgrade'
    BY <1>1, <1>8 DEF PlansOpenRead, DatasetsOpenLoaded, DatasetsMatch, NothingBeforeUpgrade, Doing
  <1>10. PlansRead'
    BY <1>1, <1>8 DEF DatasetInv, PlansRead, IsTable
  <1>11. DailyInv'
    BY UpgradeKeeps DEF DatasetInv
  <1> QED
    BY <1>6, <1>7, <1>9, <1>10, <1>11 DEF DatasetInv

\* Time passes, or a backfill commits: no transaction of an analyst.
LEMMA OutsideReads ==
    ASSUME DatasetInv, DailyInv', Calendar', BatchesStand, upgraded = "yes",
           UNCHANGED <<upgraded, featureRuns, targetRuns, plans, datasets, work>>
    PROVE  DatasetInv'
  <1>1. Snapshots' = Snapshots
    BY DEF Snapshots, Computing, Doing
  <1>2. NothingBeforeUpgrade' /\ PlansStand /\ RunsStand /\ IsTable(plans, PlanFields)'
    BY DEF NothingBeforeUpgrade, PlansStand, RunsStand, DatasetInv, PlansRead
  <1>3. \A e, step : Doing(e, step)' => Doing(e, step) /\ work'[e] = work[e]
    BY DEF Doing
  <1> HIDE DEF Snapshots
  <1> QED
    BY <1>1, <1>2, <1>3, ReadsKeep

LEMMA NextDayReads == ASSUME DatasetInv, NextDay PROVE DatasetInv'
  <1>1. /\ UNCHANGED <<upgraded, days, batches, featureRuns, targetRuns, plans, datasets, work>>
        /\ upgraded = "yes" /\ yesterday < LastDay /\ yesterday' = yesterday + 1
    BY DEF NextDay
  <1>2. Calendar' /\ BatchesStand
    BY <1>1, DailyAssumption DEF DatasetInv, Calendar, BatchesStand
  <1> QED
    BY <1>1, <1>2, NextDayKeeps, OutsideReads DEF DatasetInv

LEMMA IngestDailyReads ==
    ASSUME DatasetInv, NEW start \in Starts, NEW passed \in BOOLEAN, IngestDaily(start, passed)
    PROVE  DatasetInv'
  <1> DEFINE row == [days |-> start .. yesterday, passed |-> passed, active |-> FALSE]
  <1>1. /\ UNCHANGED <<upgraded, yesterday, featureRuns, targetRuns, plans, datasets, work>>
        /\ batches' = Append(batches, row) /\ upgraded = "yes"
        /\ days' = IF passed THEN days \cup (start .. yesterday) ELSE days
    BY DEF IngestDaily, StoreBatch
  <1>2. /\ Active(batches') = Active(batches)
        /\ \A i \in DOMAIN batches : batches'[i] = batches[i]
    <2>1. IsTable(batches, BatchFields) /\ BatchFields \subseteq DOMAIN row /\ ~ row.active
      BY <1>1 DEF DatasetInv, DailyInv, Tables, BatchFields
    <2> HIDE DEF row
    <2> QED
      BY <1>1, <2>1, AppendInactive
  <1>3. BatchesStand
    BY <1>2 DEF BatchesStand, Active, Ids
  <1>4. start .. yesterday \subseteq 0 .. LastDay
    BY DailyAssumption DEF DatasetInv, Calendar
  <1>5. Calendar'
    <2>1. days' \in Calendars /\ days \subseteq days'
      BY <1>1, <1>4 DEF DatasetInv, Calendar, Calendars
    <2> QED
      BY <1>1, <1>3, <2>1 DEF DatasetInv, Calendar, BatchesStand
  <1> QED
    BY <1>1, <1>3, <1>5, IngestDailyKeeps, OutsideReads DEF DatasetInv

\* What every transaction step of an analyst shares.
LEMMA AnalystReads ==
    ASSUME DatasetInv, DailyInv', NEW a \in Analysts, NEW w, Working(a, w),
           UNCHANGED <<upgraded, yesterday, days, batches>>,
           upgraded # "no" \/ (w.step = "rest" /\ UNCHANGED <<plans, datasets>>),
           PlansStand, RunsStand, IsTable(plans, PlanFields)',
           \A x \in Snapshots' : x \in Snapshots \/ ReadFrom(batches', x[1], x[2]),
           w.step = "plan" => PlanReads(batches, w),
           w.step = "dataset" => Loaded(w)',
           \A p \in DOMAIN plans' : p \in DOMAIN plans \/ IsPlan(batches', plans'[p]),
           \A x \in datasets' : x \in datasets \/ Matches(x)'
    PROVE  DatasetInv'
  <1>1. Calendar' /\ BatchesStand
    BY DEF DatasetInv, Calendar, BatchesStand
  <1>2. work'[a] = w /\ \A e \in Analysts \ {a} : work'[e] = work[e]
    BY WorkStep DEF DatasetInv, DailyInv, Tables
  <1>3. NothingBeforeUpgrade'
    BY <1>2 DEF DatasetInv, NothingBeforeUpgrade, Doing
  <1>4. \A e \in Analysts : Doing(e, "plan")' =>
          (Doing(e, "plan") /\ work'[e] = work[e]) \/ PlanReads(batches', work'[e])
    BY <1>2 DEF Doing
  <1>5. ASSUME NEW e \in Analysts, Doing(e, "dataset")'
        PROVE  (Doing(e, "dataset") /\ work'[e] = work[e]) \/ Loaded(work[e])'
    <2>1. CASE e = a
      BY <1>2, <1>5, <2>1 DEF Doing, Loaded
    <2>2. CASE e # a
      BY <1>2, <1>5, <2>2 DEF Doing
    <2> QED
      BY <2>1, <2>2
  <1> HIDE DEF Snapshots
  <1> QED
    BY <1>1, <1>3, <1>4, <1>5, ReadsKeep

LEMMA ComputeReads ==
    ASSUME DatasetInv, NEW a \in Analysts, ComputeFeatures(a) \/ GenerateTargets(a)
    PROVE  DatasetInv'
  <1>1. /\ upgraded = "yes"
        /\ UNCHANGED <<upgraded, yesterday, days, batches, featureRuns, targetRuns, plans, datasets>>
    BY DEF ComputeFeatures, GenerateTargets
  <1>2. PICK b \in Ids(batches) :
          /\ DescribesAll(b)
          /\ \E w : /\ Working(a, w) /\ Snapshot(w) = <<b, days>>
                    /\ w.step \in {"features", "targets"}
    <2>1. CASE ComputeFeatures(a)
      <3>1. PICK b \in Ids(batches) :
              DescribesAll(b) /\ Working(a, [step |-> "features", batch |-> b, days |-> days])
        BY <2>1 DEF ComputeFeatures
      <3>2. Snapshot([step |-> "features", batch |-> b, days |-> days]) = <<b, days>>
        BY DEF Snapshot
      <3> QED
        BY <3>1, <3>2
    <2>2. CASE GenerateTargets(a)
      <3>1. PICK b \in Ids(batches), f \in Ids(featureRuns) :
              /\ DescribesAll(b)
              /\ Working(a, [step |-> "targets", batch |-> b, featureRun |-> f, days |-> days])
        BY <2>2 DEF GenerateTargets
      <3>2. Snapshot([step |-> "targets", batch |-> b, featureRun |-> f, days |-> days])
              = <<b, days>>
        BY DEF Snapshot
      <3> QED
        BY <3>1, <3>2
    <2> QED
      BY <2>1, <2>2
  <1>3. PICK w : /\ Working(a, w) /\ Snapshot(w) = <<b, days>>
                 /\ w.step \in {"features", "targets"}
    BY <1>2
  <1>4. Snapshots' \subseteq Snapshots \cup {<<b, days>>}
    BY <1>1, <1>3, SnapshotsOpen DEF DatasetInv, DailyInv
  <1>5. ReadFrom(batches', b, days)
    BY <1>1, <1>2, DescribedIsRead DEF DatasetInv
  <1>6. DailyInv'
    BY ComputeKeeps DEF DatasetInv
  <1>7. PlansStand /\ RunsStand /\ IsTable(plans, PlanFields)'
    BY <1>1 DEF PlansStand, RunsStand, DatasetInv, PlansRead
  <1> HIDE DEF Snapshots
  <1>8. \A x \in Snapshots' : x \in Snapshots \/ ReadFrom(batches', x[1], x[2])
    BY <1>4, <1>5
  <1> QED
    BY <1>1, <1>3, <1>6, <1>7, <1>8, AnalystReads

LEMMA PersistReads ==
    ASSUME DatasetInv, NEW a \in Analysts, PersistFeatures(a) \/ PersistTargets(a)
    PROVE  DatasetInv'
  <1>1. /\ UNCHANGED <<upgraded, yesterday, days, batches, plans, datasets>>
        /\ Rest(a) /\ a \in Computing
    BY DEF PersistFeatures, PersistTargets, Computing
  <1>2. \E row : /\ RunFields \subseteq DOMAIN row /\ Snapshot(row) = Snapshot(work[a])
                 /\ \/ featureRuns' = AppendRun(featureRuns, row) /\ UNCHANGED targetRuns
                    \/ targetRuns' = AppendRun(targetRuns, row) /\ UNCHANGED featureRuns
    <2>1. CASE PersistFeatures(a)
      <3> DEFINE fresh == {v \in ComputedValues(work[a].days) : \A s \in values : ~ SameValue(v, s)}
                 row == [batch |-> work[a].batch, days |-> work[a].days,
                         persisted |-> Cardinality(fresh), active |-> Promoted(fresh)]
      <3>1. featureRuns' = AppendRun(featureRuns, row) /\ UNCHANGED targetRuns
        BY <2>1 DEF PersistFeatures
      <3>2. RunFields \subseteq DOMAIN row /\ Snapshot(row) = Snapshot(work[a])
        BY DEF RunFields, Snapshot
      <3> QED
        BY <3>1, <3>2
    <2>2. CASE PersistTargets(a)
      <3> DEFINE fresh == {n \in ForwardLabels(work[a].days) : \A l \in labels : l.day # n.day}
                 row == [batch |-> work[a].batch, featureRun |-> work[a].featureRun,
                         days |-> work[a].days, active |-> Promoted(fresh)]
      <3>1. targetRuns' = AppendRun(targetRuns, row) /\ UNCHANGED featureRuns
        BY <2>2 DEF PersistTargets
      <3>2. RunFields \subseteq DOMAIN row /\ Snapshot(row) = Snapshot(work[a])
        BY DEF RunFields, Snapshot
      <3> QED
        BY <3>1, <3>2
    <2> QED
      BY <2>1, <2>2
  <1>3. Snapshots' \subseteq Snapshots
    BY <1>1, <1>2, SnapshotsPersist DEF DatasetInv, DailyInv
  <1>4. RunsStand
    <2>1. CASE PersistFeatures(a)
      BY <2>1, LaterFeatureRun DEF PersistFeatures, RunsStand, DatasetInv
    <2>2. CASE PersistTargets(a)
      BY <2>2, LaterTargetRun DEF PersistTargets, RunsStand, DatasetInv
    <2> QED
      BY <2>1, <2>2
  <1>5. upgraded # "no"
    BY <1>1 DEF DatasetInv, DailyInv, Tables, Snapshots
  <1>6. DailyInv' /\ PlansStand /\ IsTable(plans, PlanFields)'
    BY <1>1, PersistFeaturesKeeps, PersistTargetsKeeps DEF DatasetInv, PlansStand, PlansRead
  <1>7. Working(a, Resting) /\ Resting.step = "rest"
    BY <1>1 DEF Rest, Resting
  <1> HIDE DEF Snapshots
  <1> QED
    BY <1>1, <1>3, <1>4, <1>5, <1>6, <1>7, AnalystReads

LEMMA PlanValidationReads ==
    ASSUME DatasetInv, NEW a \in Analysts, NEW c \in Plans, PlanValidation(a, c)
    PROVE  DatasetInv'
  <1>1. /\ UNCHANGED <<upgraded, yesterday, days, batches, featureRuns, targetRuns, plans, datasets>>
        /\ upgraded = "yes" /\ AcceptedPlan(days, c)
    BY DEF PlanValidation, AcceptedPlan
  <1>2. PICK b \in Ids(batches), f \in Ids(featureRuns) :
          /\ DescribesAll(b)
          /\ Working(a, [step |-> "plan", batch |-> b, featureRun |-> f, days |-> days, config |-> c])
    BY DEF PlanValidation
  <1> DEFINE w == [step |-> "plan", batch |-> b, featureRun |-> f, days |-> days, config |-> c]
  <1>3. w.step = "plan" /\ PlanReads(batches, w)
    BY <1>1, <1>2, DescribedIsRead DEF DatasetInv, PlanReads
  <1>4. Working(a, w)
    BY <1>2
  <1> HIDE DEF w
  <1>5. Snapshots' \subseteq Snapshots
    BY <1>1, <1>3, <1>4, SnapshotsStay DEF DatasetInv, DailyInv
  <1>6. DailyInv' /\ PlansStand /\ RunsStand /\ IsTable(plans, PlanFields)'
    BY <1>1, OtherWorkKeeps DEF DatasetInv, PlansStand, RunsStand, PlansRead
  <1> HIDE DEF Snapshots
  <1> QED
    BY <1>1, <1>3, <1>4, <1>5, <1>6, AnalystReads

\* A new active plan changes no other plan's days, configuration or splits.
LEMMA AppendPlanShape ==
    ASSUME NEW s, IsTable(s, PlanFields), NEW row, PlanFields \subseteq DOMAIN row, row.active
    PROVE  /\ IsTable(AppendRun(s, row), PlanFields)
           /\ \A i \in DOMAIN s : PlanRow(AppendRun(s, row)[i]) = PlanRow(s[i])
           /\ AppendRun(s, row)[Len(s) + 1] = row
           /\ DOMAIN AppendRun(s, row) = DOMAIN s \cup {Len(s) + 1}
  <1> DEFINE t == [i \in Ids(s) |-> [s[i] EXCEPT !.active = FALSE]]
  <1>1. DOMAIN t = DOMAIN s /\ t \in [1 .. Len(s) -> {t[i] : i \in DOMAIN s}] /\ Len(s) \in Nat
    BY DEF Ids, IsTable
  <1>2. \A i \in DOMAIN s : PlanRow(t[i]) = PlanRow(s[i]) /\ PlanFields \subseteq DOMAIN t[i]
    BY DEF IsTable, Ids, PlanFields, PlanRow
  <1> HIDE DEF t
  <1>3. Len(t) = Len(s) /\ DOMAIN t = 1 .. Len(t)
    BY <1>1
  <1>4. /\ Len(Append(t, row)) = Len(s) + 1
        /\ DOMAIN Append(t, row) = 1 .. Len(s) + 1
        /\ Append(t, row)[Len(s) + 1] = row
        /\ \A i \in DOMAIN s : Append(t, row)[i] = t[i]
    BY <1>1, <1>3, AppendShape
  <1>5. AppendRun(s, row) = Append(t, row)
    BY DEF AppendRun, t
  <1>6. DOMAIN Append(t, row) = DOMAIN s \cup {Len(s) + 1} /\ Len(s) + 1 \in Nat
    BY <1>1, <1>4 DEF IsTable
  <1>7. IsTable(Append(t, row), PlanFields)
    BY <1>2, <1>4, <1>6 DEF IsTable
  <1> QED
    BY <1>2, <1>4, <1>5, <1>6, <1>7

LEMMA RegisterPlanReads ==
    ASSUME DatasetInv, NEW a \in Analysts, RegisterPlan(a)
    PROVE  DatasetInv'
  <1> DEFINE w == work[a]
             row == [batch |-> w.batch, featureRun |-> w.featureRun, config |-> w.config,
                     hashed |-> featureRuns[w.featureRun].days,
                     development |-> Development(w.days, w.config),
                     holdout |-> w.days \ Development(w.days, w.config),
                     splits |-> Splits(w.days, w.config), active |-> TRUE]
  <1>1. /\ UNCHANGED <<upgraded, yesterday, days, batches, featureRuns, targetRuns, datasets>>
        /\ Doing(a, "plan") /\ Working(a, Resting) /\ Resting.step = "rest"
        /\ plans' = AppendRun(plans, row)
    BY DEF RegisterPlan, Rest, Resting
  <1>2. PlanReads(batches, w) /\ upgraded # "no"
    BY <1>1 DEF DatasetInv, PlansOpenRead, NothingBeforeUpgrade
  <1>3. PlanFields \subseteq DOMAIN row /\ row.active /\ IsPlan(batches, row)
    BY <1>2 DEF PlanFields, IsPlan, PlanReads
  <1> HIDE DEF row
  <1>4. IsTable(plans, PlanFields)
    BY DEF DatasetInv, PlansRead
  <1>5. /\ IsTable(plans', PlanFields)
        /\ \A p \in DOMAIN plans : PlanRow(plans'[p]) = PlanRow(plans[p])
        /\ plans'[Len(plans) + 1] = row
        /\ DOMAIN plans' = DOMAIN plans \cup {Len(plans) + 1}
    BY <1>1, <1>3, <1>4, AppendPlanShape
  <1>6. PlansStand /\ \A p \in DOMAIN plans' : p \in DOMAIN plans \/ IsPlan(batches', plans'[p])
    BY <1>1, <1>3, <1>5 DEF PlansStand
  <1>7. Snapshots' \subseteq Snapshots
    BY <1>1, SnapshotsStay DEF DatasetInv, DailyInv
  <1>8. DailyInv' /\ RunsStand
    BY <1>1, OtherWorkKeeps DEF DatasetInv, RunsStand
  <1> HIDE DEF Snapshots
  <1> QED
    BY <1>1, <1>2, <1>5, <1>6, <1>7, <1>8, AnalystReads

LEMMA LoadProvenanceReads ==
    ASSUME DatasetInv, NEW a \in Analysts, LoadProvenance(a)
    PROVE  DatasetInv'
  <1>1. /\ UNCHANGED <<upgraded, yesterday, days, batches, featureRuns, targetRuns, plans, datasets>>
        /\ upgraded = "yes"
    BY DEF LoadProvenance
  <1>2. PICK b \in Ids(batches), f \in Ids(featureRuns), t \in Ids(targetRuns), p \in Ids(plans) :
          /\ TheActive(featureRuns, f) /\ TheActive(targetRuns, t)
          /\ Synchronized(b, f, t, p)
          /\ Working(a, [step |-> "dataset", batch |-> b, featureRun |-> f,
                         targetRun |-> t, plan |-> p])
    BY DEF LoadProvenance
  <1> DEFINE w == [step |-> "dataset", batch |-> b, featureRun |-> f, targetRun |-> t, plan |-> p]
  <1>3. w.step = "dataset" /\ Loaded(w)
    BY <1>2 DEF Loaded, TheActive, Synchronized, Ids
  <1>4. Working(a, w)
    BY <1>2
  <1> HIDE DEF w
  <1>5. Loaded(w)'
    BY <1>1, <1>3 DEF Loaded
  <1>6. Snapshots' \subseteq Snapshots
    BY <1>1, <1>3, <1>4, SnapshotsStay DEF DatasetInv, DailyInv
  <1>7. DailyInv' /\ PlansStand /\ RunsStand /\ IsTable(plans, PlanFields)'
    BY <1>1, OtherWorkKeeps DEF DatasetInv, PlansStand, RunsStand, PlansRead
  <1> HIDE DEF Snapshots
  <1> QED
    BY <1>1, <1>3, <1>4, <1>5, <1>6, <1>7, AnalystReads

\* The rows of the active runs are those of a single pass over the days.
LEMMA RowsOfRuns ==
    ASSUME NEW ds, NEW f, NEW t, values = ValuesOf(ds, f), \A l \in labels : l.run = t,
           {LabelOf(l) : l \in labels} = ForwardLabels(ds)
    PROVE  /\ Eligible(f, t) = Observed(ds)
           /\ \A d \in Observed(ds) : Row(f, t, d) = ObservedRow(ds, d)
  <1> DEFINE Full == {e \in ds : Cardinality(UpTo(ds, e)) >= Window}
             Value(d, n) == [day |-> d, name |-> n, inputs |-> Inputs(n, ds, d), run |-> f]
  <1>1. OwnedBy(values, f) = {Value(d, n) : d \in Full, n \in Features}
    <2> DEFINE Computed(d, n) == [day |-> d, name |-> n, inputs |-> Inputs(n, ds, d)]
               Stored(v) == [day |-> v.day, name |-> v.name, inputs |-> v.inputs, run |-> f]
    <2>1. ComputedValues(ds) = {Computed(d, n) : d \in Full, n \in Features}
      BY DEF ComputedValues
    <2>2. values = {Stored(v) : v \in ComputedValues(ds)}
      BY DEF ValuesOf
    <2>3. \A d, n : Stored(Computed(d, n)) = Value(d, n) /\ Value(d, n).run = f
      OBVIOUS
    <2> HIDE DEF Computed, Stored, Value, Full
    <2>4. values = {Value(d, n) : d \in Full, n \in Features}
      BY <2>1, <2>2, <2>3
    <2> QED
      BY <2>3, <2>4 DEF OwnedBy
  <1>2. OwnedBy(labels, t) = labels
    BY DEF OwnedBy
  <1>3. \A d : (\E l \in labels : l.day = d) <=> d \in Labelled(ds)
    <2>1. \A l \in labels : LabelOf(l) \in ForwardLabels(ds) /\ LabelOf(l).day = l.day
      BY DEF LabelOf
    <2>2. \A n \in ForwardLabels(ds) : n.day \in Labelled(ds)
      BY DEF ForwardLabels
    <2>3. \A d \in Labelled(ds) : \E n \in ForwardLabels(ds) : n.day = d
      <3> TAKE d \in Labelled(ds)
      <3>1. [day |-> d, availableAt |-> AvailableAt(ds, d)] \in ForwardLabels(ds)
        BY DEF ForwardLabels
      <3> QED
        BY <3>1
    <2>4. \A n \in ForwardLabels(ds) : \E l \in labels : LabelOf(l) = n
      OBVIOUS
    <2> QED
      BY <2>1, <2>2, <2>3, <2>4
  <1>4. \A l \in labels : l.availableAt = AvailableAt(ds, l.day)
    <2>1. \A l \in labels : /\ LabelOf(l) \in ForwardLabels(ds) /\ LabelOf(l).day = l.day
                            /\ LabelOf(l).availableAt = l.availableAt
      BY DEF LabelOf
    <2>2. \A n \in ForwardLabels(ds) : n.availableAt = AvailableAt(ds, n.day)
      BY DEF ForwardLabels
    <2> QED
      BY <2>1, <2>2
  <1>5. \A d : {v \in OwnedBy(values, f) : v.day = d}
                 = IF d \in Full THEN {Value(d, n) : n \in Features} ELSE {}
    BY <1>1
  <1>6. /\ {v.day : v \in OwnedBy(values, f)} = Full
        /\ \A d \in Full : {v.name : v \in {w \in OwnedBy(values, f) : w.day = d}} = Features
    <2>1. \E n : n \in Features
      BY DEF Features
    <2>2. \A d, n : Value(d, n).day = d /\ Value(d, n).name = n
      OBVIOUS
    <2> HIDE DEF Value, Full
    <2> QED
      BY <1>1, <1>5, <2>1, <2>2
  <1>7. Eligible(f, t) = Observed(ds)
    BY <1>2, <1>3, <1>6 DEF Eligible, Labelled, Observed
  <1>8. ASSUME NEW d \in Observed(ds) PROVE Row(f, t, d) = ObservedRow(ds, d)
    <2>1. d \in Full /\ d \in Labelled(ds)
      BY <1>8 DEF Labelled, Observed
    <2>2. (CHOOSE l \in OwnedBy(labels, t) : l.day = d).availableAt = AvailableAt(ds, d)
      BY <1>2, <1>3, <1>4, <2>1
    <2>3. {[name |-> v.name, inputs |-> v.inputs] : v \in {w \in OwnedBy(values, f) : w.day = d}}
            = {[name |-> n, inputs |-> Inputs(n, ds, d)] : n \in Features}
      <3>1. {w \in OwnedBy(values, f) : w.day = d} = {Value(d, n) : n \in Features}
        BY <1>5, <2>1
      <3>2. \A n : Value(d, n).name = n /\ Value(d, n).inputs = Inputs(n, ds, d)
        OBVIOUS
      <3> HIDE DEF Value
      <3> QED
        BY <3>1, <3>2
    <2> QED
      BY <2>2, <2>3 DEF Row, ObservedRow
  <1> QED
    BY <1>7, <1>8

\* The rows that are read are those of the batch: the count of candles may have
\* grown since the provenance was loaded, but not the rows of the runs.
LEMMA ReadRowsMatch ==
    ASSUME DatasetInv, NEW w, Loaded(w)
    PROVE  LET eligible == Eligible(w.featureRun, w.targetRun)
               plan == plans[w.plan]
           IN  {Row(w.featureRun, w.targetRun, d) :
                   d \in {e \in eligible : e <= Max(plan.development)}}
                 = TrainingRows(batches[plan.batch].days, plan.config)
  <1> DEFINE f == w.featureRun
             t == w.targetRun
             plan == plans[w.plan]
             ds == batches[plan.batch].days
  <1>1. /\ plan.development = Development(ds, plan.config)
        /\ AcceptedPlan(ds, plan.config)
        /\ Active(batches) = {plan.batch}
    BY DEF Loaded, DatasetInv, PlansRead, IsPlan, ReadFrom
  <1>2. ds \in Calendars
    BY <1>1 DEF DatasetInv, Calendar, Calendars
  <1>3. /\ f \in DOMAIN featureRuns /\ values = ValuesOf(featureRuns[f].days, f)
        /\ t \in DOMAIN targetRuns /\ \A l \in labels : l.run = t
        /\ {LabelOf(l) : l \in labels} = ForwardLabels(targetRuns[t].days)
    <2>1. Active(featureRuns) = {f} /\ Active(targetRuns) = {t}
      BY DEF Loaded
    <2>2. PICK r \in DOMAIN featureRuns : /\ Active(featureRuns) = {r}
                                          /\ values = ValuesOf(featureRuns[r].days, r)
      BY <2>1 DEF DatasetInv, DailyInv, FeaturesComplete
    <2>3. PICK r2 \in DOMAIN targetRuns :
            /\ Active(targetRuns) = {r2}
            /\ \A l \in labels : l.run = r2
            /\ {LabelOf(l) : l \in labels} = ForwardLabels(targetRuns[r2].days)
      BY <2>1 DEF DatasetInv, DailyInv, TargetsComplete
    <2>4. f = r /\ t = r2
      BY <2>1, <2>2, <2>3
    <2> QED
      BY <2>2, <2>3, <2>4
  <1>4. featureRuns[f].days = ds /\ targetRuns[t].days = ds
    <2>1. \A x : Snapshot(x) \in Snapshots => /\ Active(batches) = {x.batch}
                                              /\ batches[x.batch].days = x.days
      BY DEF DatasetInv, SnapshotsRead, ReadFrom, Snapshot
    <2>2. Snapshot(featureRuns[f]) \in Snapshots /\ Snapshot(targetRuns[t]) \in Snapshots
      BY <1>3 DEF Snapshots
    <2> QED
      BY <1>1, <2>1, <2>2
  <1> HIDE DEF f, t, ds
  <1>5. /\ Eligible(f, t) = Observed(ds)
        /\ \A d \in Observed(ds) : Row(f, t, d) = ObservedRow(ds, d)
    BY <1>3, <1>4, RowsOfRuns
  <1>6. \A d \in Observed(ds) :
          d <= Max(plan.development) <=> d \in Development(ds, plan.config)
    BY <1>1, <1>2, DevelopmentIsAPrefix DEF Observed, Labelled
  <1> HIDE DEF plan
  <1>7. {e \in Eligible(f, t) : e <= Max(plan.development)}
          = Development(ds, plan.config) \cap Observed(ds)
    BY <1>5, <1>6
  <1>8. {Row(f, t, d) : d \in {e \in Eligible(f, t) : e <= Max(plan.development)}}
          = TrainingRows(ds, plan.config)
    BY <1>5, <1>7 DEF TrainingRows
  <1> QED
    BY <1>8 DEF f, t, plan, ds

LEMMA ReadObservationsReads ==
    ASSUME DatasetInv, NEW a \in Analysts, ReadObservations(a)
    PROVE  DatasetInv'
  <1> DEFINE w == work[a]
             rows == {Row(w.featureRun, w.targetRun, d) :
                        d \in {e \in Eligible(w.featureRun, w.targetRun) :
                                 e <= Max(plans[w.plan].development)}}
             new == [plan |-> w.plan, rows |-> rows]
  <1>1. /\ UNCHANGED <<upgraded, yesterday, days, batches, featureRuns, targetRuns, plans>>
        /\ Doing(a, "dataset") /\ Working(a, Resting) /\ Resting.step = "rest"
        /\ datasets' = datasets \cup {new}
    BY DEF ReadObservations, Rest, Resting
  <1>2. Loaded(w) /\ upgraded # "no"
    BY <1>1 DEF DatasetInv, DatasetsOpenLoaded, NothingBeforeUpgrade
  <1>3. rows = TrainingRows(batches[plans[w.plan].batch].days, plans[w.plan].config)
    BY <1>2, ReadRowsMatch
  <1> HIDE DEF rows
  <1>4. PICK x : x = new
    OBVIOUS
  <1>5. Matches(x)'
    <2>1. Matches(x)
      BY <1>2, <1>3, <1>4 DEF Matches, Loaded
    <2> QED
      BY <1>1, <2>1 DEF Matches
  <1> HIDE DEF new, w
  <1>6. \A y \in datasets' : y \in datasets \/ Matches(y)'
    BY <1>1, <1>5, <1>4
  <1>7. Snapshots' \subseteq Snapshots
    BY <1>1, SnapshotsStay DEF DatasetInv, DailyInv
  <1>8. DailyInv' /\ PlansStand /\ RunsStand /\ IsTable(plans, PlanFields)'
    BY <1>1, OtherWorkKeeps DEF DatasetInv, PlansStand, RunsStand, PlansRead
  <1> HIDE DEF Snapshots
  <1> QED
    BY <1>1, <1>2, <1>6, <1>7, <1>8, AnalystReads

LEMMA AbandonReads ==
    ASSUME DatasetInv, NEW a \in Analysts, Abandon(a)
    PROVE  DatasetInv'
  <1>1. /\ UNCHANGED <<upgraded, yesterday, days, batches, featureRuns, targetRuns, plans, datasets>>
        /\ Working(a, Resting) /\ Resting.step = "rest"
    BY DEF Abandon, Rest, Resting
  <1>2. Snapshots' \subseteq Snapshots
    BY <1>1, SnapshotsStay DEF DatasetInv, DailyInv
  <1>3. DailyInv' /\ PlansStand /\ RunsStand /\ IsTable(plans, PlanFields)'
    BY <1>1, OtherWorkKeeps DEF DatasetInv, PlansStand, RunsStand, PlansRead
  <1> HIDE DEF Snapshots
  <1> QED
    BY <1>1, <1>2, <1>3, AnalystReads

LEMMA DatasetInvariant == DailySpec => []DatasetInv
  <1>1. DailyInit => DatasetInv
    <2> SUFFICES ASSUME DailyInit PROVE DatasetInv
      OBVIOUS
    <2>1. DailyInv
      BY DailyInitHolds
    <2>2. Snapshots = {}
      BY DEF DailyInit, Snapshots, Computing, Doing, Resting
    <2>3. SnapshotsRead
      <3> HIDE DEF Snapshots
      <3> QED
        BY <2>2 DEF SnapshotsRead
    <2>4. Calendar
      BY DailyAssumption DEF DailyInit, Calendar, Calendars, Active, Ids
    <2>5. PlansOpenRead /\ PlansRead /\ DatasetsOpenLoaded /\ DatasetsMatch /\ NothingBeforeUpgrade
      BY DEF DailyInit, PlansOpenRead, PlansRead, DatasetsOpenLoaded, DatasetsMatch,
             NothingBeforeUpgrade, IsTable, Doing, Resting
    <2> QED
      BY <2>1, <2>3, <2>4, <2>5 DEF DatasetInv
  <1>2. DatasetInv /\ [DailyNext]_dailyVars => DatasetInv'
    <2> SUFFICES ASSUME DatasetInv, [DailyNext]_dailyVars PROVE DatasetInv'
      OBVIOUS
    <2>1. CASE UNCHANGED dailyVars
      <3>1. UNCHANGED <<upgraded, yesterday, days, batches, featureRuns, targetRuns, plans,
                        datasets, work>>
        BY <2>1 DEF dailyVars
      <3>2. Snapshots' = Snapshots
        BY <3>1 DEF Snapshots, Computing, Doing
      <3>3. DailyInv'
        BY DailyNextKeeps DEF DatasetInv
      <3>4. /\ Calendar' /\ PlansOpenRead' /\ PlansRead' /\ NothingBeforeUpgrade'
            /\ DatasetsOpenLoaded' /\ DatasetsMatch'
        BY <3>1 DEF DatasetInv, Calendar, PlansOpenRead, PlansRead, NothingBeforeUpgrade,
                    DatasetsOpenLoaded, Loaded, DatasetsMatch, Matches, Doing
      <3>5. SnapshotsRead'
        <4> HIDE DEF Snapshots
        <4> QED
          BY <3>1, <3>2 DEF DatasetInv, SnapshotsRead
      <3> QED
        BY <3>3, <3>4, <3>5 DEF DatasetInv
    <2> QED
      BY <2>1, UpgradeReads, NextDayReads, IngestDailyReads, ComputeReads, PersistReads,
         PlanValidationReads, RegisterPlanReads, LoadProvenanceReads, ReadObservationsReads,
         AbandonReads DEF DailyNext
  <1> QED
    BY <1>1, <1>2, PTL DEF DailySpec

\* Whatever was ingested, repeated or raced between loading the provenance and
\* reading the observations, a dataset is a single pass over the candles of its
\* plan's batch (build_model_ready_dataset).
THEOREM DatasetsAlwaysMatch == DailySpec => []DatasetMatchesBatch
  <1>1. DatasetInv => DatasetMatchesBatch
    BY DEF DatasetInv, DatasetsMatch, Matches, DatasetMatchesBatch, TrainingRows, ObservedRow,
           Observed
  <1> QED
    BY <1>1, DatasetInvariant, PTL

\* In every dataset of every accepted configuration a training label is known
\* before the first test day and a test day's bounded inputs lie after the
\* training days (generate_development_splits, _validate_config).
THEOREM NoDatasetLooksAhead == DailySpec => []NoLookAhead
  <1>1. DatasetInv => NoLookAhead
    <2> SUFFICES ASSUME DatasetInv, NEW x \in datasets, NEW s \in plans[x.plan].splits
                 PROVE  /\ s.test \cap plans[x.plan].holdout = {}
                        /\ \A r \in {r \in x.rows : r.day \in s.train},
                              q \in {r \in x.rows : r.day \in s.test} :
                             /\ r.availableAt < q.day
                             /\ \A v \in q.features :
                                  v.name = "sma" => \A e \in v.inputs : r.day < e
      BY DEF NoLookAhead
    <2> DEFINE plan == plans[x.plan]
               ds == batches[plan.batch].days
    <2>1. x.plan \in DOMAIN plans /\ x.rows = TrainingRows(ds, plan.config)
      BY DEF DatasetInv, DatasetsMatch, Matches
    <2>2. /\ AcceptedPlan(ds, plan.config) /\ Active(batches) = {plan.batch}
          /\ plan.holdout = ds \ Development(ds, plan.config)
          /\ plan.splits = Splits(ds, plan.config)
      BY <2>1 DEF DatasetInv, PlansRead, IsPlan, ReadFrom
    <2>3. ds \in Calendars
      BY <2>2 DEF DatasetInv, Calendar, Calendars
    <2>4. s \in Splits(ds, plan.config)
      BY <2>2
    <2> HIDE DEF ds
    <2>5. s.test \cap plan.holdout = {}
      BY <2>2, <2>3, <2>4, SplitSeparates
    <2> QED
      BY <2>1, <2>2, <2>3, <2>4, <2>5, RowsLookNowhereAhead
  <1> QED
    BY <1>1, DatasetInvariant, PTL

-----------------------------------------------------------------------------
(* The daily backfill.                                                        *)

\* One step of Keep.
KeepStep(rows, wanted, kept, n) ==
    IF n = 0 THEN << >>
    ELSE IF rows[n] \in wanted THEN Append(kept[n - 1], rows[n]) ELSE kept[n - 1]

LEMMA KeptUpTo ==
    ASSUME NEW R, NEW rows \in Seq(R), NEW wanted, NEW n \in 0 .. Len(rows)
    PROVE  \E g : g = [k \in 0 .. n |-> KeepStep(rows, wanted, g, k)]
  <1> DEFINE Good(k) == \E g : g = [j \in 0 .. k |-> KeepStep(rows, wanted, g, j)]
             Bad == {k \in 0 .. Len(rows) : ~ Good(k)}
  <1>1. SUFFICES Bad = {}
    OBVIOUS
  <1>2. Len(rows) \in Nat
    OBVIOUS
  <1>3. Good(0)
    <2> DEFINE g == [j \in 0 .. 0 |-> << >>]
    <2>1. g = [j \in 0 .. 0 |-> KeepStep(rows, wanted, g, j)]
      BY DEF KeepStep
    <2> HIDE DEF g
    <2> QED
      BY <2>1
  <1>4. ASSUME NEW k \in 0 .. Len(rows), k # 0, Good(k - 1)
        PROVE  Good(k)
    <2>1. PICK g : g = [j \in 0 .. k - 1 |-> KeepStep(rows, wanted, g, j)]
      BY <1>4
    <2> DEFINE h == [j \in 0 .. k |-> IF j = k THEN KeepStep(rows, wanted, g, k) ELSE g[j]]
    <2>2. \A j \in 0 .. k - 1 : h[j] = g[j]
      BY <1>2
    <2>3. \A j \in 0 .. k - 1 : g[j] = KeepStep(rows, wanted, g, j)
      BY <2>1
    <2> HIDE DEF h
    <2>4. \A j \in 0 .. k : KeepStep(rows, wanted, h, j) = KeepStep(rows, wanted, g, j)
      BY <1>2, <2>2 DEF KeepStep
    <2>5. h = [j \in 0 .. k |-> KeepStep(rows, wanted, g, j)]
      BY <1>2, <2>3 DEF h
    <2>6. h = [j \in 0 .. k |-> KeepStep(rows, wanted, h, j)]
      BY <2>4, <2>5
    <2> QED
      BY <2>6
  <1> HIDE DEF Good
  <1>5. SUFFICES ASSUME Bad # {} PROVE FALSE
    OBVIOUS
  <1>6. PICK k \in Bad : \A j \in Bad : k <= j
    <2>1. Bad \in SUBSET Nat
      BY <1>2
    <2> HIDE DEF Bad
    <2> QED
      BY <2>1, <1>5, LeastExists
  <1>7. k # 0 /\ k - 1 \in 0 .. Len(rows) /\ k - 1 \notin Bad
    BY <1>2, <1>3, <1>6
  <1> QED
    BY <1>4, <1>7

\* Keep is a sequence of the wanted rows, and holds each of them.
LEMMA KeepsWanted ==
    ASSUME NEW R, NEW rows \in Seq(R), NEW wanted
    PROVE  /\ Keep(rows, wanted) \in Seq(R)
           /\ ToSet(Keep(rows, wanted)) = ToSet(rows) \cap wanted
  <1> DEFINE f == CHOOSE f : f = [k \in 0 .. Len(rows) |-> KeepStep(rows, wanted, f, k)]
  <1>1. Len(rows) \in Nat /\ DOMAIN rows = 1 .. Len(rows)
    OBVIOUS
  <1>2. f = [k \in 0 .. Len(rows) |-> KeepStep(rows, wanted, f, k)]
    BY <1>1, KeptUpTo
  <1>3. Keep(rows, wanted) = f[Len(rows)]
    BY DEF Keep, KeepStep
  <1> HIDE DEF f
  <1>4. \A k \in 0 .. Len(rows) : f[k] = KeepStep(rows, wanted, f, k)
    BY <1>2
  <1> DEFINE Holds(k) == /\ f[k] \in Seq(R)
                         /\ \A r : (\E i \in 1 .. Len(f[k]) : f[k][i] = r)
                                      <=> (r \in wanted /\ \E i \in 1 .. k : rows[i] = r)
             Bad == {k \in 0 .. Len(rows) : ~ Holds(k)}
  <1>5. Holds(0)
    <2>1. f[0] = << >>
      BY <1>1, <1>4 DEF KeepStep
    <2> QED
      BY <2>1
  <1>6. ASSUME NEW k \in 0 .. Len(rows), k # 0, Holds(k - 1)
        PROVE  Holds(k)
    <2>1. k \in 1 .. Len(rows) /\ k - 1 \in 0 .. Len(rows) /\ rows[k] \in R
      BY <1>1, <1>6
    <2>2. \A i \in 1 .. k : i = k \/ i \in 1 .. k - 1
      BY <2>1
    <2> DEFINE old == f[k - 1]
    <2> HIDE DEF old
    <2>3. /\ old \in Seq(R)
          /\ \A r : (\E i \in 1 .. Len(old) : old[i] = r)
                       <=> (r \in wanted /\ \E i \in 1 .. k - 1 : rows[i] = r)
      BY <1>6 DEF old
    <2>4. CASE rows[k] \in wanted
      <3>1. f[k] = Append(old, rows[k])
        BY <1>4, <2>1, <2>4, <1>6 DEF KeepStep, old
      <3>2. /\ f[k] \in Seq(R) /\ Len(f[k]) = Len(old) + 1
            /\ f[k][Len(old) + 1] = rows[k]
            /\ \A i \in 1 .. Len(old) : f[k][i] = old[i]
        BY <3>1, <2>3, <2>1
      <3>3. \A i \in 1 .. Len(f[k]) : i = Len(old) + 1 \/ i \in 1 .. Len(old)
        BY <3>2, <2>3
      <3>4. Len(old) + 1 \in 1 .. Len(f[k]) /\ 1 .. Len(old) \subseteq 1 .. Len(f[k])
        BY <3>2, <2>3
      <3>5. 1 .. k - 1 \subseteq 1 .. k /\ k \in 1 .. k
        BY <2>1
      <3>6. ASSUME NEW r
            PROVE  (\E i \in 1 .. Len(f[k]) : f[k][i] = r)
                     <=> (r \in wanted /\ \E i \in 1 .. k : rows[i] = r)
        <4>1. (\E i \in 1 .. Len(f[k]) : f[k][i] = r)
                <=> (r = rows[k] \/ \E i \in 1 .. Len(old) : old[i] = r)
          BY <3>2, <3>3, <3>4
        <4>2. (\E i \in 1 .. k : rows[i] = r) <=> (r = rows[k] \/ \E i \in 1 .. k - 1 : rows[i] = r)
          BY <2>2, <3>5
        <4> QED
          BY <4>1, <4>2, <2>3, <2>4
      <3> QED
        BY <3>2, <3>6
    <2>5. CASE rows[k] \notin wanted
      <3>1. f[k] = old
        BY <1>4, <2>1, <2>5, <1>6 DEF KeepStep, old
      <3>2. 1 .. k - 1 \subseteq 1 .. k
        BY <2>1
      <3>3. ASSUME NEW r
            PROVE  (r \in wanted /\ \E i \in 1 .. k : rows[i] = r)
                     <=> (r \in wanted /\ \E i \in 1 .. k - 1 : rows[i] = r)
        BY <2>2, <2>5, <3>2
      <3> QED
        BY <3>1, <3>3, <2>3
    <2> QED
      BY <2>4, <2>5
  <1>7. Bad = {}
    <2> HIDE DEF Holds
    <2>1. SUFFICES ASSUME Bad # {} PROVE FALSE
      OBVIOUS
    <2>2. PICK k \in Bad : \A j \in Bad : k <= j
      <3>1. Bad \in SUBSET Nat
        BY <1>1
      <3> HIDE DEF Bad
      <3> QED
        BY <3>1, <2>1, LeastExists
    <2>3. k # 0 /\ k - 1 \in 0 .. Len(rows) /\ k - 1 \notin Bad
      BY <1>1, <1>5, <2>2
    <2> QED
      BY <1>6, <2>3
  <1>8. Holds(Len(rows))
    <2> HIDE DEF Holds
    <2> QED
      BY <1>1, <1>7
  <1>9. DOMAIN Keep(rows, wanted) = 1 .. Len(Keep(rows, wanted))
    BY <1>3, <1>8
  <1>10. \A r : r \in ToSet(Keep(rows, wanted)) <=> r \in ToSet(rows) \cap wanted
    BY <1>1, <1>3, <1>8, <1>9 DEF ToSet
  <1> QED
    BY <1>3, <1>8, <1>10

LEMMA JoinedRows ==
    ASSUME NEW R, NEW s \in Seq(R), NEW t \in Seq(R)
    PROVE  s \o t \in Seq(R) /\ ToSet(s \o t) = ToSet(s) \cup ToSet(t)
  <1>1. /\ s \o t \in Seq(R) /\ DOMAIN s = 1 .. Len(s) /\ DOMAIN t = 1 .. Len(t)
        /\ DOMAIN (s \o t) = 1 .. Len(s) + Len(t) /\ Len(s) \in Nat /\ Len(t) \in Nat
        /\ \A i \in 1 .. Len(s) : (s \o t)[i] = s[i]
        /\ \A i \in 1 .. Len(t) : (s \o t)[Len(s) + i] = t[i]
    OBVIOUS
  <1>2. \A i \in 1 .. Len(s) + Len(t) : i \in 1 .. Len(s) \/ i - Len(s) \in 1 .. Len(t)
    BY <1>1
  <1>3. \A i \in 1 .. Len(s) + Len(t) : (s \o t)[i] \in ToSet(s) \cup ToSet(t)
    <2> TAKE i \in 1 .. Len(s) + Len(t)
    <2>1. CASE i \in 1 .. Len(s)
      BY <1>1, <2>1 DEF ToSet
    <2>2. CASE i - Len(s) \in 1 .. Len(t)
      BY <1>1, <2>2 DEF ToSet
    <2> QED
      BY <1>2, <2>1, <2>2
  <1>4. /\ \A i \in 1 .. Len(s) : i \in 1 .. Len(s) + Len(t)
        /\ \A i \in 1 .. Len(t) : Len(s) + i \in 1 .. Len(s) + Len(t)
    BY <1>1
  <1>5. ToSet(s) \cup ToSet(t) \subseteq ToSet(s \o t)
    <2>1. \A i \in 1 .. Len(s) : s[i] \in ToSet(s \o t)
      BY <1>1, <1>4 DEF ToSet
    <2>2. \A i \in 1 .. Len(t) : t[i] \in ToSet(s \o t)
      BY <1>1, <1>4 DEF ToSet
    <2> QED
      BY <1>1, <2>1, <2>2 DEF ToSet
  <1>6. ToSet(s \o t) \subseteq ToSet(s) \cup ToSet(t)
    BY <1>1, <1>3 DEF ToSet
  <1> QED
    BY <1>1, <1>5, <1>6

LEMMA SkippedDay ==
    ASSUME NEW last \in Nat, NEW next \in Nat, NEW first \in Nat, NEW i \in Nat, i # 0,
           last < next, last = first + (i - 1) - 1, next # first + i - 1
    PROVE  last + 1 < next /\ first <= last + 1
  OBVIOUS

\* Consecutive days: strictly increasing days that leave out none of those from
\* the first to the last before Today are numbered by their position.
LEMMA DaysAreConsecutive ==
    ASSUME NEW cs \in Seq(BackfillRows), Valid(cs)
    PROVE  /\ \A i \in DOMAIN cs : cs[i].day = cs[1].day + i - 1
           /\ cs[Len(cs)].day = Today - 1
  <1>1. Len(cs) \in Nat /\ DOMAIN cs = 1 .. Len(cs) /\ 1 \in DOMAIN cs /\ Len(cs) \in DOMAIN cs
    BY DEF Valid
  <1>2. \A i \in DOMAIN cs : cs[i].day \in Nat
    <2>1. \A i \in DOMAIN cs : cs[i] \in BackfillRows
      BY <1>1
    <2> QED
      BY <2>1, BackfillAssumption DEF BackfillRows
  <1> DEFINE Bad == {i \in DOMAIN cs : cs[i].day # cs[1].day + i - 1}
  <1>3. Bad = {}
    <2>1. SUFFICES ASSUME Bad # {} PROVE FALSE
      OBVIOUS
    <2>2. PICK i \in Bad : \A j \in Bad : i <= j
      <3>1. Bad \in SUBSET Nat
        BY <1>1
      <3> HIDE DEF Bad
      <3> QED
        BY <3>1, <2>1, LeastExists
    <2>3. i # 1 /\ i - 1 \in DOMAIN cs /\ i - 1 \notin Bad
      <3>1. cs[1].day = cs[1].day + 1 - 1
        BY <1>1, <1>2
      <3>2. i # 1
        BY <2>2, <3>1
      <3>3. i - 1 \in DOMAIN cs /\ ~ (i <= i - 1)
        BY <1>1, <2>2, <3>2
      <3> QED
        BY <2>2, <3>2, <3>3
    <2> DEFINE d == cs[i - 1].day + 1
    <2>4. cs[i - 1].day = cs[1].day + (i - 1) - 1 /\ cs[i - 1].day < cs[i].day
      BY <1>1, <2>2, <2>3 DEF Valid
    <2>5. d < cs[i].day /\ cs[1].day <= d /\ d <= Today - 1 /\ d \in Nat
      <3>1. cs[i].day < Today /\ cs[i].day \in Nat /\ cs[1].day \in Nat /\ cs[i - 1].day \in Nat
        BY <1>1, <1>2, <2>2, <2>3 DEF Valid
      <3>2. i \in Nat /\ i - 1 \in Nat /\ i # 0 /\ cs[i].day # cs[1].day + i - 1
        BY <1>1, <2>2, <2>3
      <3> HIDE DEF Bad
      <3>3. d < cs[i].day /\ cs[1].day <= d
        BY <3>1, <3>2, <2>4, SkippedDay
      <3> QED
        BY <3>1, <3>3, BackfillAssumption
    <2> HIDE DEF d
    <2>6. PICK j \in DOMAIN cs : cs[j].day = d
      <3>1. d \in cs[1].day .. Today - 1
        BY <2>5, <1>1, <1>2, BackfillAssumption
      <3> QED
        BY <3>1 DEF Valid
    <2>7. CASE j <= i - 1
      <3>1. j = i - 1 \/ cs[j].day < cs[i - 1].day
        BY <1>1, <2>3, <2>6, <2>7 DEF Valid
      <3> QED
        BY <3>1, <1>2, <2>3, <2>6 DEF d
    <2>8. CASE i <= j
      <3>1. j = i \/ cs[i].day < cs[j].day
        BY <1>1, <2>2, <2>6, <2>8 DEF Valid
      <3> QED
        BY <3>1, <1>2, <2>2, <2>5, <2>6
    <2> QED
      BY <1>1, <2>2, <2>6, <2>7, <2>8
  <1>4. cs[Len(cs)].day = Today - 1
    <2>1. cs[1].day <= Today - 1 /\ cs[Len(cs)].day <= Today - 1
      BY <1>1, <1>2, BackfillAssumption DEF Valid
    <2>2. PICK j \in DOMAIN cs : cs[j].day = Today - 1
      BY <2>1, <1>1, <1>2, BackfillAssumption DEF Valid
    <2>3. j = Len(cs) \/ cs[j].day < cs[Len(cs)].day
      BY <1>1, <2>2 DEF Valid
    <2> QED
      BY <2>1, <2>2, <2>3, <1>1, <1>2, BackfillAssumption
  <1> QED
    BY <1>3, <1>4

\* A row is left out only if an identical one is held; a sample passes only when
\* it is valid.
BackfillInv ==
    /\ candles \in Seq(BackfillRows)
    /\ served = ToSet(candles)
    /\ fetching = "passed" => Valid(candles)

\* A sample that passes holds every completed day from its first to yesterday,
\* once and in order, and says of each what every page said of it
\* (fetch_btc_usd_daily_backfill), whatever pages and cursors Kraken answers.
THEOREM PassedBackfillsAreFaithful == BackfillSpec => []PassedBackfillIsFaithful
  <1>1. BackfillInit => BackfillInv
    BY DEF BackfillInit, BackfillInv, ToSet
  <1>2. BackfillInv /\ [BackfillNext]_backfillVars => BackfillInv'
    <2> SUFFICES ASSUME BackfillInv, [BackfillNext]_backfillVars PROVE BackfillInv'
      OBVIOUS
    <2>1. CASE FetchPage
      <3>1. PICK page \in PageRows, next \in 0 .. Today :
              LET joined == candles \o Accepted(page)
              IN  /\ candles' = joined
                  /\ served' = served \cup ToSet(Completed(page))
                  /\ fetching' = CASE Verdict(page, next) \in {"more", "stalled"} -> "paging"
                                   [] Verdict(page, next) = "raise" -> "raised"
                                   [] Valid(joined) -> "passed"
                                   [] OTHER -> "rejected"
        BY <2>1 DEF FetchPage
      <3>2. page \in Seq(BackfillRows)
        BY BackfillAssumption DEF BackfillRows
      <3>3. /\ Completed(page) \in Seq(BackfillRows)
            /\ ToSet(Completed(page)) \subseteq ToSet(page)
        BY <3>2, KeepsWanted DEF Completed
      <3>4. /\ Accepted(page) \in Seq(BackfillRows)
            /\ ToSet(Accepted(page)) = {r \in ToSet(Completed(page)) : ~ Overlaps(r)}
        BY <3>3, KeepsWanted DEF Accepted
      <3>5. \A r : Overlaps(r) => r \in ToSet(candles)
        BY DEF Overlaps, ToSet
      <3>6. /\ candles' \in Seq(BackfillRows)
            /\ ToSet(candles') = ToSet(candles) \cup ToSet(Accepted(page))
        <4>1. candles \in Seq(BackfillRows) /\ candles' = candles \o Accepted(page)
          BY <3>1 DEF BackfillInv
        <4> QED
          BY <4>1, <3>4, JoinedRows
      <3>7. fetching' = "passed" => Valid(candles')
        BY <3>1
      <3> QED
        BY <3>1, <3>3, <3>4, <3>5, <3>6, <3>7 DEF BackfillInv
    <2>2. CASE ProviderFails
      BY <2>2 DEF ProviderFails, BackfillInv
    <2>3. ASSUME NEW start \in 1 .. Today, StartBackfill(start) PROVE BackfillInv'
      BY <2>3 DEF StartBackfill, BackfillInv
    <2>4. CASE UNCHANGED backfillVars
      BY <2>4 DEF backfillVars, BackfillInv, Valid
    <2> QED
      BY <2>1, <2>2, <2>3, <2>4 DEF BackfillNext
  <1>3. BackfillInv => PassedBackfillIsFaithful
    BY DaysAreConsecutive DEF BackfillInv, PassedBackfillIsFaithful, Valid
  <1> QED
    BY <1>1, <1>2, <1>3, PTL DEF BackfillSpec

-----------------------------------------------------------------------------
\* The rows held are rows of pages, and a loop that asks for another page has
\* pages left.
BackfillTypes ==
    /\ fetching \in {"idle", "paging", "passed", "rejected", "raised"}
    /\ since \in 0 .. Today /\ pages \in 0 .. MaxPages
    /\ candles \in Seq(BackfillRows) /\ served \subseteq BackfillRows
    /\ fetching \in {"idle", "paging"} => pages < MaxPages

\* The state of the backfill keeps its type, whatever Kraken answers, and the
\* pages it asks for never exceed the configured maximum.
THEOREM BackfillTypeCorrect == BackfillSpec => []BackfillTypeOK
  <1>1. BackfillInit => BackfillTypes
    BY BackfillAssumption DEF BackfillInit, BackfillTypes
  <1>2. BackfillTypes /\ [BackfillNext]_backfillVars => BackfillTypes'
    <2> SUFFICES ASSUME BackfillTypes, [BackfillNext]_backfillVars PROVE BackfillTypes'
      OBVIOUS
    <2>1. CASE FetchPage
      <3>1. PICK page \in PageRows, next \in 0 .. Today :
              /\ candles' = candles \o Accepted(page)
              /\ served' = served \cup ToSet(Completed(page))
              /\ pages' = IF Verdict(page, next) = "stalled" THEN pages ELSE pages + 1
              /\ since' = IF Verdict(page, next) \in {"more", "stalled"} THEN next ELSE since
              /\ fetching' = CASE Verdict(page, next) \in {"more", "stalled"} -> "paging"
                               [] Verdict(page, next) = "raise" -> "raised"
                               [] Valid(candles \o Accepted(page)) -> "passed"
                               [] OTHER -> "rejected"
        BY <2>1 DEF FetchPage
      <3>2. fetching = "paging"
        BY <2>1 DEF FetchPage
      <3>3. page \in Seq(BackfillRows)
        BY BackfillAssumption DEF BackfillRows
      <3>4. Completed(page) \in Seq(BackfillRows)
        BY <3>3, KeepsWanted DEF Completed
      <3>5. Accepted(page) \in Seq(BackfillRows)
        BY <3>4, KeepsWanted DEF Accepted
      <3>6. candles' \in Seq(BackfillRows)
        BY <3>1, <3>5, JoinedRows DEF BackfillTypes
      <3>7. served' \subseteq BackfillRows
        BY <3>1, <3>4 DEF BackfillTypes, ToSet
      <3>8. /\ Verdict(page, next) \in {"exhausted", "raise", "more"}
            /\ Verdict(page, next) = "more" => pages + 1 < MaxPages
        BY BackfillAssumption DEF Verdict, BackfillTypes
      <3> HIDE DEF Verdict, Valid
      <3>9. /\ pages' = pages + 1 /\ since' \in {since, next}
            /\ fetching' \in {"paging", "passed", "rejected", "raised"}
            /\ fetching' = "paging" => pages + 1 < MaxPages
        BY <3>1, <3>8
      <3> QED
        BY <3>2, <3>6, <3>7, <3>9, BackfillAssumption DEF BackfillTypes
    <2>2. CASE ProviderFails
      BY <2>2 DEF ProviderFails, BackfillTypes
    <2>3. ASSUME NEW start \in 1 .. Today, StartBackfill(start) PROVE BackfillTypes'
      BY <2>3 DEF StartBackfill, BackfillTypes
    <2>4. CASE UNCHANGED backfillVars
      BY <2>4 DEF backfillVars, BackfillTypes
    <2> QED
      BY <2>1, <2>2, <2>3, <2>4 DEF BackfillNext
  <1>3. BackfillTypes => BackfillTypeOK
    BY DEF BackfillTypes, BackfillTypeOK
  <1> QED
    BY <1>1, <1>2, <1>3, PTL DEF BackfillSpec

-----------------------------------------------------------------------------
BatchRows == [days : SUBSET Days, passed : BOOLEAN, active : BOOLEAN]
AtMostOne(s) == \A i, j \in Active(s) : i = j

\* What a transaction that computes has read.
Reads(w) ==
    /\ w.step \in {"features", "targets"} => w.batch \in Nat \ {0} /\ w.days \subseteq Days
    /\ w.step = "targets" => w.featureRun \in Nat \ {0}

DailyTypes ==
    /\ upgraded \in {"no", "yes", "failed"} /\ days \subseteq Days
    /\ upgraded = "no" => batches = << >>
    /\ \A b \in DOMAIN batches : batches[b] \in BatchRows
    /\ \A r \in DOMAIN featureRuns : featureRuns[r] \in FeatureRunRows
    /\ values \subseteq FeatureRows
    /\ \A r \in DOMAIN targetRuns : targetRuns[r] \in TargetRunRows
    /\ labels \subseteq LabelRows
    /\ AtMostOne(batches) /\ AtMostOne(plans)
    /\ \A a \in Analysts : Reads(work[a])

\* An appended run and the runs it deactivates keep the type of their table.
LEMMA AppendRunTyped ==
    ASSUME NEW s, Len(s) \in Nat, DOMAIN s = 1 .. Len(s), NEW Rows, NEW row \in Rows,
           \A i \in DOMAIN s : s[i] \in Rows,
           \A x \in Rows : [x EXCEPT !.active = FALSE] \in Rows
    PROVE  \A i \in DOMAIN AppendRun(s, row) : AppendRun(s, row)[i] \in Rows
  <1> DEFINE t == IF row.active THEN [r \in Ids(s) |-> [s[r] EXCEPT !.active = FALSE]] ELSE s
  <1>1. Len(t) = Len(s) /\ DOMAIN t = 1 .. Len(s)
    <2>1. CASE row.active
      <3> DEFINE u == [r \in Ids(s) |-> [s[r] EXCEPT !.active = FALSE]]
      <3>1. DOMAIN u = 1 .. Len(s) /\ u \in [1 .. Len(s) -> {u[i] : i \in DOMAIN s}]
        BY DEF Ids
      <3>2. t = u
        BY <2>1
      <3> HIDE DEF u, t
      <3>3. Len(u) = Len(s)
        BY <3>1
      <3> QED
        BY <3>1, <3>2, <3>3
    <2> QED
      BY <2>1
  <1>2. \A i \in DOMAIN s : t[i] \in Rows
    BY DEF Ids
  <1>3. AppendRun(s, row) = Append(t, row)
    BY DEF AppendRun
  <1> HIDE DEF t
  <1>4. /\ DOMAIN Append(t, row) = 1 .. Len(s) + 1
        /\ Append(t, row)[Len(s) + 1] = row
        /\ \A i \in DOMAIN t : Append(t, row)[i] = t[i]
    BY <1>1, AppendShape
  <1>5. \A i \in 1 .. Len(s) + 1 : i \in DOMAIN s \/ i = Len(s) + 1
    OBVIOUS
  <1> QED
    BY <1>1, <1>2, <1>3, <1>4, <1>5

\* An active row leaves no other active one.
LEMMA AppendRunActive ==
    ASSUME NEW s, Len(s) \in Nat, DOMAIN s = 1 .. Len(s), NEW row, row.active,
           \A i \in DOMAIN s : "active" \in DOMAIN s[i]
    PROVE  AtMostOne(AppendRun(s, row))
  <1> DEFINE t == [r \in Ids(s) |-> [s[r] EXCEPT !.active = FALSE]]
  <1>1. DOMAIN t = 1 .. Len(s) /\ t \in [1 .. Len(s) -> {t[i] : i \in DOMAIN s}]
    BY DEF Ids
  <1>2. \A i \in DOMAIN s : ~ t[i].active
    BY DEF Ids
  <1>3. AppendRun(s, row) = Append(t, row)
    BY DEF AppendRun
  <1> HIDE DEF t
  <1>4. Len(t) = Len(s)
    BY <1>1
  <1>5. /\ DOMAIN Append(t, row) = 1 .. Len(s) + 1
        /\ \A i \in DOMAIN t : Append(t, row)[i] = t[i]
    BY <1>1, <1>4, AppendShape
  <1>6. \A i \in 1 .. Len(s) + 1 : i \in DOMAIN s \/ i = Len(s) + 1
    OBVIOUS
  <1> QED
    BY <1>1, <1>2, <1>3, <1>5, <1>6 DEF AtMostOne, Active, Ids

\* The values of a set of days are finitely many rows of its days.
LEMMA ComputedTyped ==
    ASSUME NEW ds \in SUBSET Days
    PROVE  /\ \A v \in ComputedValues(ds) : v.day \in Days /\ v.name \in Features /\ v.inputs \subseteq Days
           /\ \A vs \in SUBSET ComputedValues(ds) : Cardinality(vs) \in Nat
  <1>1. \A n, d : Inputs(n, ds, d) \subseteq ds
    BY DEF Inputs, Latest, UpTo
  <1>2. \A v \in ComputedValues(ds) : v.day \in Days /\ v.name \in Features /\ v.inputs \subseteq Days
    BY <1>1 DEF ComputedValues
  <1>3. IsFiniteSet(ds \X Features)
    <2>1. IsFiniteSet(ds)
      BY CalendarsAreFinite, DailyAssumption DEF Calendars, Days
    <2>2. IsFiniteSet(Features)
      <3>1. IsFiniteSet({"sma"}) /\ IsFiniteSet({"ema"})
        BY FS_Singleton
      <3>2. IsFiniteSet({"sma"} \cup {"ema"})
        BY <3>1, FS_Union
      <3>3. Features = {"sma"} \cup {"ema"}
        BY DEF Features
      <3> QED
        BY <3>2, <3>3
    <2> QED
      BY <2>1, <2>2, FS_Product
  <1> DEFINE V(d, n) == [day |-> d, name |-> n, inputs |-> Inputs(n, ds, d)]
             P == ds \X Features
             All == {V(p[1], p[2]) : p \in P}
             f == [p \in P |-> V(p[1], p[2])]
  <1>4. ComputedValues(ds) \subseteq All
    <2>1. \A v \in ComputedValues(ds) : \E d \in ds, n \in Features : v = V(d, n)
      BY DEF ComputedValues
    <2>2. \A d \in ds, n \in Features : <<d, n>> \in P /\ V(d, n) = V(<<d, n>>[1], <<d, n>>[2])
      OBVIOUS
    <2> HIDE DEF V, P
    <2> QED
      BY <2>1, <2>2
  <1>5. f \in Surjection(P, All)
    <2> HIDE DEF P, V
    <2>1. f \in [P -> All] /\ \A t \in All : \E p \in P : f[p] = t
      OBVIOUS
    <2> QED
      BY <2>1 DEF Surjection
  <1>6. IsFiniteSet(All)
    <2>1. IsFiniteSet(P)
      BY <1>3
    <2> HIDE DEF P, All, f
    <2> QED
      BY <2>1, <1>5, FS_Surjection
  <1>7. \A vs \in SUBSET ComputedValues(ds) : Cardinality(vs) \in Nat
    <2> HIDE DEF All
    <2> QED
      BY <1>4, <1>6, FS_Subset, FS_CardinalityType
  <1> QED
    BY <1>2, <1>7

LEMMA LabelsTyped ==
    ASSUME NEW ds \in SUBSET Days
    PROVE  \A n \in ForwardLabels(ds) : n.day \in Days /\ n.availableAt \in Days
  <1>1. ds \in Calendars
    BY DailyAssumption DEF Calendars, Days
  <1>2. \A d \in Labelled(ds) : d \in Days /\ AvailableAt(ds, d) \in Days
    BY <1>1, LabelPosition DEF Labelled
  <1> QED
    BY <1>2 DEF ForwardLabels

\* At most one row is active.
LEMMA FewActive ==
    ASSUME NEW s, AtMostOne(s)
    PROVE  Cardinality(Active(s)) <= 1
  <1>1. Active(s) = {} \/ \E i : Active(s) = {i}
    BY DEF AtMostOne
  <1>2. Active(s) = {} => Cardinality(Active(s)) = 0
    BY FS_EmptySet
  <1>3. \A i : Active(s) = {i} => Cardinality(Active(s)) = 1
    BY FS_Singleton
  <1> QED
    BY <1>1, <1>2, <1>3

\* The tables are sequences and the active runs are unique.
LEMMA TablesAreSequences ==
    ASSUME DatasetInv
    PROVE  /\ Len(featureRuns) \in Nat /\ DOMAIN featureRuns = 1 .. Len(featureRuns)
           /\ Len(targetRuns) \in Nat /\ DOMAIN targetRuns = 1 .. Len(targetRuns)
           /\ Len(plans) \in Nat /\ DOMAIN plans = 1 .. Len(plans)
           /\ \A i \in DOMAIN plans : "active" \in DOMAIN plans[i]
           /\ upgraded # "no" => Len(batches) \in Nat /\ DOMAIN batches = 1 .. Len(batches)
           /\ yesterday \in 0 .. LastDay
           /\ AtMostOne(featureRuns) /\ AtMostOne(targetRuns)
           /\ work = [a \in Analysts |-> work[a]]
  <1>1. /\ IsTable(featureRuns, RunFields) /\ IsTable(targetRuns, RunFields)
        /\ IsTable(plans, PlanFields) /\ (upgraded # "no" => IsTable(batches, BatchFields))
        /\ yesterday \in 0 .. LastDay /\ work = [a \in Analysts |-> work[a]]
    BY DEF DatasetInv, DailyInv, Tables, PlansRead, Calendar
  <1>2. AtMostOne(featureRuns) /\ AtMostOne(targetRuns)
    BY DEF DatasetInv, DailyInv, AtMostOne, FeaturesComplete, TargetsComplete
  <1> QED
    BY <1>1, <1>2 DEF IsTable, PlanFields

LEMMA UpgradeTyped == ASSUME DatasetInv, DailyTypes, Upgrade PROVE DailyTypes'
  <1>1. /\ UNCHANGED <<featureRuns, values, targetRuns, labels, plans, work>>
        /\ upgraded' \in {"yes", "failed"}
    BY DEF Upgrade
  <1>2. PICK history \in Legacy :
          /\ days' = StoredBy(history)
          /\ batches' = [i \in Ids(history) |->
                           [days |-> history[i].days, passed |-> history[i].passed,
                            active |-> i \in Canonical(history)]]
    BY DEF Upgrade
  <1>3. /\ DOMAIN history = 1 .. Len(history) /\ Len(history) \in Nat
        /\ \A i \in DOMAIN history : /\ history[i].days \subseteq Days
                                     /\ history[i].passed \in BOOLEAN
    BY DailyAssumption DEF Days
  <1>4. days' \subseteq Days /\ \A b \in DOMAIN batches' : batches'[b] \in BatchRows
    BY <1>2, <1>3 DEF StoredBy, Ids, BatchRows
  <1>5. \A i, j \in Canonical(history) : i = j
    <2> TAKE i, j \in Canonical(history)
    <2>1. i \in Nat /\ j \in Nat /\ history[i].passed /\ history[j].passed
      BY <1>3 DEF Canonical, Ids
    <2>2. history[i].days \in Calendars /\ history[j].days \in Calendars
      BY <1>3, DailyAssumption DEF Canonical, Ids, Calendars, Days
    <2>3. Cardinality(history[i].days) \in Nat /\ Cardinality(history[j].days) \in Nat
      BY <2>2, CalendarsAreFinite
    <2>4. /\ \/ Cardinality(history[j].days) < Cardinality(history[i].days)
             \/ Cardinality(history[j].days) = Cardinality(history[i].days) /\ j <= i
          /\ \/ Cardinality(history[i].days) < Cardinality(history[j].days)
             \/ Cardinality(history[i].days) = Cardinality(history[j].days) /\ i <= j
      BY <2>1 DEF Canonical
    <2> QED
      BY <2>1, <2>3, <2>4
  <1>6. AtMostOne(batches')
    BY <1>2, <1>5 DEF AtMostOne, Active, Ids
  <1> QED
    BY <1>1, <1>4, <1>6 DEF DailyTypes

LEMMA OutsideTyped ==
    ASSUME DatasetInv, DailyTypes,
           NextDay \/ \E start \in Starts, passed \in BOOLEAN : IngestDaily(start, passed)
    PROVE  DailyTypes'
  <1>1. CASE NextDay
    BY <1>1 DEF NextDay, DailyTypes
  <1>2. ASSUME NEW start \in Starts, NEW passed \in BOOLEAN, IngestDaily(start, passed)
        PROVE  DailyTypes'
    <2> DEFINE row == [days |-> start .. yesterday, passed |-> passed, active |-> FALSE]
    <2>1. /\ UNCHANGED <<upgraded, featureRuns, values, targetRuns, labels, plans, work>>
          /\ batches' = Append(batches, row) /\ upgraded = "yes"
          /\ days' = IF passed THEN days \cup (start .. yesterday) ELSE days
      BY <1>2 DEF IngestDaily, StoreBatch
    <2>2. start .. yesterday \subseteq Days
      BY TablesAreSequences, DailyAssumption DEF Days
    <2>3. row \in BatchRows /\ ~ row.active
      BY <2>2 DEF BatchRows
    <2> HIDE DEF row
    <2>4. /\ DOMAIN batches' = DOMAIN batches \cup {Len(batches) + 1}
          /\ batches'[Len(batches) + 1] = row
          /\ \A i \in DOMAIN batches : batches'[i] = batches[i]
      <3>1. Len(batches) \in Nat /\ DOMAIN batches = 1 .. Len(batches)
        BY <2>1, TablesAreSequences
      <3>2. /\ DOMAIN Append(batches, row) = 1 .. Len(batches) + 1
            /\ Append(batches, row)[Len(batches) + 1] = row
            /\ \A i \in DOMAIN batches : Append(batches, row)[i] = batches[i]
        BY <3>1, AppendShape
      <3> QED
        BY <2>1, <3>1, <3>2
    <2>5. \A b \in DOMAIN batches' : batches'[b] \in BatchRows
      BY <2>3, <2>4 DEF DailyTypes
    <2>6. Active(batches') \subseteq Active(batches)
      BY <2>3, <2>4 DEF Active, Ids
    <2>7. AtMostOne(batches')
      BY <2>6 DEF AtMostOne, DailyTypes
    <2> QED
      BY <2>1, <2>2, <2>5, <2>7 DEF DailyTypes
  <1> QED
    BY <1>1, <1>2

\* What a session does next is typed.
LEMMA ReadsStep ==
    ASSUME DatasetInv, DailyTypes, NEW a \in Analysts, NEW w, Working(a, w), Reads(w)
    PROVE  \A e \in Analysts : Reads(work'[e])
  BY TablesAreSequences, WorkStep DEF DailyTypes

LEMMA RestingReads == Reads(Resting)
  BY DEF Reads, Resting

LEMMA OpenTyped ==
    ASSUME DatasetInv, DailyTypes, NEW a \in Analysts, ComputeFeatures(a) \/ GenerateTargets(a)
    PROVE  DailyTypes'
  <1>1. UNCHANGED <<upgraded, days, batches, featureRuns, values, targetRuns, labels, plans>>
        /\ upgraded = "yes"
    BY DEF ComputeFeatures, GenerateTargets
  <1>2. \A b \in Ids(batches) : b \in Nat \ {0}
    BY <1>1, TablesAreSequences DEF Ids
  <1>3. \A f \in Ids(featureRuns) : f \in Nat \ {0}
    BY TablesAreSequences DEF Ids
  <1>4. \E w : Working(a, w) /\ Reads(w)
    <2>1. CASE ComputeFeatures(a)
      <3>1. PICK b \in Ids(batches) : Working(a, [step |-> "features", batch |-> b, days |-> days])
        BY <2>1 DEF ComputeFeatures
      <3>2. Reads([step |-> "features", batch |-> b, days |-> days])
        BY <1>2 DEF Reads, DailyTypes
      <3> QED
        BY <3>1, <3>2
    <2>2. CASE GenerateTargets(a)
      <3>1. PICK b \in Ids(batches), f \in Ids(featureRuns) :
              Working(a, [step |-> "targets", batch |-> b, featureRun |-> f, days |-> days])
        BY <2>2 DEF GenerateTargets
      <3>2. Reads([step |-> "targets", batch |-> b, featureRun |-> f, days |-> days])
        BY <1>2, <1>3 DEF Reads, DailyTypes
      <3> QED
        BY <3>1, <3>2
    <2> QED
      BY <2>1, <2>2
  <1>5. \A e \in Analysts : Reads(work'[e])
    BY <1>4, ReadsStep
  <1> QED
    BY <1>1, <1>5 DEF DailyTypes

LEMMA PersistFeaturesTyped ==
    ASSUME DatasetInv, DailyTypes, NEW a \in Analysts, PersistFeatures(a)
    PROVE  DailyTypes'
  <1> DEFINE w == work[a]
             fresh == {v \in ComputedValues(w.days) : \A s \in values : ~ SameValue(v, s)}
             run == Len(featureRuns) + 1
             row == [batch |-> w.batch, days |-> w.days, persisted |-> Cardinality(fresh),
                     active |-> Promoted(fresh)]
  <1>1. /\ values' = values \cup
             {[day |-> v.day, name |-> v.name, inputs |-> v.inputs, run |-> run] : v \in fresh}
        /\ featureRuns' = AppendRun(featureRuns, row)
        /\ Working(a, Resting) /\ w.step = "features"
        /\ UNCHANGED <<upgraded, days, batches, targetRuns, labels, plans>>
    BY DEF PersistFeatures, Rest, Doing
  <1>2. w.batch \in Nat \ {0} /\ w.days \subseteq Days
    BY <1>1 DEF DailyTypes, Reads
  <1>3. /\ \A v \in fresh : v.day \in Days /\ v.name \in Features /\ v.inputs \subseteq Days
        /\ Cardinality(fresh) \in Nat
    <2> DEFINE C == ComputedValues(w.days)
    <2>1. fresh \in SUBSET C
      OBVIOUS
    <2>2. /\ \A v \in C : v.day \in Days /\ v.name \in Features /\ v.inputs \subseteq Days
          /\ \A vs \in SUBSET C : Cardinality(vs) \in Nat
      BY <1>2, ComputedTyped
    <2> HIDE DEF C, fresh
    <2> QED
      BY <2>1, <2>2
  <1> HIDE DEF fresh
  <1>4. run \in Nat \ {0}
    BY TablesAreSequences
  <1>5. values' \subseteq FeatureRows
    <2> HIDE DEF run
    <2> QED
      BY <1>1, <1>3, <1>4 DEF FeatureRows, DailyTypes
  <1>6. row \in FeatureRunRows
    <2>1. Promoted(fresh) \in BOOLEAN
      BY DEF Promoted
    <2> HIDE DEF w
    <2> QED
      BY <1>2, <1>3, <2>1 DEF FeatureRunRows
  <1>7. \A x \in FeatureRunRows : [x EXCEPT !.active = FALSE] \in FeatureRunRows
    BY DEF FeatureRunRows
  <1> HIDE DEF row
  <1>8. \A r \in DOMAIN featureRuns' : featureRuns'[r] \in FeatureRunRows
    BY <1>1, <1>6, <1>7, TablesAreSequences, AppendRunTyped DEF DailyTypes
  <1>9. \A e \in Analysts : Reads(work'[e])
    BY <1>1, RestingReads, ReadsStep
  <1> QED
    BY <1>1, <1>5, <1>8, <1>9 DEF DailyTypes

LEMMA PersistTargetsTyped ==
    ASSUME DatasetInv, DailyTypes, NEW a \in Analysts, PersistTargets(a)
    PROVE  DailyTypes'
  <1> DEFINE w == work[a]
             fresh == {n \in ForwardLabels(w.days) : \A l \in labels : l.day # n.day}
             run == Len(targetRuns) + 1
             row == [batch |-> w.batch, featureRun |-> w.featureRun, days |-> w.days,
                     active |-> Promoted(fresh)]
  <1>1. /\ labels' = labels \cup
             {[day |-> n.day, availableAt |-> n.availableAt, run |-> run,
               featureRun |-> w.featureRun, days |-> w.days] : n \in fresh}
        /\ targetRuns' = AppendRun(targetRuns, row)
        /\ Working(a, Resting) /\ w.step = "targets"
        /\ UNCHANGED <<upgraded, days, batches, featureRuns, values, plans>>
    BY DEF PersistTargets, Rest, Doing
  <1>2. w.batch \in Nat \ {0} /\ w.days \subseteq Days /\ w.featureRun \in Nat \ {0}
    BY <1>1 DEF DailyTypes, Reads
  <1>3. \A n \in fresh : n.day \in Days /\ n.availableAt \in Days
    BY <1>2, LabelsTyped
  <1>4. Promoted(fresh) \in BOOLEAN
    BY DEF Promoted
  <1> HIDE DEF fresh
  <1>5. run \in Nat \ {0}
    BY TablesAreSequences
  <1>6. row \in TargetRunRows
    <2> HIDE DEF w
    <2> QED
      BY <1>2, <1>4 DEF TargetRunRows
  <1>7. labels' \subseteq LabelRows
    <2> HIDE DEF run, w
    <2> QED
      BY <1>1, <1>2, <1>3, <1>5 DEF LabelRows, DailyTypes
  <1>8. \A x \in TargetRunRows : [x EXCEPT !.active = FALSE] \in TargetRunRows
    BY DEF TargetRunRows
  <1> HIDE DEF row
  <1>9. \A r \in DOMAIN targetRuns' : targetRuns'[r] \in TargetRunRows
    BY <1>1, <1>6, <1>8, TablesAreSequences, AppendRunTyped DEF DailyTypes
  <1>10. \A e \in Analysts : Reads(work'[e])
    BY <1>1, RestingReads, ReadsStep
  <1> QED
    BY <1>1, <1>7, <1>9, <1>10 DEF DailyTypes

\* Plans, datasets and sessions that end.
LEMMA OtherTyped ==
    ASSUME DatasetInv, DailyTypes, NEW a \in Analysts,
           \/ RegisterPlan(a) \/ LoadProvenance(a) \/ ReadObservations(a) \/ Abandon(a)
           \/ \E c \in Plans : PlanValidation(a, c)
    PROVE  DailyTypes'
  <1>1. UNCHANGED <<upgraded, days, batches, featureRuns, values, targetRuns, labels>>
    BY DEF RegisterPlan, LoadProvenance, ReadObservations, Abandon, PlanValidation
  <1>2. \E w : Working(a, w) /\ w.step \notin {"features", "targets"}
    <2>1. CASE RegisterPlan(a) \/ ReadObservations(a) \/ Abandon(a)
      BY <2>1 DEF RegisterPlan, ReadObservations, Abandon, Rest, Resting
    <2>2. CASE LoadProvenance(a)
      BY <2>2 DEF LoadProvenance
    <2>3. CASE \E c \in Plans : PlanValidation(a, c)
      BY <2>3 DEF PlanValidation
    <2> QED
      BY <2>1, <2>2, <2>3
  <1>3. \A e \in Analysts : Reads(work'[e])
    <2>1. \A w : w.step \notin {"features", "targets"} => Reads(w)
      BY DEF Reads
    <2> QED
      BY <1>2, <2>1, ReadsStep
  <1>4. AtMostOne(plans')
    <2>1. CASE RegisterPlan(a)
      <3>1. PICK row : plans' = AppendRun(plans, row) /\ row.active
        BY <2>1 DEF RegisterPlan
      <3> QED
        BY <3>1, TablesAreSequences, AppendRunActive
    <2>2. CASE UNCHANGED plans
      BY <2>2 DEF DailyTypes
    <2> QED
      BY <2>1, <2>2 DEF LoadProvenance, ReadObservations, Abandon, PlanValidation
  <1> QED
    BY <1>1, <1>3, <1>4 DEF DailyTypes

\* The tables keep their types and one active row each, for any history a
\* migration finds and any interleaving of requests (the partial unique indexes
\* on is_active are never hit by what the operations commit).
THEOREM DailyTypeCorrect == DailySpec => []DailyTypeOK
  <1>1. DailyInit => DailyTypes
    BY DEF DailyInit, DailyTypes, AtMostOne, Active, Ids, Reads, Resting
  <1>2. DatasetInv /\ DailyTypes /\ [DailyNext]_dailyVars => DailyTypes'
    <2> SUFFICES ASSUME DatasetInv, DailyTypes, [DailyNext]_dailyVars PROVE DailyTypes'
      OBVIOUS
    <2>1. CASE UNCHANGED dailyVars
      BY <2>1 DEF dailyVars, DailyTypes
    <2> QED
      BY <2>1, UpgradeTyped, OutsideTyped, OpenTyped, PersistFeaturesTyped, PersistTargetsTyped,
         OtherTyped DEF DailyNext
  <1>3. DatasetInv /\ DailyTypes => DailyTypeOK
    <2> SUFFICES ASSUME DatasetInv, DailyTypes PROVE DailyTypeOK
      OBVIOUS
    <2>1. \A s \in {batches, featureRuns, targetRuns, plans} : Cardinality(Active(s)) <= 1
      BY TablesAreSequences, FewActive DEF DailyTypes
    <2> QED
      BY <2>1, TablesAreSequences DEF DailyTypes, DailyTypeOK, BatchRows, Ids
  <1> QED
    BY <1>1, <1>2, <1>3, DatasetInvariant, PTL DEF DailySpec
=============================================================================
