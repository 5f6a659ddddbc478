-------------------------- MODULE HistoricalReadiness --------------------------
(* The evidence that historical data is ready: quality reports over the       *)
(* coverage of each timeframe, the inspection of all stored evidence at a     *)
(* cutoff, and the readiness report built from it. Every session reads at     *)
(* READ COMMITTED, one statement after the other, while acquisitions,         *)
(* conflicts, synchronizations and other reports are committed.               *)
(*                                                                            *)
(* Rows carry the time their transaction began (server_default now()); it     *)
(* commits up to Lag later. The outcome of an attempt has no such time: its   *)
(* completed_at is the time the acquisition itself began, however long the    *)
(* fetch and the persistence took. A candle is counted from its close.        *)
(* Snapshots and reports are identified with their content, which their       *)
(* hashes cover.                                                              *)
EXTENDS Naturals, Sequences, FiniteSets, FiniteSetsExt

CONSTANTS
    Timeframes,        \* _TIMEFRAMES
    Natives,           \* _NATIVE_TIMEFRAMES
    Pages,             \* <<timeframe, slots>>: what an ingestion may insert
    Acquisitions,      \* attempts that may be made: [id, tf, started, stamp]
    MinimumElapsed,    \* MINIMUM_ELAPSED_HISTORY_SECONDS, in candles
    MinimumCoverage,   \* MINIMUM_SOURCE_COVERAGE_RATIO, in percent
    Lag,               \* the longest a transaction takes
    Cutoffs,           \* the as-of times asked for
    MaxNow,            \* bound on time
    MaxOutcomes, MaxDisputes, MaxQuality, MaxSyncs, MaxReports \* bounds on rows

ASSUME ReadinessAssumption == Lag \in Nat /\ Cutoffs \subseteq Nat

\* The native timeframes are some of all; a page holds slots of one timeframe; an
\* acquisition takes its time before the transaction of its attempt begins.
ASSUME ReadinessBounds ==
    /\ MaxNow \in Nat \ {0} /\ Cutoffs \subseteq 0 .. MaxNow
    /\ Timeframes # {} /\ Natives \subseteq Timeframes
    /\ Pages \subseteq Timeframes \X SUBSET Nat
    /\ Acquisitions \subseteq [id : Nat, tf : Natives, started : Nat, stamp : Nat]
    /\ \A a \in Acquisitions : a.started <= a.stamp

VARIABLES
    now,
    ingested,  \* market_data_candles: [tf, slot, stamp]
    disputes,  \* market_data_source_conflicts: [tf, slot, stamp]
    attempts,  \* historical_acquisition_attempts: [id, tf, started, stamp]
    outcomes,  \* historical_acquisition_outcomes: [attempt, completed, reason]
    checkpoints, \* historical_acquisition_checkpoints: [attempt, tf, stamp]
    synced,    \* synchronized_coverage_snapshots
    quality,   \* historical_quality_reports
    reader,    \* the quality generation under way
    inspector, \* the readiness validation under way
    reports    \* historical_expansion_readiness_reports

acquisitionTables == <<attempts, outcomes, checkpoints>>
readinessVars == <<now, ingested, disputes, attempts, outcomes, checkpoints, synced,
                   quality, reader, inspector, reports>>

Off == [step |-> "off"]
None == << >>
Reasons == {"succeeded", "failed"}
\* Times at which a transaction that commits now may have begun.
Stamps == {s \in 1 .. now : now <= s + Lag}
\* Every transaction that began by the cutoff has ended.
Settled(cutoff) == cutoff + Lag < now

ReadinessInit ==
    /\ now = 1 /\ ingested = {} /\ disputes = {}
    /\ attempts = {} /\ outcomes = {} /\ checkpoints = {}
    /\ synced = << >> /\ quality = << >> /\ reports = {}
    /\ reader = Off /\ inspector = Off

PassTime ==
    /\ now < MaxNow /\ now' = now + 1
    /\ UNCHANGED <<ingested, disputes, acquisitionTables, synced, quality, reader,
                   inspector, reports>>

-----------------------------------------------------------------------------
(* What other modules detail: ingestion, acquisition and synchronization.     *)

SlotsOf(tf) == {c.slot : c \in {d \in ingested : d.tf = tf}}

\* Candles close before they are ingested, those already stored stay, and
\* derived ones come from stored native ones.
IngestPage ==
    /\ \E page \in Pages, s \in Stamps :
         /\ \A t \in page[2] : t <= s
         /\ page[2] \ SlotsOf(page[1]) # {}
         /\ page[1] \notin Natives =>
              \E n \in Natives : page[2] \subseteq {c.slot : c \in {d \in ingested : d.tf = n /\ d.stamp <= s}}
         /\ ingested' = ingested \cup
              {[tf |-> page[1], slot |-> t, stamp |-> s] : t \in page[2] \ SlotsOf(page[1])}
    /\ UNCHANGED <<now, disputes, acquisitionTables, synced, quality, reader, inspector, reports>>

DisputeCandle ==
    /\ Cardinality(disputes) < MaxDisputes
    /\ \E tf \in Natives, s \in Stamps : \E t \in SlotsOf(tf) :
         disputes' = disputes \cup {[tf |-> tf, slot |-> t, stamp |-> s]}
    /\ UNCHANGED <<now, ingested, acquisitionTables, synced, quality, reader, inspector, reports>>

\* record_attempt. Identifiers are random: they say nothing of the order.
RecordAttempt ==
    /\ \E a \in Acquisitions :
         /\ a.stamp \in Stamps
         /\ \A b \in attempts : b.id # a.id
         /\ attempts' = attempts \cup {a}
    /\ UNCHANGED <<now, ingested, disputes, outcomes, checkpoints, synced, quality, reader,
                   inspector, reports>>

\* The outcome row of an attempt that has none: attempt_id is its primary key.
Conclude(a, completed, reason) ==
    /\ Cardinality(outcomes) < MaxOutcomes
    /\ \A o \in outcomes : o.attempt # a.id
    /\ outcomes' = outcomes \cup {[attempt |-> a.id, completed |-> completed, reason |-> reason]}

\* record_failure and record_conflict are given the time the acquisition began,
\* whenever its fetch, validation or persistence failed.
RecordFailure ==
    /\ \E a \in attempts : Conclude(a, a.started, "failed")
    /\ UNCHANGED <<now, ingested, disputes, attempts, checkpoints, synced, quality, reader,
                   inspector, reports>>

\* prepare_resume closes an incomplete attempt at its own time.
CloseInterrupted ==
    /\ \E a \in attempts, s \in Stamps : a.stamp <= s /\ Conclude(a, s, "failed")
    /\ UNCHANGED <<now, ingested, disputes, attempts, checkpoints, synced, quality, reader,
                   inspector, reports>>

\* record_checkpoint: the checkpoint of candles in store and the outcome of the
\* attempt in one transaction.
RecordCheckpoint ==
    /\ \E a \in attempts, s \in Stamps :
         /\ a.stamp <= s
         /\ \E d \in ingested : d.tf = a.tf /\ d.stamp <= s
         /\ Conclude(a, a.started, "succeeded")
         /\ checkpoints' = checkpoints \cup {[attempt |-> a.id, tf |-> a.tf, stamp |-> s]}
    /\ UNCHANGED <<now, ingested, disputes, attempts, synced, quality, reader, inspector,
                   reports>>

-----------------------------------------------------------------------------
(* Coverage and quality.                                                      *)

\* load_historical_coverage_snapshot at a cutoff.
Coverage(tf, cutoff) ==
    {c.slot : c \in {d \in ingested : d.tf = tf /\ d.stamp <= cutoff /\ d.slot <= cutoff}}
\* unresolved_source_conflicts counts from the close of the candle.
OpenConflicts(tf, cutoff) == {c \in disputes : c.tf = tf /\ c.slot <= cutoff}

\* Synchronization has the steps and the derivation of 10m candles.
Synchronize(cutoff) ==
    /\ Len(synced) < MaxSyncs /\ cutoff <= now
    /\ \A tf \in Timeframes : OpenConflicts(tf, cutoff) = {} /\ Coverage(tf, cutoff) # {}
    /\ \E s \in Stamps :
         synced' = Append(synced, [as_of |-> cutoff, stamp |-> s,
                                   coverage |-> [tf \in Timeframes |-> Coverage(tf, cutoff)]])
    /\ UNCHANGED <<now, ingested, disputes, acquisitionTables, quality, reader, inspector, reports>>

StartQuality(cutoff) ==
    /\ reader = Off /\ Len(quality) < MaxQuality
    /\ reader' = [step |-> "conflicts", as_of |-> cutoff, conflicts |-> << >>, coverage |-> << >>]
    /\ UNCHANGED <<now, ingested, disputes, acquisitionTables, synced, quality, inspector, reports>>

With(f, tf, x) == [g \in DOMAIN f \cup {tf} |-> IF g = tf THEN x ELSE f[g]]

\* Conflicts and coverage of a timeframe are read in sessions of their own, one
\* timeframe after the other, in a fixed order.
CountConflicts ==
    /\ reader.step = "conflicts"
    /\ LET tf == CHOOSE f \in Timeframes : f \notin DOMAIN reader.conflicts
       IN  reader' = [reader EXCEPT
             !.step = "coverage",
             !.conflicts = With(@, tf, Cardinality(OpenConflicts(tf, reader.as_of)))]
    /\ UNCHANGED <<now, ingested, disputes, acquisitionTables, synced, quality, inspector, reports>>

LoadCoverages ==
    /\ reader.step = "coverage"
    /\ \E tf \in DOMAIN reader.conflicts \ DOMAIN reader.coverage :
         reader' = [reader EXCEPT
           !.step = IF DOMAIN reader.conflicts = Timeframes THEN "persist" ELSE "conflicts",
           !.coverage = With(@, tf, Coverage(tf, reader.as_of))]
    /\ UNCHANGED <<now, ingested, disputes, acquisitionTables, synced, quality, inspector, reports>>

SameReport(q) ==
    q.as_of = reader.as_of /\ q.conflicts = reader.conflicts /\ q.coverage = reader.coverage

\* persist_historical_quality_report: one row per content.
PersistQuality ==
    /\ reader.step = "persist" /\ reader' = Off
    /\ \E s \in Stamps :
         quality' = IF \E i \in DOMAIN quality : SameReport(quality[i]) THEN quality
                    ELSE Append(quality, [as_of |-> reader.as_of, stamp |-> s,
                                          conflicts |-> reader.conflicts,
                                          coverage |-> reader.coverage])
    /\ UNCHANGED <<now, ingested, disputes, acquisitionTables, synced, inspector, reports>>

Expected(slots) == Max(slots) - Min(slots) + 1
\* evaluate_acquisition_adequacy
Adequate(conflicts, slots) ==
    /\ slots # {} /\ conflicts = 0
    /\ Expected(slots) >= MinimumElapsed
    /\ 100 * Cardinality(slots) >= MinimumCoverage * Expected(slots)

-----------------------------------------------------------------------------
(* Inspection and readiness.                                                  *)

\* Mutant: rows stored after the cutoff count as well.
WheneverStored(row, cutoff) == TRUE

\* created_at <= cutoff
Stored(row, cutoff) == row.stamp <= cutoff

\* Of the rows at the cutoff: the latest as-of time, the row stored last.
Precedes(s, i, j) ==
    \/ s[i].as_of < s[j].as_of
    \/ s[i].as_of = s[j].as_of /\ s[i].stamp < s[j].stamp
    \/ s[i].as_of = s[j].as_of /\ s[i].stamp = s[j].stamp /\ i <= j
LatestAt(s, cutoff) ==
    LET seen == {i \in DOMAIN s : s[i].as_of <= cutoff /\ Stored(s[i], cutoff)}
    IN  IF seen = {} THEN None
        ELSE LET last == CHOOSE j \in seen : \A i \in seen : Precedes(s, i, j)
             IN  <<[s[last] EXCEPT !.stamp = 0]>>

\* Of the attempts at the cutoff, the one of each timeframe that started last.
AttemptFollows(b, a) ==
    b.started > a.started \/ (b.started = a.started /\ b.id > a.id)
AttemptEvidence(cutoff) ==
    LET seen == {a \in attempts : a.started <= cutoff /\ Stored(a, cutoff)}
    IN  {a \in seen : \A b \in seen : b.tf = a.tf => ~ AttemptFollows(b, a)}

\* The outcome of an attempt counts from its completed_at alone.
OutcomeEvidence(a, cutoff) == {o \in outcomes : o.attempt = a.id /\ o.completed <= cutoff}

\* The checkpoint of a timeframe that was stored last by the cutoff.
CheckpointFollows(d, c) ==
    d.stamp > c.stamp \/ (d.stamp = c.stamp /\ d.attempt > c.attempt)
CheckpointEvidence(tf, cutoff) ==
    LET seen == {c \in checkpoints : c.tf = tf /\ Stored(c, cutoff)}
    IN  {c \in seen : \A d \in seen : ~ CheckpointFollows(d, c)}

ConflictEvidence(cutoff) == {c \in disputes : c.slot <= cutoff /\ Stored(c, cutoff)}

\* Mutant: the counts of the quality report suffice.
CountedConflicts(e) == {}

ConflictBlockers(e) == IF e.conflicts = {} THEN {} ELSE {<<"UNRESOLVED_SOURCE_CONFLICT">>}

AcquisitionBlockers(e) ==
    {<<"ACQUISITION_UNAVAILABLE", tf>> : tf \in {n \in Natives : \A a \in e.attempts : a.tf # n}}
    \cup {<<"CHECKPOINT_UNAVAILABLE", tf>> :
            tf \in {n \in Natives : \A c \in e.checkpoints : c.tf # n}}
SynchronizationBlockers(e) == IF e.sync = None THEN {<<"SYNCHRONIZATION_UNAVAILABLE">>} ELSE {}
QualityBlockers(e) ==
    IF e.quality = None THEN {<<"QUALITY_UNAVAILABLE">>}
    ELSE {<<"QUALITY_INADEQUATE", tf>> :
            tf \in {f \in Timeframes :
                      ~ Adequate(e.quality[1].conflicts[f], e.quality[1].coverage[f])}}
ProvenanceBlockers(e) ==
    IF e.sync = None \/ e.quality = None THEN {}
    ELSE {<<"PROVENANCE_DIVERGENCE", tf>> :
            tf \in {f \in Timeframes : e.sync[1].coverage[f] # e.quality[1].coverage[f]}}

\* The blockers of build_historical_expansion_readiness_report. Policies and
\* code versions are those of the evidence.
Blockers(e) == AcquisitionBlockers(e) \cup ConflictBlockers(e) \cup SynchronizationBlockers(e)
               \cup QualityBlockers(e) \cup ProvenanceBlockers(e)

\* load_historical_operational_inspection, statement by statement. The attempts
\* are read first, then the outcome and the checkpoint of one timeframe that has
\* an attempt after the other's.
Inspect(cutoff) ==
    /\ inspector = Off /\ Cardinality(reports) < MaxReports
    /\ LET found == AttemptEvidence(cutoff)
       IN  inspector' = [step |-> "outcome", as_of |-> cutoff, settled |-> Settled(cutoff),
                         attempts |-> found, left |-> found, turn |-> None,
                         outcomes |-> {}, checkpoints |-> {}, conflicts |-> {}, sync |-> None]
    /\ UNCHANGED <<now, ingested, disputes, acquisitionTables, synced, quality, reader, reports>>

InspectOutcome ==
    /\ inspector.step = "outcome"
    /\ \E a \in inspector.left :
         inspector' = [inspector EXCEPT !.step = "checkpoint", !.turn = <<a>>,
                                       !.left = @ \ {a},
                                       !.outcomes = @ \cup OutcomeEvidence(a, inspector.as_of)]
    /\ UNCHANGED <<now, ingested, disputes, acquisitionTables, synced, quality, reader, reports>>

InspectCheckpoint ==
    /\ inspector.step = "checkpoint"
    /\ inspector' = [inspector EXCEPT
         !.step = "outcome", !.turn = None,
         !.checkpoints = @ \cup CheckpointEvidence(inspector.turn[1].tf, inspector.as_of)]
    /\ UNCHANGED <<now, ingested, disputes, acquisitionTables, synced, quality, reader, reports>>

InspectConflicts ==
    /\ inspector.step = "outcome" /\ inspector.left = {}
    /\ inspector' = [inspector EXCEPT !.step = "synced",
                                     !.conflicts = ConflictEvidence(inspector.as_of)]
    /\ UNCHANGED <<now, ingested, disputes, acquisitionTables, synced, quality, reader, reports>>

InspectSynced ==
    /\ inspector.step = "synced"
    /\ inspector' = [inspector EXCEPT !.step = "quality",
                                     !.sync = LatestAt(synced, inspector.as_of)]
    /\ UNCHANGED <<now, ingested, disputes, acquisitionTables, synced, quality, reader, reports>>

\* The quality report is read, the report built, and stored in a session of its
\* own, once per content.
ReportReadiness ==
    /\ inspector.step = "quality" /\ inspector' = Off
    /\ LET e == [attempts |-> inspector.attempts, outcomes |-> inspector.outcomes,
                 checkpoints |-> inspector.checkpoints, conflicts |-> inspector.conflicts,
                 sync |-> inspector.sync, quality |-> LatestAt(quality, inspector.as_of)]
       IN  reports' = reports \cup {[as_of |-> inspector.as_of, settled |-> inspector.settled,
                                     evidence |-> e, blockers |-> Blockers(e)]}
    /\ UNCHANGED <<now, ingested, disputes, acquisitionTables, synced, quality, reader>>

\* A session ends early or evidence fails verification.
StopReading ==
    /\ \/ reader # Off /\ reader' = Off /\ UNCHANGED inspector
       \/ inspector # Off /\ inspector' = Off /\ UNCHANGED reader
    /\ UNCHANGED <<now, ingested, disputes, acquisitionTables, synced, quality, reports>>

ReadinessNext ==
    \/ PassTime \/ IngestPage \/ DisputeCandle
    \/ RecordAttempt \/ RecordFailure \/ CloseInterrupted \/ RecordCheckpoint
    \/ \E cutoff \in Cutoffs : Synchronize(cutoff) \/ StartQuality(cutoff) \/ Inspect(cutoff)
    \/ CountConflicts \/ LoadCoverages \/ PersistQuality
    \/ InspectOutcome \/ InspectCheckpoint \/ InspectConflicts \/ InspectSynced
    \/ ReportReadiness \/ StopReading

ReadinessSpec == ReadinessInit /\ [][ReadinessNext]_readinessVars

-----------------------------------------------------------------------------
(* Properties.                                                                *)

Slots == 0 .. MaxNow
ReadinessTypeOK ==
    /\ now \in Slots
    /\ ingested \subseteq [tf : Timeframes, slot : Slots, stamp : Slots]
    /\ disputes \subseteq [tf : Natives, slot : Slots, stamp : Slots]
    /\ attempts \subseteq Acquisitions
    /\ outcomes \subseteq [attempt : Nat, completed : Slots, reason : Reasons]
    /\ checkpoints \subseteq [attempt : Nat, tf : Natives, stamp : Slots]
    /\ \A a, b \in attempts : a.id = b.id => a = b
    /\ \A o, p \in outcomes : o.attempt = p.attempt => o = p
    /\ \A i \in DOMAIN synced :
         synced[i] \in [as_of : Slots, stamp : Slots, coverage : [Timeframes -> SUBSET Slots]]
    /\ \A i \in DOMAIN quality :
         quality[i] \in [as_of : Slots, stamp : Slots, conflicts : [Timeframes -> Nat],
                         coverage : [Timeframes -> SUBSET Slots]]

\* What an inspection at the cutoff finds if nothing is committed during it.
Found(cutoff) ==
    LET latest == AttemptEvidence(cutoff)
    IN  [attempts |-> latest,
         outcomes |-> UNION {OutcomeEvidence(a, cutoff) : a \in latest},
         checkpoints |-> UNION {CheckpointEvidence(a.tf, cutoff) : a \in latest},
         conflicts |-> ConflictEvidence(cutoff),
         sync |-> LatestAt(synced, cutoff), quality |-> LatestAt(quality, cutoff)]

\* The verdict of a readiness report for a cutoff by which every transaction had
\* ended stands: the same validation at any later time finds the same attempts,
\* checkpoints, conflicts, coverage and quality and gives the same blockers,
\* whatever was stored meanwhile. An outcome it names is final, but one may be
\* added later, for its completed_at is the time the acquisition began: only an
\* attempt without a checkpoint by the cutoff gains one. If the report is ready,
\* no conflict was on record by the cutoff, although the quality report it rests
\* on may have counted conflicts before one was committed
\* (load_historical_operational_inspection, _acquisition_evidence,
\* build_historical_expansion_readiness_report).
SettledReportsStand ==
    \A r \in reports : r.settled =>
        LET found == Found(r.as_of)
            named == r.evidence.outcomes
        IN  /\ r.evidence = [found EXCEPT !.outcomes = named]
            /\ named \subseteq found.outcomes
            /\ \A a \in r.evidence.attempts, c \in r.evidence.checkpoints :
                 c.attempt = a.id => \E o \in named : o.attempt = a.id /\ o.reason = "succeeded"
            /\ r.blockers = Blockers(found)
            /\ r.blockers = {} =>
                 {c \in disputes : c.slot <= r.as_of /\ c.stamp <= r.as_of} = {}
=============================================================================
