----------------------------- MODULE Acquisition -----------------------------
(***************************************************************************)
(* Resumable acquisition of one native timeframe (5m or 15m):              *)
(* orchestrate_intraday_historical_window of market_data/orchestration.py  *)
(* over SqlHistoricalOrchestrationStore of                                 *)
(* persistence/historical_orchestration.py, and the ingestion endpoint     *)
(* that writes the same candle table without an attempt.                   *)
(*                                                                         *)
(* Every store call opens its own session, so a run of the orchestration   *)
(* is a sequence of transactions (and, in prepare_resume, of single        *)
(* READ COMMITTED statements) between which other processes commit.  Each  *)
(* is one action; pc names the statement an acquirer executes next.  The   *)
(* two timeframes share nothing but the advisory lock: one is modelled.    *)
(***************************************************************************)
EXTENDS Integers, Sequences, FiniteSets, CandleStore

CONSTANTS
    Acquirers,    \* processes that may run the orchestration
    Configs,      \* code versions, each with its configuration hash
    Values,       \* distinguishable OHLCV evidence of one candle
    PageLimit,    \* rows of a provider page (KRAKEN_OHLC_PAGE_LIMIT, 720)
    MaxTime,      \* bound: the clock, in candle intervals
    MaxAttempts,  \* bound: recorded attempts
    MaxDirect,    \* bound: batches of the ingestion endpoint
    MaxCrashes,   \* bound: process crashes
    LateErrors    \* whether a committed write may still be reported as failed

ASSUME AcquisitionAssumption ==
    /\ "none" \notin Values
    /\ PageLimit \in Nat \ {0}
    /\ MaxTime \in Nat \ {0}
    /\ {MaxAttempts, MaxDirect, MaxCrashes} \subseteq Nat
    /\ LateErrors \in BOOLEAN

VARIABLES
    clock,        \* completed intervals so far
    attempts,     \* historical_acquisition_attempts, in insertion order
    outcomes,     \* historical_acquisition_outcomes by attempt, or NoOutcome
    batches,      \* market_data_ingestion_batches, in insertion order
    candles,      \* market_data_candles
    conflicts,    \* market_data_source_conflicts
    checkpoints,  \* historical_acquisition_checkpoints by created_at
    acq,          \* the local variables of each acquirer's run
    crashes

vars == <<clock, attempts, outcomes, batches, candles, conflicts,
          checkpoints, acq, crashes>>
evidence == <<attempts, outcomes, batches, candles, conflicts, checkpoints>>

Times == 0 .. (MaxTime - 1)
NoAttempt == 0
NoPredecessor == 0
NoOutcome == [reason |-> "none", batch |-> 0]
Succeeded == {"SUCCESS_NEW_INSERTS", "SUCCESS_REUSE_ONLY", "PROVIDER_HISTORY_EXHAUSTED"}
Failed == {"PROVIDER_FAILED", "VALIDATION_FAILED", "PERSISTENCE_FAILED"}
Interrupted == "INTERRUPTED_BEFORE_PERSISTENCE"
NoSample == [first |-> 0, until |-> 0, value |-> [t \in {} |-> "none"], limit |-> FALSE]

Idle == [pc |-> "idle", config |-> "none", now |-> 0, pred |-> NoPredecessor,
         orphan |-> NoAttempt, attempt |-> NoAttempt, sample |-> NoSample,
         batch |-> 0, reason |-> "none"]

Init ==
    /\ clock = 1
    /\ attempts = << >>
    /\ outcomes = << >>
    /\ batches = << >>
    /\ candles = [t \in Times |-> NoCandle]
    /\ conflicts = {}
    /\ checkpoints = << >>
    /\ acq = [a \in Acquirers |-> Idle]
    /\ crashes = 0

(***************************************************************************)
(* Helpers                                                                 *)
(***************************************************************************)
At(a, pc) == acq[a].pc = pc
Goto(a, pc) == acq' = [acq EXCEPT ![a].pc = pc]
\* The call raises or returns: its local variables are gone.
Return(a) == acq' = [acq EXCEPT ![a] = Idle]

Incomplete == {i \in DOMAIN attempts : outcomes[i] = NoOutcome}
BatchesOf(i) == {b \in DOMAIN batches : batches[b].attempt = i}

\* The first row of a page that ends at until: a page long at most.
FirstRows(until) == {t \in Times : t < until /\ t >= until - PageLimit}

\* The windows a page can hold once it passes validate_candles: contiguous from
\* its first row to the requested end.  The page may carry one more row, the
\* open candle, which counts towards the provider limit and is dropped.
ValidWindows(until) ==
    UNION {[first : {f}, until : {until}, value : [f .. (until - 1) -> Values],
            limit : {until - f >= PageLimit, until - f + 1 >= PageLimit}] :
           f \in FirstRows(until)}

\* Mutant: a checkpoint without its terminal reason.
NoTerminalReason(s, inserted) == "none"
TerminalReason(s, inserted) ==
    IF s.limit /\ s.until - PageLimit < s.first THEN "PROVIDER_HISTORY_EXHAUSTED"
    ELSE IF inserted # {} THEN "SUCCESS_NEW_INSERTS"
    ELSE "SUCCESS_REUSE_ONLY"

\* The batch row persist_historical_sample commits for a validated window.
BatchOf(attempt, s) ==
    LET clash == SourceConflicts(candles, s)
        inserted == InsertedNative(candles, s)
        old == Window(s) \ Fresh(candles, s)
    IN [attempt |-> attempt, valid |-> TRUE, inserted |-> inserted,
        reused |-> Cardinality(old \ clash), clashes |-> Cardinality(clash)]

\* Mutant: the evidence of a conflict the wrong way round.
SwappedConflictRows(s, b) ==
    {[time |-> t, batch |-> b, canonical |-> s.value[t],
      incoming |-> candles[t].value] : t \in SourceConflicts(candles, s)}
ConflictRows(s, b) ==
    {[time |-> t, batch |-> b, canonical |-> candles[t].value,
      incoming |-> s.value[t]] : t \in SourceConflicts(candles, s)}

\* The whole transaction of persist_historical_sample for a native window.
PersistTransaction(attempt, s) ==
    LET b == Len(batches) + 1
    IN /\ batches' = Append(batches, BatchOf(attempt, s))
       /\ candles' = PersistNative(candles, s, b)
       /\ conflicts' = conflicts \cup ConflictRows(s, b)

\* Mutant: the outcome is upserted.
UpsertOutcome(i, o) == outcomes' = [outcomes EXCEPT ![i] = o]
\* The attempt's outcome row is its primary key: a second insert is rejected,
\* the transaction rolls back and the error leaves the call.
InsertOutcome(i, o) ==
    outcomes' = IF outcomes[i] = NoOutcome THEN [outcomes EXCEPT ![i] = o] ELSE outcomes

\* Mutant: any code version may resume.
AnyVersion(c, config) == TRUE
\* Only the code version that recorded a checkpoint may resume from it.
Compatible(c, config) == attempts[c.attempt].config = config /\ c.config = config

\* The checks prepare_resume makes of the latest checkpoint's batch and outcome.
BatchEvidenceMatches(c) ==
    /\ batches[c.batch].attempt = c.attempt
    /\ batches[c.batch].valid
    /\ Cardinality(batches[c.batch].inserted) = c.inserted
    /\ outcomes[c.attempt] = [reason |-> c.reason, batch |-> c.batch]

\* The checks prepare_resume makes of the canonical rows behind a checkpoint.
CanonicalEvidenceMatches(c) ==
    /\ Cardinality(RowsOf(candles, c.batch)) = c.inserted
    /\ Holds(candles, c.window)

(***************************************************************************)
(* prepare_resume, statement by statement                                  *)
(***************************************************************************)
Start(a) ==
    /\ At(a, "idle")
    /\ \E config \in Configs :
        acq' = [acq EXCEPT ![a] = [Idle EXCEPT !.pc = "scan", !.config = config,
                                               !.now = clock]]
    /\ UNCHANGED <<clock, evidence, crashes>>

\* Mutant: resumption does not look for unresolved conflicts.
SkipConflicts(a) ==
    At(a, "scan") /\ Goto(a, "find") /\ UNCHANGED <<clock, evidence, crashes>>
ScanConflicts(a) ==
    /\ At(a, "scan")
    /\ IF conflicts # {} THEN Return(a) ELSE Goto(a, "find")
    /\ UNCHANGED <<clock, evidence, crashes>>

\* Only the oldest attempt without an outcome is looked at (LIMIT 1).
FindIncomplete(a) ==
    /\ At(a, "find")
    /\ \/ /\ Incomplete = {}
          /\ Goto(a, "load")
       \/ \E i \in Incomplete :
            /\ \A j \in Incomplete : attempts[i].started <= attempts[j].started
            /\ acq' = [acq EXCEPT ![a].pc = "orphan", ![a].orphan = i]
    /\ UNCHANGED <<clock, evidence, crashes>>

\* Mutant: the orphan is closed whether it persisted a batch or not.
SkipOrphanBatch(a) ==
    At(a, "orphan") /\ Goto(a, "close") /\ UNCHANGED <<clock, evidence, crashes>>
\* A committed batch behind the orphan demands manual reconciliation.
CheckOrphanBatch(a) ==
    /\ At(a, "orphan")
    /\ IF BatchesOf(acq[a].orphan) # {} THEN Return(a) ELSE Goto(a, "close")
    /\ UNCHANGED <<clock, evidence, crashes>>

\* Mutant: the recovered outcome is never committed.
CloseWithoutCommit(a) ==
    At(a, "close") /\ Goto(a, "load") /\ UNCHANGED <<clock, evidence, crashes>>
CloseOrphan(a) ==
    /\ At(a, "close")
    /\ InsertOutcome(acq[a].orphan, [reason |-> Interrupted, batch |-> 0])
    /\ IF outcomes[acq[a].orphan] = NoOutcome THEN Goto(a, "load") ELSE Return(a)
    /\ UNCHANGED <<clock, attempts, batches, candles, conflicts, checkpoints, crashes>>

LoadCheckpoint(a) ==
    /\ At(a, "load")
    /\ LET last == Len(checkpoints)
       IN IF last = 0 THEN Goto(a, "record")
          ELSE IF /\ Compatible(checkpoints[last], acq[a].config)
                  /\ BatchEvidenceMatches(checkpoints[last])
               THEN acq' = [acq EXCEPT ![a].pc = "verify", ![a].pred = last]
               ELSE Return(a)
    /\ UNCHANGED <<clock, evidence, crashes>>

VerifyCheckpoint(a) ==
    /\ At(a, "verify")
    /\ IF CanonicalEvidenceMatches(checkpoints[acq[a].pred])
       THEN Goto(a, "record") ELSE Return(a)
    /\ UNCHANGED <<clock, evidence, crashes>>

(***************************************************************************)
(* The acquisition proper                                                  *)
(***************************************************************************)
RecordAttempt(a) ==
    /\ At(a, "record")
    /\ Len(attempts) < MaxAttempts
    /\ attempts' = Append(attempts, [config |-> acq[a].config, started |-> acq[a].now])
    /\ outcomes' = Append(outcomes, NoOutcome)
    /\ acq' = [acq EXCEPT ![a].pc = "fetch", ![a].attempt = Len(attempts) + 1]
    /\ UNCHANGED <<clock, batches, candles, conflicts, checkpoints, crashes>>

FetchWindow(a) ==
    /\ At(a, "fetch")
    /\ \E s \in ValidWindows(acq[a].now) :
        acq' = [acq EXCEPT ![a].pc = "persist", ![a].sample = s]
    /\ UNCHANGED <<clock, evidence, crashes>>

\* The provider is unreachable or malformed, or its window fails validation.
FetchFails(a) ==
    /\ At(a, "fetch")
    /\ \E r \in {"PROVIDER_FAILED", "VALIDATION_FAILED"} :
        acq' = [acq EXCEPT ![a].pc = "fail", ![a].reason = r]
    /\ UNCHANGED <<clock, evidence, crashes>>

PersistSample(a) ==
    /\ At(a, "persist")
    /\ PersistTransaction(acq[a].attempt, acq[a].sample)
    /\ acq' = [acq EXCEPT
                ![a].pc = IF SourceConflicts(candles, acq[a].sample) = {}
                          THEN "readback" ELSE "conflicted",
                ![a].batch = Len(batches) + 1]
    /\ UNCHANGED <<clock, attempts, outcomes, checkpoints, crashes>>

\* The transaction is rolled back.
PersistFails(a) ==
    /\ At(a, "persist")
    /\ acq' = [acq EXCEPT ![a].pc = "fail", ![a].reason = "PERSISTENCE_FAILED"]
    /\ UNCHANGED <<clock, evidence, crashes>>

\* The transaction commits, and then its acknowledgement is lost or the session
\* that reads the rows back fails: the same except clause answers.
LateError(a) ==
    /\ LateErrors
    /\ acq[a].pc \in {"readback", "conflicted"}
    /\ acq' = [acq EXCEPT ![a].pc = "fail", ![a].reason = "PERSISTENCE_FAILED"]
    /\ UNCHANGED <<clock, evidence, crashes>>

\* persist_sample reads the window back; a mismatch leaves with no outcome.
ReadBack(a) ==
    /\ At(a, "readback")
    /\ IF Holds(candles, acq[a].sample) THEN Goto(a, "checkpoint") ELSE Return(a)
    /\ UNCHANGED <<clock, evidence, crashes>>

RecordFailure(a) ==
    /\ At(a, "fail")
    /\ InsertOutcome(acq[a].attempt, [reason |-> acq[a].reason, batch |-> 0])
    /\ Return(a)
    /\ UNCHANGED <<clock, attempts, batches, candles, conflicts, checkpoints, crashes>>

RecordConflict(a) ==
    /\ At(a, "conflicted")
    /\ InsertOutcome(acq[a].attempt,
                     [reason |-> "CONFLICT_FAILED", batch |-> acq[a].batch])
    /\ Return(a)
    /\ UNCHANGED <<clock, attempts, batches, candles, conflicts, checkpoints, crashes>>

CheckpointOf(r) ==
    LET inserted == batches[r.batch].inserted
    IN [attempt |-> r.attempt, pred |-> r.pred, batch |-> r.batch,
        config |-> attempts[r.attempt].config, window |-> r.sample,
        inserted |-> Cardinality(inserted),
        reused |-> Cardinality(Window(r.sample)) - Cardinality(inserted),
        reason |-> TerminalReason(r.sample, inserted)]

\* The checkpoint and the outcome are inserted by one transaction.
RecordCheckpoint(a) ==
    /\ At(a, "checkpoint")
    /\ LET c == CheckpointOf(acq[a])
       IN /\ checkpoints' = IF outcomes[c.attempt] = NoOutcome
                            THEN Append(checkpoints, c) ELSE checkpoints
          /\ InsertOutcome(c.attempt, [reason |-> c.reason, batch |-> c.batch])
    /\ Return(a)
    /\ UNCHANGED <<clock, attempts, batches, candles, conflicts, crashes>>

(***************************************************************************)
(* The environment and the ingestion endpoint                              *)
(***************************************************************************)
Crash(a) ==
    /\ ~At(a, "idle")
    /\ crashes < MaxCrashes
    /\ crashes' = crashes + 1
    /\ Return(a)
    /\ UNCHANGED <<clock, evidence>>

Tick ==
    /\ clock < MaxTime
    /\ clock' = clock + 1
    /\ UNCHANGED <<evidence, acq, crashes>>

DirectBatches == {b \in DOMAIN batches : batches[b].attempt = NoAttempt}

\* ingest_btc_usd_intraday persists a window fetched at some earlier time, with
\* no attempt, no outcome and no look at unresolved conflicts.
IngestDirect ==
    /\ Cardinality(DirectBatches) < MaxDirect
    /\ \E until \in 1 .. clock : \E s \in ValidWindows(until) :
        PersistTransaction(NoAttempt, s)
    /\ UNCHANGED <<clock, attempts, outcomes, checkpoints, acq, crashes>>

\* A window that fails validation still leaves its batch row.
IngestInvalid ==
    /\ Cardinality(DirectBatches) < MaxDirect
    /\ batches' = Append(batches, [attempt |-> NoAttempt, valid |-> FALSE,
                                   inserted |-> {}, reused |-> 0, clashes |-> 0])
    /\ UNCHANGED <<clock, attempts, outcomes, candles, conflicts, checkpoints,
                   acq, crashes>>

Acquire(a) ==
    \/ Start(a) \/ ScanConflicts(a) \/ FindIncomplete(a) \/ CheckOrphanBatch(a)
    \/ CloseOrphan(a) \/ LoadCheckpoint(a) \/ VerifyCheckpoint(a)
    \/ RecordAttempt(a) \/ FetchWindow(a) \/ FetchFails(a) \/ PersistSample(a)
    \/ PersistFails(a) \/ LateError(a) \/ ReadBack(a) \/ RecordFailure(a)
    \/ RecordConflict(a) \/ RecordCheckpoint(a) \/ Crash(a)

Next == Tick \/ IngestDirect \/ IngestInvalid \/ \E a \in Acquirers : Acquire(a)

Spec == Init /\ [][Next]_vars

(***************************************************************************)
(* Properties of any number of acquirers                                   *)
(***************************************************************************)
Reasons == Succeeded \cup Failed \cup {Interrupted, "CONFLICT_FAILED"}
Pcs == {"idle", "scan", "find", "orphan", "close", "load", "verify", "record",
        "fetch", "persist", "fail", "readback", "conflicted", "checkpoint"}
SamplesOf(f, u) ==
    [first : {f}, until : {u}, value : [f .. (u - 1) -> Values], limit : BOOLEAN]
Samples == UNION {UNION {SamplesOf(f, u) : u \in 0 .. MaxTime} : f \in Times}
Attempts == [config : Configs, started : 1 .. MaxTime]
Outcomes == [reason : Reasons \cup {"none"}, batch : Nat]
Batches == [attempt : Nat, valid : BOOLEAN, inserted : SUBSET Times,
            reused : Nat, clashes : Nat]
Candles == [value : Values \cup {"none"}, batch : Nat]
Conflicts == [time : Times, batch : Nat, canonical : Values \cup {"none"},
              incoming : Values]
Checkpoints == [attempt : Nat, pred : Nat, batch : Nat, config : Configs,
                window : Samples, inserted : Nat, reused : Nat, reason : Succeeded]
Runs == [pc : Pcs, config : Configs \cup {"none"}, now : 0 .. MaxTime, pred : Nat,
         orphan : Nat, attempt : Nat, sample : Samples, batch : Nat,
         reason : Failed \cup {"none"}]

\* The shape of the tables and of the calls' local variables.
TypeOK ==
    /\ clock \in 1 .. MaxTime
    /\ attempts \in Seq(Attempts)
    /\ outcomes \in Seq(Outcomes)
    /\ Len(outcomes) = Len(attempts)
    /\ batches \in Seq(Batches)
    /\ candles \in [Times -> Candles]
    /\ conflicts \subseteq Conflicts
    /\ checkpoints \in Seq(Checkpoints)
    /\ acq \in [Acquirers -> Runs]
    /\ crashes \in 0 .. MaxCrashes

\* Canonical candles are insert-only and the acquisition evidence is append-only:
\* no step of any process changes a stored candle, a recorded outcome, or an
\* attempt, batch or checkpoint row, and no conflict evidence disappears.
EvidenceGrows ==
    /\ \A t \in Times : candles[t] # NoCandle => candles'[t] = candles[t]
    /\ \A i \in DOMAIN attempts : i \in DOMAIN attempts' /\ attempts'[i] = attempts[i]
    /\ \A i \in DOMAIN outcomes :
        outcomes[i] # NoOutcome => i \in DOMAIN outcomes' /\ outcomes'[i] = outcomes[i]
    /\ \A b \in DOMAIN batches : b \in DOMAIN batches' /\ batches'[b] = batches[b]
    /\ \A k \in DOMAIN checkpoints :
        k \in DOMAIN checkpoints' /\ checkpoints'[k] = checkpoints[k]
    /\ conflicts \subseteq conflicts'
AppendOnly == [][EvidenceGrows]_vars

\* Whatever other writers commit later, a recorded checkpoint keeps passing every
\* check prepare_resume makes of its batch, its outcome and its canonical rows:
\* only a change of code version can make the latest checkpoint unusable.
CheckpointsVerify ==
    \A k \in DOMAIN checkpoints :
        /\ BatchEvidenceMatches(checkpoints[k])
        /\ CanonicalEvidenceMatches(checkpoints[k])

\* A window persisted without conflict is read back as acquired, so
\* CheckpointReconciliationRequired is never raised by persist_sample.
ReadBackMatches ==
    \A a \in Acquirers :
        acq[a].pc \in {"readback", "checkpoint"} => Holds(candles, acq[a].sample)

BatchCounts ==
    \A b \in DOMAIN batches :
        LET r == batches[b]
            quarantined == {c \in conflicts : c.batch = b}
        IN /\ RowsOf(candles, b) = r.inserted
           /\ r.clashes = Cardinality(quarantined)
           /\ r.clashes > 0 => r.inserted = {}
           /\ ~r.valid => r.inserted = {} /\ r.clashes = 0

ConflictEvidenceExact ==
    \A c \in conflicts :
        /\ candles[c.time].value = c.canonical
        /\ c.canonical \notin {"none", c.incoming}

\* What a batch says of itself describes the tables for ever: the rows that carry
\* its id are the ones it inserted, a batch with conflicts inserted none and each
\* of its conflicts is on record, and the canonical row a conflict names still
\* holds the value it copied, which differs from the incoming one.
BatchAccounting == BatchCounts /\ ConflictEvidenceExact

(***************************************************************************)
(* Properties of one acquirer at a time (Cardinality(Acquirers) = 1)       *)
(***************************************************************************)
\* Resumption looks at one incomplete attempt only, which is enough: when a run
\* has closed it, no other attempt is open, and while an attempt is open no
\* later one exists.
OrphansAreClosed ==
    /\ \A a \in Acquirers :
        acq[a].pc \in {"load", "verify", "record"} => Incomplete = {}
    /\ Incomplete \subseteq {Len(attempts)}

\* A batch committed for an attempt, conflict-free, has its checkpoint or leaves
\* the attempt open, where the next resumption finds it and demands
\* reconciliation (CheckpointReconciliationRequired, orchestration.py:44).
StrandedEvidenceIsDetectable ==
    \A b \in DOMAIN batches :
        batches[b].attempt # NoAttempt /\ batches[b].clashes = 0 =>
            \/ \E k \in DOMAIN checkpoints : checkpoints[k].batch = b
            \/ outcomes[batches[b].attempt] = NoOutcome

\* The outcome INTERRUPTED_BEFORE_PERSISTENCE means what it says: the attempt
\* has no persisted batch, then or later (historical_orchestration.py:90).
InterruptedMeansNotPersisted ==
    \A i \in DOMAIN outcomes : outcomes[i].reason = Interrupted => BatchesOf(i) = {}

\* The checkpoints form one chain, each extending the one before it, all of one
\* code version.
CheckpointsFormAChain ==
    \A k \in DOMAIN checkpoints :
        /\ checkpoints[k].pred = k - 1
        /\ checkpoints[k].config = checkpoints[1].config

\* After a source conflict no further acquisition starts on the timeframe: the
\* conflicting attempt stays the last one.
ConflictStopsAcquisition ==
    \A c \in conflicts :
        batches[c.batch].attempt # NoAttempt => batches[c.batch].attempt = Len(attempts)

(***************************************************************************)
(* Refinement                                                              *)
(***************************************************************************)
Ledger == INSTANCE CanonicalLedger
          WITH Keys <- Times, Empty <- NoCandle,
               ledger <- candles, written <- Len(batches),
               disputed <- {c.time : c \in conflicts}

\* To its readers the candle table is a ledger: whichever processes acquire,
\* ingest, crash and resume, a committed batch either fills empty timestamps or
\* disputes filled ones, all at once, never both, and no row is rewritten.
ImplementsLedger == Ledger!Spec
==============================================================================
