-------------------------- MODULE AcquisitionProofs --------------------------
(***************************************************************************)
(* Proofs about Acquisition for every number of acquirers, code versions,  *)
(* candle values, page length and bound.                                   *)
(***************************************************************************)
EXTENDS Acquisition, FiniteSetTheorems, SequenceTheorems, TLAPS

(***************************************************************************)
(* The inductive invariant.  CheckpointsVerify is not inductive: a         *)
(* checkpoint is recorded from what the run remembers of earlier           *)
(* transactions, so the invariant says what each pc guarantees of them.    *)
(***************************************************************************)
Working == {"fetch", "persist", "fail", "readback", "conflicted", "checkpoint"}
Persisted == {"readback", "checkpoint"}

\* What a run in progress may rely on.
RunSound(r) ==
    /\ r.pc # "idle" => r.config \in Configs /\ r.now \in 1 .. MaxTime
    /\ r.pc \in {"orphan", "close"} => r.orphan \in DOMAIN attempts
    /\ r.pred \in 0 .. Len(checkpoints)
    /\ r.pc \in Working => r.attempt \in DOMAIN attempts
    /\ r.pc = "fail" => r.reason \in Failed
    /\ r.pc \in Persisted =>
        /\ Holds(candles, r.sample)
        /\ r.batch \in DOMAIN batches
        /\ batches[r.batch].attempt = r.attempt
        /\ batches[r.batch].valid
        /\ batches[r.batch].inserted \subseteq Window(r.sample)

\* What a recorded checkpoint says is what the tables hold.
CheckpointSound(c) ==
    /\ c.attempt \in DOMAIN attempts
    /\ c.batch \in DOMAIN batches
    /\ BatchEvidenceMatches(c)
    /\ Holds(candles, c.window)

\* A canonical row names its batch, and a batch's rows are those it inserted.
RowsSound ==
    /\ \A t \in Times : candles[t] # NoCandle =>
        candles[t].value \in Values /\ candles[t].batch \in DOMAIN batches
    /\ \A b \in DOMAIN batches : RowsOf(candles, b) = batches[b].inserted

IInv ==
    /\ TypeOK
    /\ RowsSound
    /\ \A a \in Acquirers : RunSound(acq[a])
    /\ \A k \in DOMAIN checkpoints : CheckpointSound(checkpoints[k])

(***************************************************************************)
(* Windows and samples                                                     *)
(***************************************************************************)
\* A sample's window is a finite set of timestamps, each with a value.
LEMMA SampleWindow ==
    ASSUME NEW s \in Samples
    PROVE  /\ Window(s) \subseteq Times
           /\ \A t \in Window(s) : s.value[t] \in Values
           /\ IsFiniteSet(Window(s))
           /\ s.limit \in BOOLEAN
<1>1. PICK f \in Times, u \in 0 .. MaxTime : s \in SamplesOf(f, u)
  BY DEF Samples
<1>2. /\ s.first = f /\ s.until = u
      /\ s.value \in [f .. (u - 1) -> Values] /\ s.limit \in BOOLEAN
  BY <1>1 DEF SamplesOf
<1>3. Window(s) = f .. (u - 1) /\ f \in Int /\ u - 1 \in Int
  BY <1>2, AcquisitionAssumption DEF Window, Times
<1>4. IsFiniteSet(Window(s))
  BY <1>3, FS_Interval
<1>5. Window(s) \subseteq Times
  BY <1>3, AcquisitionAssumption DEF Times
<1> QED
  BY <1>1, <1>2, <1>3, <1>4, <1>5

\* Every window the provider can deliver is a sample.
LEMMA ValidWindowsAreSamples ==
    ASSUME NEW until \in 0 .. MaxTime
    PROVE  ValidWindows(until) \subseteq Samples
<1> SUFFICES ASSUME NEW s \in ValidWindows(until) PROVE s \in Samples
  OBVIOUS
<1>1. PICK f \in FirstRows(until) :
        s \in [first : {f}, until : {until}, value : [f .. (until - 1) -> Values],
               limit : {until - f >= PageLimit, until - f + 1 >= PageLimit}]
  BY DEF ValidWindows
<1>2. f \in Times
  BY DEF FirstRows
<1>3. {until - f >= PageLimit, until - f + 1 >= PageLimit} \subseteq BOOLEAN
  OBVIOUS
<1>4. s \in SamplesOf(f, until)
  BY <1>1, <1>3 DEF SamplesOf
<1> QED
  BY <1>2, <1>4 DEF Samples

LEMMA NoSampleIsSample == NoSample \in Samples
<1>1. 0 \in Times /\ 0 \in 0 .. MaxTime
  BY AcquisitionAssumption DEF Times
<1>2. [t \in {} |-> "none"] \in [0 .. (0 - 1) -> Values]
  <2>1. 0 .. (0 - 1) = {}
    BY SMT
  <2> QED
    BY <2>1, Zenon
<1>3. NoSample \in SamplesOf(0, 0)
  BY <1>2 DEF NoSample, SamplesOf
<1> QED
  BY <1>1, <1>3 DEF Samples

(***************************************************************************)
(* What holds of the evidence keeps holding as the evidence grows          *)
(***************************************************************************)
LEMMA EvidenceDomains ==
    TypeOK => /\ DOMAIN attempts = 1 .. Len(attempts)
              /\ DOMAIN outcomes = 1 .. Len(attempts)
              /\ DOMAIN batches = 1 .. Len(batches)
              /\ DOMAIN checkpoints = 1 .. Len(checkpoints)
              /\ DOMAIN candles = Times
              /\ {Len(attempts), Len(batches), Len(checkpoints)} \subseteq Nat
BY DEF TypeOK

\* A window that holds keeps holding: its canonical rows are never rewritten.
LEMMA HoldsGrows ==
    ASSUME TypeOK, EvidenceGrows, NEW s \in Samples, Holds(candles, s)
    PROVE  Holds(candles', s)
<1>1. Window(s) \subseteq Times
  BY SampleWindow
<1> QED
  BY <1>1 DEF Holds, EvidenceGrows

LEMMA RunSoundGrows ==
    ASSUME TypeOK, TypeOK', EvidenceGrows, NEW r \in Runs, RunSound(r)
    PROVE  RunSound(r)'
<1>1. /\ DOMAIN attempts \subseteq DOMAIN attempts'
      /\ DOMAIN batches \subseteq DOMAIN batches'
      /\ Len(checkpoints) <= Len(checkpoints')
  <2>1. Len(checkpoints) <= Len(checkpoints')
    <3>1. CASE Len(checkpoints) = 0
      BY <3>1, EvidenceDomains DEF TypeOK
    <3>2. CASE Len(checkpoints) # 0
      <4>1. Len(checkpoints) \in DOMAIN checkpoints
        BY <3>2, EvidenceDomains
      <4>2. Len(checkpoints) \in DOMAIN checkpoints'
        BY <4>1 DEF EvidenceGrows
      <4> QED
        BY <4>2 DEF TypeOK
    <3> QED
      BY <3>1, <3>2
  <2> QED
    BY <2>1 DEF EvidenceGrows
<1>2. Len(checkpoints) \in Nat /\ Len(checkpoints') \in Nat
  BY DEF TypeOK
<1>3. ASSUME r.pc \in Persisted
      PROVE  /\ Holds(candles', r.sample)
             /\ r.batch \in DOMAIN batches'
             /\ batches'[r.batch] = batches[r.batch]
  <2>1. r.sample \in Samples
    BY DEF Runs
  <2> QED
    BY <1>3, <2>1, HoldsGrows DEF RunSound, EvidenceGrows
<1> QED
  BY <1>1, <1>2, <1>3 DEF RunSound

LEMMA CheckpointSoundGrows ==
    ASSUME TypeOK, EvidenceGrows, NEW c \in Checkpoints, CheckpointSound(c)
    PROVE  CheckpointSound(c)'
<1>1. c.window \in Samples /\ c.reason \in Succeeded
  BY DEF Checkpoints
<1>2. Holds(candles', c.window)
  BY <1>1, HoldsGrows DEF CheckpointSound
<1>3. outcomes[c.attempt] # NoOutcome
  BY <1>1 DEF CheckpointSound, BatchEvidenceMatches, NoOutcome, Succeeded
<1>4. c.attempt \in DOMAIN outcomes
  BY EvidenceDomains DEF CheckpointSound
<1>5. /\ c.attempt \in DOMAIN attempts'
      /\ c.batch \in DOMAIN batches'
      /\ batches'[c.batch] = batches[c.batch]
      /\ outcomes'[c.attempt] = outcomes[c.attempt]
  BY <1>3, <1>4 DEF CheckpointSound, EvidenceGrows
<1> QED
  BY <1>2, <1>5 DEF CheckpointSound, BatchEvidenceMatches

(***************************************************************************)
(* Steps that move one run and write nothing                               *)
(***************************************************************************)
LEMMA IdleIsSound == Idle \in Runs /\ (IInv => RunSound(Idle))
<1>1. Idle \in Runs
  BY NoSampleIsSample, AcquisitionAssumption DEF Idle, Runs, Pcs, NoPredecessor, NoAttempt
<1>2. IInv => RunSound(Idle)
  BY EvidenceDomains DEF IInv, RunSound, Idle, Working, Persisted, NoPredecessor
<1> QED
  BY <1>1, <1>2

LEMMA LocalStep ==
    ASSUME IInv, NEW a \in Acquirers, NEW r \in Runs, RunSound(r),
           acq' = [acq EXCEPT ![a] = r], UNCHANGED evidence,
           clock' \in 1 .. MaxTime, crashes' \in 0 .. MaxCrashes
    PROVE  IInv' /\ EvidenceGrows
<1>1. TypeOK'
  BY DEF IInv, TypeOK, evidence
<1>2. EvidenceGrows
  BY DEF EvidenceGrows, evidence
<1>3. RowsSound'
  BY DEF IInv, RowsSound, evidence
<1>4. ASSUME NEW b \in Acquirers PROVE RunSound(acq[b])'
  <2>1. acq'[b] \in Runs /\ RunSound(acq'[b])
    BY DEF IInv, TypeOK
  <2> QED
    BY <2>1 DEF RunSound, evidence
<1>5. \A k \in DOMAIN checkpoints' : CheckpointSound(checkpoints[k])'
  BY DEF IInv, CheckpointSound, BatchEvidenceMatches, evidence
<1> QED
  BY <1>1, <1>2, <1>3, <1>4, <1>5 DEF IInv

LEMMA ReturnStep ==
    ASSUME IInv, NEW a \in Acquirers, Return(a), UNCHANGED <<clock, evidence>>,
           crashes' \in 0 .. MaxCrashes
    PROVE  IInv' /\ EvidenceGrows
<1>1. clock' \in 1 .. MaxTime /\ UNCHANGED evidence
  BY DEF IInv, TypeOK
<1> QED
  BY <1>1, IdleIsSound, LocalStep DEF Return

\* Moving pc to a place whose facts the run already has.
LEMMA GotoStep ==
    ASSUME IInv, NEW a \in Acquirers, NEW pc \in Pcs,
           acq[a].pc # "idle", pc # "idle",
           Goto(a, pc), UNCHANGED <<clock, evidence, crashes>>,
           pc \in {"orphan", "close"} => acq[a].orphan \in DOMAIN attempts,
           pc \in Working => acq[a].attempt \in DOMAIN attempts,
           pc # "fail",
           pc \in Persisted => acq[a].pc \in Persisted
    PROVE  IInv' /\ EvidenceGrows
<1> DEFINE r == [acq[a] EXCEPT !.pc = pc]
<1>1. acq[a] \in Runs /\ RunSound(acq[a])
  BY DEF IInv, TypeOK
<1>2. r \in Runs
  BY <1>1 DEF Runs
<1>3. RunSound(r)
  BY <1>1 DEF RunSound, Runs
<1>4. acq' = [acq EXCEPT ![a] = r]
  BY DEF Goto, IInv, TypeOK
<1>5. clock' \in 1 .. MaxTime /\ crashes' \in 0 .. MaxCrashes /\ UNCHANGED evidence
  BY DEF IInv, TypeOK
<1> QED
  BY <1>2, <1>3, <1>4, <1>5, LocalStep

LEMMA ResumeSteps ==
    ASSUME IInv, NEW a \in Acquirers,
           \/ Start(a) \/ ScanConflicts(a) \/ FindIncomplete(a)
           \/ CheckOrphanBatch(a) \/ LoadCheckpoint(a) \/ VerifyCheckpoint(a)
    PROVE  IInv' /\ EvidenceGrows
<1> USE DEF At
<1>0. /\ acq[a] \in Runs /\ RunSound(acq[a]) /\ acq \in [Acquirers -> Runs]
      /\ clock \in 1 .. MaxTime /\ crashes \in 0 .. MaxCrashes
  BY DEF IInv, TypeOK
<1>1. CASE Start(a)
  <2>1. PICK config \in Configs :
          acq' = [acq EXCEPT ![a] = [Idle EXCEPT !.pc = "scan", !.config = config,
                                                 !.now = clock]]
    BY <1>1 DEF Start
  <2> DEFINE r == [Idle EXCEPT !.pc = "scan", !.config = config, !.now = clock]
  <2>2. r \in Runs
    <3>1. clock \in 0 .. MaxTime
      BY <1>0
    <3> QED
      BY <3>1, NoSampleIsSample DEF Runs, Pcs, Idle, NoPredecessor, NoAttempt
  <2>3. RunSound(r)
    BY <1>0, IdleIsSound DEF RunSound, Idle, Working, Persisted
  <2> QED
    BY <1>0, <1>1, <2>1, <2>2, <2>3, LocalStep DEF Start
<1>2. CASE ScanConflicts(a)
  BY <1>0, <1>2, GotoStep, ReturnStep DEF ScanConflicts, Pcs, Working, Persisted
<1>3. CASE FindIncomplete(a)
  <2>1. CASE Goto(a, "load")
    BY <1>0, <1>3, <2>1, GotoStep DEF FindIncomplete, Pcs, Working, Persisted
  <2>2. ASSUME NEW i \in Incomplete,
               acq' = [acq EXCEPT ![a].pc = "orphan", ![a].orphan = i]
        PROVE  IInv' /\ EvidenceGrows
    <3> DEFINE r == [acq[a] EXCEPT !.pc = "orphan", !.orphan = i]
    <3>1. i \in DOMAIN attempts /\ i \in Nat
      BY EvidenceDomains DEF Incomplete, IInv
    <3>2. r \in Runs /\ RunSound(r)
      BY <1>0, <1>3, <3>1 DEF Runs, Pcs, RunSound, Working, Persisted, FindIncomplete
    <3>3. acq' = [acq EXCEPT ![a] = r]
      BY <1>0, <2>2
    <3> QED
      BY <1>0, <1>3, <3>2, <3>3, LocalStep DEF FindIncomplete
  <2> QED
    BY <1>3, <2>1, <2>2 DEF FindIncomplete
<1>4. CASE CheckOrphanBatch(a)
  <2>1. acq[a].orphan \in DOMAIN attempts
    BY <1>0, <1>4 DEF CheckOrphanBatch, RunSound
  <2> QED
    BY <1>0, <1>4, <2>1, GotoStep, ReturnStep
       DEF CheckOrphanBatch, Pcs, Working, Persisted
<1>5. CASE LoadCheckpoint(a)
  <2>1. CASE Goto(a, "record")
    BY <1>0, <1>5, <2>1, GotoStep DEF LoadCheckpoint, Pcs, Working, Persisted
  <2>2. CASE acq' = [acq EXCEPT ![a].pc = "verify", ![a].pred = Len(checkpoints)]
    <3> DEFINE r == [acq[a] EXCEPT !.pc = "verify", !.pred = Len(checkpoints)]
    <3>1. Len(checkpoints) \in Nat
      BY EvidenceDomains DEF IInv
    <3>a. acq[a].pc = "load"
      BY <1>5 DEF LoadCheckpoint
    <3>b. r \in Runs
      BY <1>0, <3>1 DEF Runs, Pcs
    <3>2. r \in Runs /\ RunSound(r)
      BY <1>0, <3>1, <3>a, <3>b DEF Runs, RunSound, Working, Persisted
    <3>3. acq' = [acq EXCEPT ![a] = r]
      BY <1>0, <2>2
    <3> QED
      BY <1>0, <1>5, <3>2, <3>3, LocalStep DEF LoadCheckpoint
  <2>3. CASE Return(a)
    BY <1>0, <1>5, <2>3, ReturnStep DEF LoadCheckpoint
  <2> QED
    BY <1>5, <2>1, <2>2, <2>3 DEF LoadCheckpoint
<1>6. CASE VerifyCheckpoint(a)
  BY <1>0, <1>6, GotoStep, ReturnStep DEF VerifyCheckpoint, Pcs, Working, Persisted
<1> QED
  BY <1>1, <1>2, <1>3, <1>4, <1>5, <1>6

LEMMA FetchSteps ==
    ASSUME IInv, NEW a \in Acquirers,
           \/ FetchWindow(a) \/ FetchFails(a) \/ PersistFails(a) \/ LateError(a)
           \/ ReadBack(a) \/ Crash(a)
    PROVE  IInv' /\ EvidenceGrows
<1> USE DEF At
<1>0. /\ acq[a] \in Runs /\ RunSound(acq[a]) /\ acq \in [Acquirers -> Runs]
      /\ clock \in 1 .. MaxTime /\ crashes \in 0 .. MaxCrashes
  BY DEF IInv, TypeOK
<1>1. ASSUME NEW reason \in Failed, acq[a].pc \in Working,
             acq' = [acq EXCEPT ![a].pc = "fail", ![a].reason = reason],
             UNCHANGED <<clock, evidence, crashes>>
      PROVE  IInv' /\ EvidenceGrows
  <2> DEFINE r == [acq[a] EXCEPT !.pc = "fail", !.reason = reason]
  <2>1. r \in Runs /\ RunSound(r)
    BY <1>0, <1>1 DEF Runs, Pcs, RunSound, Working, Persisted
  <2>2. acq' = [acq EXCEPT ![a] = r]
    BY <1>0, <1>1
  <2> QED
    BY <1>0, <1>1, <2>1, <2>2, LocalStep
<1>2. CASE FetchWindow(a)
  <2>1. PICK s \in ValidWindows(acq[a].now) :
          acq' = [acq EXCEPT ![a].pc = "persist", ![a].sample = s]
    BY <1>2 DEF FetchWindow
  <2> DEFINE r == [acq[a] EXCEPT !.pc = "persist", !.sample = s]
  <2>2. s \in Samples
    BY <1>0, ValidWindowsAreSamples DEF Runs
  <2>3. r \in Runs /\ RunSound(r)
    BY <1>0, <1>2, <2>2 DEF Runs, Pcs, RunSound, Working, Persisted, FetchWindow
  <2>4. acq' = [acq EXCEPT ![a] = r]
    BY <1>0, <2>1
  <2> QED
    BY <1>0, <1>2, <2>3, <2>4, LocalStep DEF FetchWindow
<1>3. CASE FetchFails(a)
  BY <1>1, <1>3 DEF FetchFails, Failed, Working
<1>4. CASE PersistFails(a)
  BY <1>1, <1>4 DEF PersistFails, Failed, Working
<1>5. CASE LateError(a)
  BY <1>1, <1>5 DEF LateError, Failed, Working
<1>6. CASE ReadBack(a)
  <2>1. acq[a].attempt \in DOMAIN attempts
    BY <1>0, <1>6 DEF ReadBack, RunSound, Working
  <2> QED
    BY <1>0, <1>6, <2>1, GotoStep, ReturnStep DEF ReadBack, Pcs, Working, Persisted
<1>7. CASE Crash(a)
  <2>1. crashes' \in 0 .. MaxCrashes
    BY <1>0, <1>7, AcquisitionAssumption DEF Crash
  <2> QED
    BY <1>7, <2>1, ReturnStep DEF Crash
<1> QED
  BY <1>2, <1>3, <1>4, <1>5, <1>6, <1>7

(***************************************************************************)
(* Steps that write evidence                                               *)
(***************************************************************************)
\* It is enough to look at what a step has written.
LEMMA EvidenceStep ==
    ASSUME IInv, TypeOK', EvidenceGrows, RowsSound',
           \A b \in Acquirers : acq'[b] = acq[b] \/ RunSound(acq[b])',
           \A k \in DOMAIN checkpoints' \ DOMAIN checkpoints :
                CheckpointSound(checkpoints[k])'
    PROVE  IInv'
<1>1. ASSUME NEW b \in Acquirers PROVE RunSound(acq[b])'
  <2>1. CASE acq'[b] = acq[b]
    <3>1. acq[b] \in Runs /\ RunSound(acq[b])
      BY DEF IInv, TypeOK
    <3>2. TypeOK
      BY DEF IInv
    <3> QED
      BY <2>1, <3>1, <3>2, RunSoundGrows DEF RunSound
  <2> QED
    BY <1>1, <2>1
<1>2. ASSUME NEW k \in DOMAIN checkpoints' PROVE CheckpointSound(checkpoints[k])'
  <2>1. CASE k \in DOMAIN checkpoints
    <3>1. checkpoints'[k] = checkpoints[k]
      BY <2>1 DEF EvidenceGrows
    <3>2. checkpoints[k] \in Checkpoints /\ CheckpointSound(checkpoints[k]) /\ TypeOK
      BY <2>1 DEF IInv, TypeOK
    <3> QED
      BY <3>1, <3>2, CheckpointSoundGrows DEF CheckpointSound, BatchEvidenceMatches
  <2> QED
    BY <1>2, <2>1
<1> QED
  BY <1>1, <1>2 DEF IInv

LEMMA InsertOutcomeKeeps ==
    ASSUME TypeOK, NEW i \in DOMAIN attempts, NEW o \in Outcomes, InsertOutcome(i, o)
    PROVE  /\ outcomes' \in Seq(Outcomes)
           /\ Len(outcomes') = Len(outcomes)
           /\ outcomes[i] = NoOutcome => outcomes'[i] = o
           /\ \A j \in DOMAIN outcomes :
                outcomes[j] # NoOutcome => j \in DOMAIN outcomes' /\ outcomes'[j] = outcomes[j]
<1>1. i \in 1 .. Len(outcomes)
  BY EvidenceDomains DEF TypeOK
<1>2. CASE outcomes[i] = NoOutcome
  <2>1. outcomes' = [outcomes EXCEPT ![i] = o]
    BY <1>2 DEF InsertOutcome
  <2>2. outcomes' \in Seq(Outcomes) /\ Len(outcomes') = Len(outcomes)
    BY <1>1, <2>1, ExceptSeq DEF TypeOK
  <2> QED
    BY <1>1, <1>2, <2>1, <2>2 DEF TypeOK
<1>3. CASE outcomes[i] # NoOutcome
  BY <1>3 DEF InsertOutcome, TypeOK
<1> QED
  BY <1>2, <1>3

\* Recording an outcome and leaving the rest of the evidence alone.
LEMMA OutcomeStep ==
    ASSUME IInv, NEW a \in Acquirers, NEW r \in Runs, RunSound(r),
           acq' = [acq EXCEPT ![a] = r],
           NEW i \in DOMAIN attempts, NEW o \in Outcomes, InsertOutcome(i, o),
           UNCHANGED <<clock, attempts, batches, candles, conflicts, checkpoints, crashes>>
    PROVE  IInv' /\ EvidenceGrows
<1>0. TypeOK /\ RowsSound
  BY DEF IInv
<1>1. TypeOK'
  BY <1>0, InsertOutcomeKeeps DEF TypeOK
<1>2. EvidenceGrows
  BY <1>0, InsertOutcomeKeeps DEF EvidenceGrows
<1>3. RowsSound'
  BY <1>0 DEF RowsSound
<1>4. \A b \in Acquirers : acq'[b] = acq[b] \/ RunSound(acq[b])'
  BY <1>0 DEF RunSound, TypeOK
<1> QED
  BY <1>1, <1>2, <1>3, <1>4, EvidenceStep

LEMMA OutcomeSteps ==
    ASSUME IInv, NEW a \in Acquirers,
           CloseOrphan(a) \/ RecordFailure(a) \/ RecordConflict(a)
    PROVE  IInv' /\ EvidenceGrows
<1> USE DEF At
<1>0. /\ acq[a] \in Runs /\ RunSound(acq[a]) /\ acq \in [Acquirers -> Runs]
      /\ acq[a].batch \in Nat
      /\ clock' = clock /\ crashes' = crashes
      /\ UNCHANGED <<clock, attempts, batches, candles, conflicts, checkpoints, crashes>>
  BY DEF IInv, TypeOK, Runs, CloseOrphan, RecordFailure, RecordConflict
<1>1. CASE CloseOrphan(a)
  <2>1. acq[a].orphan \in DOMAIN attempts
    BY <1>0, <1>1 DEF CloseOrphan, RunSound
  <2>2. [reason |-> Interrupted, batch |-> 0] \in Outcomes
    BY DEF Outcomes, Reasons
  <2> DEFINE r == [acq[a] EXCEPT !.pc = "load"]
  <2>3. r \in Runs /\ RunSound(r)
    BY <1>0, <1>1 DEF Runs, Pcs, RunSound, Working, Persisted, CloseOrphan
  <2>4. acq' = [acq EXCEPT ![a] = r] \/ acq' = [acq EXCEPT ![a] = Idle]
    BY <1>0, <1>1 DEF CloseOrphan, Goto, Return
  <2>5. InsertOutcome(acq[a].orphan, [reason |-> Interrupted, batch |-> 0])
    BY <1>1 DEF CloseOrphan
  <2> QED
    BY <1>0, <2>1, <2>2, <2>3, <2>4, <2>5, OutcomeStep, IdleIsSound
<1>2. CASE RecordFailure(a)
  <2>1. acq[a].attempt \in DOMAIN attempts /\ acq[a].reason \in Failed
    BY <1>0, <1>2 DEF RecordFailure, RunSound, Working
  <2>2. [reason |-> acq[a].reason, batch |-> 0] \in Outcomes
    BY <2>1 DEF Outcomes, Reasons
  <2> QED
    BY <1>0, <1>2, <2>1, <2>2, OutcomeStep, IdleIsSound DEF RecordFailure, Return
<1>3. CASE RecordConflict(a)
  <2>1. acq[a].attempt \in DOMAIN attempts
    BY <1>0, <1>3 DEF RecordConflict, RunSound, Working
  <2>2. [reason |-> "CONFLICT_FAILED", batch |-> acq[a].batch] \in Outcomes
    BY <1>0 DEF Outcomes, Reasons
  <2> QED
    BY <1>0, <1>3, <2>1, <2>2, OutcomeStep, IdleIsSound DEF RecordConflict, Return
<1> QED
  BY <1>1, <1>2, <1>3

LEMMA RecordAttemptStep ==
    ASSUME IInv, NEW a \in Acquirers, RecordAttempt(a)
    PROVE  IInv' /\ EvidenceGrows
<1> DEFINE n == Len(attempts) + 1
           at == [config |-> acq[a].config, started |-> acq[a].now]
           r == [acq[a] EXCEPT !.pc = "fetch", !.attempt = n]
<1>0. /\ acq[a] \in Runs /\ RunSound(acq[a]) /\ acq \in [Acquirers -> Runs]
      /\ acq[a].pc = "record" /\ n \in Nat /\ TypeOK /\ RowsSound
      /\ UNCHANGED <<clock, batches, candles, conflicts, checkpoints, crashes>>
  BY EvidenceDomains DEF IInv, TypeOK, RecordAttempt, At
<1>1. attempts' = Append(attempts, at) /\ outcomes' = Append(outcomes, NoOutcome)
  BY DEF RecordAttempt
<1>2. at \in Attempts /\ NoOutcome \in Outcomes
  BY <1>0 DEF RunSound, Runs, Attempts, Outcomes, NoOutcome
<1>3. /\ attempts' \in Seq(Attempts) /\ Len(attempts') = n
      /\ \A i \in 1 .. Len(attempts) : attempts'[i] = attempts[i]
  BY <1>0, <1>1, <1>2 DEF TypeOK
<1>4. /\ outcomes' \in Seq(Outcomes) /\ Len(outcomes') = n
      /\ \A i \in 1 .. Len(attempts) : outcomes'[i] = outcomes[i]
  BY <1>0, <1>1, <1>2 DEF TypeOK
<1>5. acq' = [acq EXCEPT ![a] = r]
  BY <1>0 DEF RecordAttempt
<1>6. r \in Runs
  BY <1>0 DEF Runs, Pcs
<1>7. TypeOK'
  BY <1>0, <1>3, <1>4, <1>5, <1>6 DEF TypeOK
<1>8. EvidenceGrows
  <2>1. /\ DOMAIN attempts = 1 .. Len(attempts) /\ DOMAIN outcomes = 1 .. Len(attempts)
        /\ DOMAIN attempts' = 1 .. n /\ DOMAIN outcomes' = 1 .. n
    BY <1>0, <1>3, <1>4, EvidenceDomains
  <2>2. 1 .. Len(attempts) \subseteq 1 .. n
    BY <1>0
  <2> QED
    BY <1>0, <1>3, <1>4, <2>1, <2>2 DEF EvidenceGrows
<1>9. RowsSound'
  BY <1>0 DEF RowsSound
<1>10. n \in DOMAIN attempts'
  BY <1>0, <1>3
<1>11. RunSound(acq[a])'
  BY <1>0, <1>5, <1>10 DEF RunSound, Runs, Working, Persisted
<1>12. \A b \in Acquirers : acq'[b] = acq[b] \/ RunSound(acq[b])'
  BY <1>0, <1>5, <1>11
<1> QED
  BY <1>0, <1>7, <1>8, <1>9, <1>12, EvidenceStep

\* The candle transaction of persist_historical_sample: what it inserts are the
\* rows of its own new batch, and without a conflict the window then holds.
LEMMA PersistTransactionKeeps ==
    ASSUME TypeOK, RowsSound, NEW attempt \in Nat, NEW s \in Samples,
           PersistTransaction(attempt, s)
    PROVE  LET n == Len(batches) + 1
           IN /\ batches' \in Seq(Batches)
              /\ Len(batches') = n
              /\ \A b \in DOMAIN batches : batches'[b] = batches[b]
              /\ candles' \in [Times -> Candles]
              /\ \A t \in Times : candles[t] # NoCandle => candles'[t] = candles[t]
              /\ conflicts' \subseteq Conflicts
              /\ conflicts \subseteq conflicts'
              /\ RowsSound'
              /\ batches'[n].attempt = attempt
              /\ batches'[n].valid
              /\ batches'[n].inserted \subseteq Window(s)
              /\ SourceConflicts(candles, s) = {} => Holds(candles', s)
<1> DEFINE n == Len(batches) + 1
           row == BatchOf(attempt, s)
<1>1. /\ Window(s) \subseteq Times
      /\ \A t \in Window(s) : s.value[t] \in Values
      /\ IsFiniteSet(Window(s))
  BY SampleWindow
<1>2. n \in Nat /\ DOMAIN batches = 1 .. Len(batches) /\ DOMAIN candles = Times
  BY EvidenceDomains
<1>3. /\ batches' = Append(batches, row)
      /\ candles' = PersistNative(candles, s, n)
      /\ conflicts' = conflicts \cup ConflictRows(s, n)
  BY DEF PersistTransaction
<1>4. /\ Fresh(candles, s) \subseteq Window(s)
      /\ SourceConflicts(candles, s) \subseteq Window(s)
      /\ InsertedNative(candles, s) \subseteq Window(s)
  BY DEF Fresh, SourceConflicts, InsertedNative
<1>5. row \in Batches
  <2>1. \A T \in SUBSET Window(s) : Cardinality(T) \in Nat
    BY <1>1, FS_Subset, FS_CardinalityType
  <2>2. Cardinality(SourceConflicts(candles, s)) \in Nat
    BY <1>4, <2>1
  <2>3. Cardinality((Window(s) \ Fresh(candles, s)) \ SourceConflicts(candles, s)) \in Nat
    BY <2>1
  <2> QED
    BY <1>1, <1>4, <2>2, <2>3 DEF BatchOf, Batches
<1>6. /\ batches' \in Seq(Batches) /\ Len(batches') = n
      /\ \A b \in DOMAIN batches : batches'[b] = batches[b]
      /\ batches'[n] = row
      /\ DOMAIN batches' = DOMAIN batches \cup {n}
  BY <1>2, <1>3, <1>5 DEF TypeOK
<1>7. /\ \A t \in InsertedNative(candles, s) :
            /\ candles'[t] = [value |-> s.value[t], batch |-> n]
            /\ candles'[t].value = s.value[t] /\ candles'[t].batch = n
      /\ \A t \in Times \ InsertedNative(candles, s) : candles'[t] = candles[t]
  <2>1. ASSUME NEW t \in InsertedNative(candles, s)
        PROVE  candles'[t] = [value |-> s.value[t], batch |-> n]
    BY <1>1, <1>2, <1>3, <1>4, <2>1 DEF PersistNative, Promote, InsertedNative
  <2>2. ASSUME NEW t \in Times \ InsertedNative(candles, s)
        PROVE  candles'[t] = candles[t]
    BY <1>2, <1>3, <2>2 DEF PersistNative, Promote, InsertedNative
  <2> QED
    BY <2>1, <2>2
<1>8. candles' \in [Times -> Candles]
  <2>1. DOMAIN candles' = Times /\ candles' = [t \in Times |-> candles'[t]]
    BY <1>2, <1>3 DEF PersistNative, Promote, TypeOK
  <2>2. ASSUME NEW t \in Times PROVE candles'[t] \in Candles
    <3>1. CASE t \in InsertedNative(candles, s)
      <4>1. s.value[t] \in Values
        BY <1>1, <1>4, <3>1
      <4>2. candles'[t] = [value |-> s.value[t], batch |-> n]
        BY <1>7, <3>1
      <4> HIDE DEF n
      <4> QED
        BY <1>2, <4>1, <4>2 DEF Candles
    <3>2. CASE t \notin InsertedNative(candles, s)
      BY <1>7, <3>2 DEF TypeOK
    <3> QED
      BY <3>1, <3>2
  <2> QED
    BY <2>1, <2>2
<1>9. \A t \in InsertedNative(candles, s) : candles[t] = NoCandle
  BY DEF InsertedNative, Fresh
<1>10. conflicts' \subseteq Conflicts
  <2>1. ConflictRows(s, n) \subseteq Conflicts
    BY <1>1, <1>2, <1>4 DEF ConflictRows, Conflicts, TypeOK, Candles
  <2> QED
    BY <1>3, <2>1 DEF TypeOK
<1>11. RowsSound'
  <2>1. ASSUME NEW t \in Times, candles'[t] # NoCandle
        PROVE  candles'[t].value \in Values /\ candles'[t].batch \in DOMAIN batches'
    <3>1. CASE t \in InsertedNative(candles, s)
      BY <1>1, <1>4, <1>6, <1>7, <3>1
    <3>2. CASE t \notin InsertedNative(candles, s)
      BY <1>6, <1>7, <2>1, <3>2 DEF RowsSound
    <3> QED
      BY <3>1, <3>2
  <2>2. ASSUME NEW b \in DOMAIN batches' PROVE RowsOf(candles', b) = batches'[b].inserted
    <3>0. DOMAIN candles' = Times
      BY <1>8
    <3>1. CASE b = n
      <4>1. \A t \in Times : candles[t].batch # n
        BY <1>2 DEF RowsSound, NoCandle
      <4>2. RowsOf(candles', n) = InsertedNative(candles, s)
        BY <1>1, <1>4, <1>7, <3>0, <4>1 DEF RowsOf
      <4> QED
        BY <1>6, <3>1, <4>2 DEF BatchOf
    <3>2. CASE b # n
      <4>1. b \in DOMAIN batches /\ batches'[b] = batches[b] /\ b \in Nat \ {0}
        BY <1>2, <1>6, <3>2
      <4>2. \A t \in InsertedNative(candles, s) : candles[t].batch # b
        BY <1>9, <4>1 DEF NoCandle
      <4>3. RowsOf(candles', b) = RowsOf(candles, b)
        BY <1>2, <1>7, <3>0, <3>2, <4>2 DEF RowsOf
      <4> QED
        BY <4>1, <4>3 DEF RowsSound
    <3> QED
      BY <3>1, <3>2
  <2> QED
    BY <2>1, <2>2 DEF RowsSound
<1>12. SourceConflicts(candles, s) = {} => Holds(candles', s)
  <2> SUFFICES ASSUME SourceConflicts(candles, s) = {}, NEW t \in Window(s)
               PROVE  candles'[t] # NoCandle /\ candles'[t].value = s.value[t]
    BY DEF Holds
  <2>1. t \in Times /\ s.value[t] # "none"
    BY <1>1, AcquisitionAssumption
  <2>2. CASE t \in Fresh(candles, s)
    <3>1. t \in InsertedNative(candles, s)
      BY <2>2 DEF InsertedNative
    <3> QED
      <4>1. candles'[t].value = s.value[t]
        BY <1>7, <3>1
      <4>2. NoCandle.value = "none"
        BY DEF NoCandle
      <4> QED
        BY <2>1, <4>1, <4>2
  <2>3. CASE t \notin Fresh(candles, s)
    BY <1>7, <2>1, <2>3 DEF InsertedNative, Fresh, SourceConflicts
  <2> QED
    BY <2>2, <2>3
<1>13. /\ batches'[n].attempt = attempt /\ batches'[n].valid
       /\ batches'[n].inserted \subseteq Window(s)
  BY <1>4, <1>6 DEF BatchOf
<1>14. \A t \in Times : candles[t] # NoCandle => candles'[t] = candles[t]
  BY <1>7, <1>9
<1>15. conflicts \subseteq conflicts'
  BY <1>3
<1> QED
  BY <1>6, <1>8, <1>10, <1>11, <1>12, <1>13, <1>14, <1>15

LEMMA PersistSteps ==
    ASSUME IInv, NEW attempt \in Nat, NEW s \in Samples, PersistTransaction(attempt, s),
           UNCHANGED <<clock, attempts, outcomes, checkpoints, crashes>>,
           acq' \in [Acquirers -> Runs],
           \A b \in Acquirers : acq'[b] = acq[b] \/ RunSound(acq[b])'
    PROVE  IInv' /\ EvidenceGrows
<1>0. TypeOK /\ RowsSound
  BY DEF IInv
<1> DEFINE n == Len(batches) + 1
<1>1. /\ batches' \in Seq(Batches)
      /\ Len(batches') = n
      /\ \A b \in DOMAIN batches : batches'[b] = batches[b]
      /\ candles' \in [Times -> Candles]
      /\ \A t \in Times : candles[t] # NoCandle => candles'[t] = candles[t]
      /\ conflicts' \subseteq Conflicts
      /\ conflicts \subseteq conflicts'
      /\ RowsSound'
  BY <1>0, PersistTransactionKeeps
<1>2. TypeOK'
  BY <1>0, <1>1 DEF TypeOK
<1>3. EvidenceGrows
  <2>1. DOMAIN batches = 1 .. Len(batches) /\ DOMAIN batches' = 1 .. n /\ Len(batches) \in Nat
    BY <1>0, <1>1, EvidenceDomains
  <2> QED
    BY <1>1, <2>1 DEF EvidenceGrows
<1> QED
  BY <1>1, <1>2, <1>3, EvidenceStep

LEMMA PersistSampleStep ==
    ASSUME IInv, NEW a \in Acquirers, PersistSample(a)
    PROVE  IInv' /\ EvidenceGrows
<1> DEFINE n == Len(batches) + 1
           s == acq[a].sample
           pc == IF SourceConflicts(candles, s) = {} THEN "readback" ELSE "conflicted"
           r == [acq[a] EXCEPT !.pc = pc, !.batch = n]
<1>0. /\ acq[a] \in Runs /\ RunSound(acq[a]) /\ acq \in [Acquirers -> Runs]
      /\ acq[a].pc = "persist" /\ n \in Nat /\ TypeOK /\ RowsSound
      /\ s \in Samples /\ acq[a].attempt \in Nat
  <2>1. TypeOK /\ RowsSound /\ RunSound(acq[a])
    BY DEF IInv
  <2>2. acq \in [Acquirers -> Runs] /\ acq[a] \in Runs
    BY <2>1 DEF TypeOK
  <2>3. acq[a].pc = "persist"
    BY DEF PersistSample, At
  <2>4. n \in Nat
    BY <2>1, EvidenceDomains
  <2>5. s \in Samples /\ acq[a].attempt \in Nat
    BY <2>2 DEF Runs
  <2> QED
    BY <2>1, <2>2, <2>3, <2>4, <2>5
<1>1. PersistTransaction(acq[a].attempt, s)
  BY DEF PersistSample
<1>2. /\ batches' \in Seq(Batches)
      /\ Len(batches') = n
      /\ batches'[n].attempt = acq[a].attempt
      /\ batches'[n].valid
      /\ batches'[n].inserted \subseteq Window(s)
      /\ SourceConflicts(candles, s) = {} => Holds(candles', s)
  BY <1>0, <1>1, PersistTransactionKeeps
<1>3. n \in DOMAIN batches'
  BY <1>0, <1>2
<1>4. UNCHANGED <<clock, attempts, outcomes, checkpoints, crashes>>
  BY DEF PersistSample
<1>5. r \in Runs
  BY <1>0 DEF Runs, Pcs
<1>6. acq' = [acq EXCEPT ![a] = r]
  BY <1>0 DEF PersistSample
<1>7. RunSound(acq[a])'
  <2>1. CASE SourceConflicts(candles, s) = {}
    <3>1. /\ acq'[a].pc = "readback" /\ acq'[a].batch = n /\ acq'[a].sample = s
          /\ acq'[a].attempt = acq[a].attempt /\ acq'[a].pred = acq[a].pred
          /\ acq'[a].config = acq[a].config /\ acq'[a].now = acq[a].now
      BY <1>0, <1>6, <2>1 DEF Runs
    <3> HIDE DEF s, n
    <3>2. acq[a].attempt \in DOMAIN attempts
      BY <1>0 DEF RunSound, Working
    <3> QED
      BY <1>0, <1>2, <1>3, <1>4, <2>1, <3>1, <3>2 DEF RunSound, Working, Persisted
  <2>2. CASE SourceConflicts(candles, s) # {}
    <3>1. /\ acq'[a].pc = "conflicted" /\ acq'[a].attempt = acq[a].attempt
          /\ acq'[a].pred = acq[a].pred
          /\ acq'[a].config = acq[a].config /\ acq'[a].now = acq[a].now
      BY <1>0, <1>6, <2>2 DEF Runs
    <3> QED
      BY <1>0, <1>4, <3>1 DEF RunSound, Working, Persisted
  <2> QED
    BY <2>1, <2>2
<1>8. acq' \in [Acquirers -> Runs] /\ \A b \in Acquirers : acq'[b] = acq[b] \/ RunSound(acq[b])'
  BY <1>0, <1>5, <1>6, <1>7
<1> QED
  BY <1>0, <1>1, <1>4, <1>8, PersistSteps

LEMMA IngestSteps ==
    ASSUME IInv, IngestDirect \/ IngestInvalid
    PROVE  IInv' /\ EvidenceGrows
<1>0. TypeOK /\ RowsSound
  BY DEF IInv
<1>1. CASE IngestDirect
  <2>1. PICK until \in 1 .. clock : \E s \in ValidWindows(until) : PersistTransaction(NoAttempt, s)
    BY <1>1 DEF IngestDirect
  <2>2. PICK s \in ValidWindows(until) : PersistTransaction(NoAttempt, s)
    BY <2>1
  <2>3. s \in Samples
    <3>1. until \in 0 .. MaxTime
      BY <1>0, AcquisitionAssumption DEF TypeOK
    <3> QED
      BY <3>1, ValidWindowsAreSamples
  <2>4. NoAttempt \in Nat
    BY DEF NoAttempt
  <2> QED
    BY <1>0, <1>1, <2>2, <2>3, <2>4, PersistSteps DEF IngestDirect, TypeOK
<1>2. CASE IngestInvalid
  <2> DEFINE n == Len(batches) + 1
             row == [attempt |-> NoAttempt, valid |-> FALSE, inserted |-> {},
                     reused |-> 0, clashes |-> 0]
  <2>1. row \in Batches
    BY DEF Batches, NoAttempt
  <2>2. batches' = Append(batches, row) /\ n \in Nat /\ DOMAIN batches = 1 .. Len(batches)
    BY <1>0, <1>2, EvidenceDomains DEF IngestInvalid
  <2>3. /\ batches' \in Seq(Batches) /\ Len(batches') = n
        /\ \A b \in DOMAIN batches : batches'[b] = batches[b]
        /\ batches'[n] = row
        /\ DOMAIN batches' = DOMAIN batches \cup {n}
    BY <1>0, <2>1, <2>2 DEF TypeOK
  <2>4. /\ UNCHANGED <<clock, attempts, outcomes, candles, conflicts, checkpoints, acq, crashes>>
    BY <1>2 DEF IngestInvalid
  <2>5. TypeOK'
    BY <1>0, <2>3, <2>4 DEF TypeOK
  <2>6. EvidenceGrows
    BY <2>3, <2>4 DEF EvidenceGrows
  <2>7. RowsSound'
    <3>1. RowsOf(candles, n) = {}
      BY <1>0, <2>2, EvidenceDomains DEF RowsOf, RowsSound, NoCandle
    <3>2. \A b \in DOMAIN batches' : RowsOf(candles, b) = batches'[b].inserted
      <4>1. row.inserted = {}
        OBVIOUS
      <4> HIDE DEF row, n
      <4> QED
        BY <1>0, <2>3, <3>1, <4>1 DEF RowsSound
    <3>3. \A t \in Times : candles[t] # NoCandle =>
            candles[t].value \in Values /\ candles[t].batch \in DOMAIN batches'
      BY <1>0, <2>3 DEF RowsSound
    <3> QED
      BY <2>4, <3>2, <3>3 DEF RowsSound, RowsOf
  <2> QED
    BY <2>4, <2>5, <2>6, <2>7, EvidenceStep
<1> QED
  BY <1>1, <1>2

LEMMA RecordCheckpointStep ==
    ASSUME IInv, NEW a \in Acquirers, RecordCheckpoint(a)
    PROVE  IInv' /\ EvidenceGrows
<1> DEFINE r == acq[a]
           c == CheckpointOf(r)
           o == [reason |-> c.reason, batch |-> c.batch]
           n == Len(checkpoints) + 1
<1>1. /\ TypeOK /\ RowsSound /\ RunSound(r)
      /\ acq \in [Acquirers -> Runs] /\ r \in Runs
      /\ r.pc = "checkpoint"
  BY DEF IInv, TypeOK, RecordCheckpoint, At
<1>2. /\ r.attempt \in DOMAIN attempts /\ r.batch \in DOMAIN batches
      /\ Holds(candles, r.sample)
      /\ batches[r.batch].attempt = r.attempt
      /\ batches[r.batch].valid
      /\ batches[r.batch].inserted \subseteq Window(r.sample)
  BY <1>1 DEF RunSound, Working, Persisted
<1>3. /\ r.attempt \in Nat /\ r.batch \in Nat /\ r.pred \in Nat /\ r.sample \in Samples
      /\ attempts[r.attempt].config \in Configs
      /\ n \in Nat
  <2>1. r.attempt \in Nat /\ r.batch \in Nat /\ r.pred \in Nat /\ r.sample \in Samples
    BY <1>1 DEF Runs
  <2>2. attempts[r.attempt] \in Attempts
    BY <1>1, <1>2 DEF TypeOK
  <2>3. n \in Nat
    BY <1>1, EvidenceDomains
  <2> QED
    BY <2>1, <2>2, <2>3 DEF Attempts
<1>4. /\ c.attempt = r.attempt /\ c.batch = r.batch /\ c.window = r.sample
      /\ c.inserted = Cardinality(batches[r.batch].inserted)
      /\ c.reason = TerminalReason(r.sample, batches[r.batch].inserted)
  BY DEF CheckpointOf
<1>5. c.reason \in Succeeded
  BY <1>4 DEF TerminalReason, Succeeded
<1>6. c \in Checkpoints
  <2>1. IsFiniteSet(Window(r.sample))
    BY <1>3, SampleWindow
  <2>2. /\ Cardinality(Window(r.sample)) \in Nat
        /\ Cardinality(batches[r.batch].inserted) \in Nat
        /\ Cardinality(batches[r.batch].inserted) <= Cardinality(Window(r.sample))
    BY <1>2, <2>1, FS_Subset, FS_CardinalityType
  <2>3. Cardinality(Window(r.sample)) - Cardinality(batches[r.batch].inserted) \in Nat
    BY <2>2
  <2> QED
    BY <1>3, <1>4, <1>5, <2>2, <2>3 DEF CheckpointOf, Checkpoints
<1>7. o \in Outcomes /\ o # NoOutcome
  BY <1>3, <1>4, <1>5 DEF Outcomes, Reasons, Succeeded, NoOutcome
<1>8. /\ InsertOutcome(r.attempt, o)
      /\ checkpoints' = IF outcomes[r.attempt] = NoOutcome
                        THEN Append(checkpoints, c) ELSE checkpoints
      /\ Return(a)
      /\ UNCHANGED <<clock, attempts, batches, candles, conflicts, crashes>>
  BY <1>4 DEF RecordCheckpoint
<1> HIDE DEF c, o
<1>9. CASE outcomes[r.attempt] # NoOutcome
  BY <1>1, <1>2, <1>7, <1>8, <1>9, IdleIsSound, OutcomeStep DEF Return
<1>10. CASE outcomes[r.attempt] = NoOutcome
  <2>1. checkpoints' = Append(checkpoints, c)
    BY <1>8, <1>10
  <2>2. /\ outcomes' \in Seq(Outcomes)
        /\ Len(outcomes') = Len(outcomes)
        /\ outcomes'[r.attempt] = o
        /\ \A j \in DOMAIN outcomes :
             outcomes[j] # NoOutcome => j \in DOMAIN outcomes' /\ outcomes'[j] = outcomes[j]
    BY <1>1, <1>2, <1>7, <1>8, <1>10, InsertOutcomeKeeps
  <2>3. /\ checkpoints' \in Seq(Checkpoints)
        /\ DOMAIN checkpoints' = DOMAIN checkpoints \cup {n}
        /\ \A k \in DOMAIN checkpoints : checkpoints'[k] = checkpoints[k]
        /\ checkpoints'[n] = c
        /\ n = Len(checkpoints')
    BY <1>1, <1>3, <1>6, <2>1 DEF TypeOK
  <2>4. acq' = [acq EXCEPT ![a] = Idle]
    BY <1>8 DEF Return
  <2>5. TypeOK'
    BY <1>1, <1>8, <2>2, <2>3, <2>4, IdleIsSound DEF TypeOK
  <2>6. EvidenceGrows
    BY <1>8, <2>2, <2>3 DEF EvidenceGrows
  <2>7. RowsSound'
    BY <1>1, <1>8 DEF RowsSound
  <2>8. RunSound(acq[a])'
    <3>1. acq'[a] = Idle
      BY <1>1, <2>4
    <3> QED
      BY <2>5, <3>1, EvidenceDomains
         DEF RunSound, Idle, Working, Persisted, NoPredecessor, TypeOK
  <2>9. ASSUME NEW k \in DOMAIN checkpoints' \ DOMAIN checkpoints
        PROVE  CheckpointSound(checkpoints[k])'
    <3>1. /\ c.attempt \in DOMAIN attempts' /\ c.batch \in DOMAIN batches'
          /\ Holds(candles', c.window)
          /\ batches'[c.batch].attempt = c.attempt /\ batches'[c.batch].valid
          /\ Cardinality(batches'[c.batch].inserted) = c.inserted
          /\ outcomes'[c.attempt] = [reason |-> c.reason, batch |-> c.batch]
      BY <1>2, <1>4, <1>8, <2>2 DEF o
    <3>2. checkpoints'[k] = c
      BY <2>3
    <3> QED
      BY <3>1, <3>2 DEF CheckpointSound, BatchEvidenceMatches
  <2>10. \A b \in Acquirers : acq'[b] = acq[b] \/ RunSound(acq[b])'
    BY <1>1, <2>4, <2>8
  <2> QED
    BY <2>3, <2>5, <2>6, <2>7, <2>9, <2>10, EvidenceStep
<1> QED
  BY <1>9, <1>10

LEMMA TickStep ==
    ASSUME IInv, Tick PROVE IInv' /\ EvidenceGrows
<1>1. clock' \in 1 .. MaxTime
  BY AcquisitionAssumption DEF Tick, IInv, TypeOK
<1>2. UNCHANGED <<evidence, acq, crashes>>
  BY DEF Tick
<1>3. TypeOK'
  BY <1>1, <1>2 DEF IInv, TypeOK, evidence
<1>4. EvidenceGrows
  BY <1>2 DEF EvidenceGrows, evidence
<1>5. RowsSound'
  BY <1>2 DEF IInv, RowsSound, evidence
<1>6. \A b \in Acquirers : acq'[b] = acq[b]
  BY <1>2
<1>7. DOMAIN checkpoints' = DOMAIN checkpoints
  BY <1>2 DEF evidence
<1> QED
  BY <1>3, <1>4, <1>5, <1>6, <1>7, EvidenceStep

(***************************************************************************)
(* The theorems                                                            *)
(***************************************************************************)
LEMMA InitIsSound == Init => IInv
<1> SUFFICES ASSUME Init PROVE IInv
  OBVIOUS
<1>1. TypeOK
  BY IdleIsSound, AcquisitionAssumption DEF Init, TypeOK, NoCandle, Candles
<1>2. RowsSound
  BY DEF Init, RowsSound
<1>3. \A a \in Acquirers : RunSound(acq[a])
  BY DEF Init, RunSound, Idle, Working, Persisted, NoPredecessor
<1> QED
  BY <1>1, <1>2, <1>3 DEF IInv, Init

LEMMA StepIsSound ==
    ASSUME IInv, [Next]_vars PROVE IInv' /\ EvidenceGrows
<1>1. CASE UNCHANGED vars
  <2>1. TypeOK' /\ EvidenceGrows /\ RowsSound'
    BY <1>1 DEF IInv, TypeOK, EvidenceGrows, RowsSound, vars
  <2>2. (\A b \in Acquirers : acq'[b] = acq[b]) /\ DOMAIN checkpoints' = DOMAIN checkpoints
    BY <1>1 DEF vars
  <2> QED
    BY <2>1, <2>2, EvidenceStep
<1>2. CASE Tick
  BY <1>2, TickStep
<1>3. CASE IngestDirect \/ IngestInvalid
  BY <1>3, IngestSteps
<1>4. ASSUME NEW a \in Acquirers, Acquire(a) PROVE IInv' /\ EvidenceGrows
  BY <1>4, ResumeSteps, FetchSteps, OutcomeSteps, RecordAttemptStep,
     PersistSampleStep, RecordCheckpointStep DEF Acquire
<1> QED
  BY <1>1, <1>2, <1>3, <1>4 DEF Next

LEMMA InvariantHolds == Spec => []IInv
<1>1. Init => IInv
  BY InitIsSound
<1>2. IInv /\ [Next]_vars => IInv'
  BY StepIsSound
<1> QED
  BY <1>1, <1>2, PTL DEF Spec

\* The tables and the calls' local variables keep their types.
THEOREM TypeCorrect == Spec => []TypeOK
<1>1. IInv => TypeOK
  BY DEF IInv
<1> QED
  BY <1>1, InvariantHolds, PTL

\* No step of any process rewrites or removes acquisition evidence.
THEOREM EvidenceIsAppendOnly == Spec => AppendOnly
<1>1. IInv /\ [Next]_vars => [EvidenceGrows]_vars
  BY StepIsSound
<1> QED
  BY <1>1, InvariantHolds, PTL DEF Spec, AppendOnly

\* A recorded checkpoint passes prepare_resume's checks for ever, however many
\* processes acquire, ingest and crash.
THEOREM CheckpointsAlwaysVerify == Spec => []CheckpointsVerify
<1>1. IInv => CheckpointsVerify
  <2> SUFFICES ASSUME IInv, NEW k \in DOMAIN checkpoints
               PROVE  /\ BatchEvidenceMatches(checkpoints[k])
                      /\ CanonicalEvidenceMatches(checkpoints[k])
    BY DEF CheckpointsVerify
  <2>1. CheckpointSound(checkpoints[k])
    BY DEF IInv
  <2> QED
    BY <2>1 DEF IInv, RowsSound, CheckpointSound, BatchEvidenceMatches,
                CanonicalEvidenceMatches
<1> QED
  BY <1>1, InvariantHolds, PTL

\* The read-back after an undisputed persist always matches the acquired window.
THEOREM ReadBackAlwaysMatches == Spec => []ReadBackMatches
<1>1. IInv => ReadBackMatches
  BY DEF IInv, RunSound, ReadBackMatches, Persisted
<1> QED
  BY <1>1, InvariantHolds, PTL

(***************************************************************************)
(* The refinement of the ledger                                            *)
(***************************************************************************)
LEMMA InitIsLedgerInit == Init => Ledger!Init
<1> SUFFICES ASSUME Init PROVE Ledger!Init
  OBVIOUS
<1>1. candles = [t \in Times |-> NoCandle] /\ batches = << >> /\ conflicts = {}
  BY DEF Init
<1>2. Len(batches) = 0 /\ {c.time : c \in conflicts} = {}
  BY <1>1
<1> QED
  BY <1>1, <1>2 DEF Ledger!Init

\* The candle transaction fills what it found empty if its window met no
\* conflict, and otherwise disputes rows it found filled.
LEMMA PersistTransactionRefines ==
    ASSUME IInv, NEW attempt \in Nat, NEW s \in Samples, PersistTransaction(attempt, s)
    PROVE  Ledger!Next
<1> DEFINE n == Len(batches) + 1
           ts == Fresh(candles, s)
           clash == SourceConflicts(candles, s)
<1>0. TypeOK /\ RowsSound
  BY DEF IInv
<1>1. Len(batches') = n
  BY <1>0, PersistTransactionKeeps
<1>2. /\ candles' = PersistNative(candles, s, n)
      /\ conflicts' = conflicts \cup ConflictRows(s, n)
  BY DEF PersistTransaction
<1>3. DOMAIN candles = Times
  BY <1>0 DEF TypeOK
<1>4. Window(s) \subseteq Times /\ \A t \in Window(s) : s.value[t] \in Values
  BY SampleWindow
<1>5. {c.time : c \in conflicts'} = {c.time : c \in conflicts} \cup clash
  <2> DEFINE row(t) == [time |-> t, batch |-> n, canonical |-> candles[t].value,
                        incoming |-> s.value[t]]
  <2>1. {c.time : c \in ConflictRows(s, n)} = clash
    <3>1. ConflictRows(s, n) = {row(t) : t \in clash}
      BY DEF ConflictRows
    <3>2. \A t \in clash : row(t).time = t
      OBVIOUS
    <3> HIDE DEF row, clash
    <3> QED
      BY <3>1, <3>2
  <2> QED
    BY <1>2, <2>1
<1>6. CASE clash = {}
  <2>1. candles' = [t \in Times |->
                      IF t \in ts THEN [value |-> s.value[t], batch |-> n] ELSE candles[t]]
    BY <1>2, <1>3, <1>6 DEF PersistNative, Promote
  <2>2. ASSUME NEW t \in Times PROVE candles'[t] \in Ledger!Outcomes(t)
    <3>1. t \in ts => candles[t] = NoCandle /\ s.value[t] \in Values
      BY <1>4 DEF Fresh
    <3> QED
      BY <2>1, <3>1 DEF Ledger!Outcomes
  <2>3. candles' = [t \in Times |-> candles'[t]]
    BY <2>1
  <2>4. Ledger!Fill
    BY <1>1, <1>5, <1>6, <2>2, <2>3 DEF Ledger!Fill
  <2> QED
    BY <2>4 DEF Ledger!Next
<1>7. CASE clash # {}
  <2>1. clash \in SUBSET Ledger!Filled
    BY <1>4 DEF Ledger!Filled, SourceConflicts
  <2>2. candles' = candles
    BY <1>2, <1>7 DEF PersistNative
  <2>3. Ledger!Dispute
    BY <1>1, <1>5, <1>7, <2>1, <2>2 DEF Ledger!Dispute
  <2> QED
    BY <2>3 DEF Ledger!Next
<1> QED
  BY <1>6, <1>7

\* Every other step leaves the ledger alone or, if a window failed validation,
\* writes nothing under a number of its own.
LEMMA StepIsLedgerStep ==
    ASSUME IInv, [Next]_vars PROVE [Ledger!Next]_(Ledger!ledgerVars)
<1>0. TypeOK
  BY DEF IInv
<1>1. CASE UNCHANGED <<batches, candles, conflicts>>
  BY <1>1 DEF Ledger!ledgerVars
<1>2. CASE IngestDirect
  <2>1. PICK until \in 1 .. clock : \E s \in ValidWindows(until) : PersistTransaction(NoAttempt, s)
    BY <1>2 DEF IngestDirect
  <2>2. PICK s \in ValidWindows(until) : PersistTransaction(NoAttempt, s)
    BY <2>1
  <2>3. s \in Samples
    <3>1. until \in 0 .. MaxTime
      BY <1>0, AcquisitionAssumption DEF TypeOK
    <3> QED
      BY <3>1, ValidWindowsAreSamples
  <2> QED
    BY <2>2, <2>3, PersistTransactionRefines DEF NoAttempt
<1>3. CASE IngestInvalid
  <2>1. /\ Len(batches') = Len(batches) + 1
        /\ candles' = candles /\ conflicts' = conflicts
    BY <1>0, <1>3 DEF IngestInvalid, TypeOK
  <2>2. DOMAIN candles = Times /\ candles = [t \in Times |-> candles[t]]
    BY <1>0 DEF TypeOK
  <2>3. \A t \in Times : candles'[t] \in Ledger!Outcomes(t)
    BY <2>1 DEF Ledger!Outcomes
  <2>4. Ledger!Fill
    BY <2>1, <2>2, <2>3 DEF Ledger!Fill
  <2> QED
    BY <2>4 DEF Ledger!Next
<1>4. ASSUME NEW a \in Acquirers, PersistSample(a) PROVE Ledger!Next
  <2>1. acq[a].sample \in Samples /\ acq[a].attempt \in Nat
    BY <1>0 DEF TypeOK, Runs
  <2> QED
    BY <1>4, <2>1, PersistTransactionRefines DEF PersistSample
<1>5. CASE Tick \/ UNCHANGED vars
  BY <1>1, <1>5 DEF Tick, evidence, vars
<1>6. ASSUME NEW a \in Acquirers, Acquire(a), ~ PersistSample(a)
      PROVE  UNCHANGED <<batches, candles, conflicts>>
  BY <1>6 DEF Acquire, Start, ScanConflicts, FindIncomplete, CheckOrphanBatch, CloseOrphan,
     LoadCheckpoint, VerifyCheckpoint, RecordAttempt, FetchWindow, FetchFails, PersistFails,
     LateError, ReadBack, RecordFailure, RecordConflict, RecordCheckpoint, Crash, evidence
<1> QED
  BY <1>1, <1>2, <1>3, <1>4, <1>5, <1>6 DEF Next

\* The candle table implements the ledger for every number of processes.
THEOREM StoreImplementsLedger == Spec => ImplementsLedger
<1>1. Init => Ledger!Init
  BY InitIsLedgerInit
<1>2. IInv /\ [Next]_vars => [Ledger!Next]_(Ledger!ledgerVars)
  BY StepIsLedgerStep
<1> QED
  BY <1>1, <1>2, InvariantHolds, PTL DEF Spec, ImplementsLedger, Ledger!Spec

(***************************************************************************)
(* The accounts of the batches and the evidence of conflicts               *)
(***************************************************************************)
\* Conflict evidence names its batch.
ConflictsSound ==
    /\ \A c \in conflicts : c.batch \in DOMAIN batches
    /\ ConflictEvidenceExact

AInv == ConflictsSound /\ BatchCounts

\* The steps that write the candle tables.
LEMMA CandleSteps ==
    ASSUME IInv, [Next]_vars
    PROVE  \/ UNCHANGED <<batches, candles, conflicts>>
           \/ \E attempt \in Nat, s \in Samples : PersistTransaction(attempt, s)
           \/ IngestInvalid
<1>0. TypeOK
  BY DEF IInv
<1>1. CASE IngestDirect
  <2>1. PICK until \in 1 .. clock : \E s \in ValidWindows(until) : PersistTransaction(NoAttempt, s)
    BY <1>1 DEF IngestDirect
  <2>2. PICK s \in ValidWindows(until) : PersistTransaction(NoAttempt, s)
    BY <2>1
  <2>3. until \in 0 .. MaxTime
    BY <1>0, AcquisitionAssumption DEF TypeOK
  <2>4. s \in Samples /\ NoAttempt \in Nat
    BY <2>3, ValidWindowsAreSamples DEF NoAttempt
  <2> QED
    BY <2>2, <2>4
<1>2. ASSUME NEW a \in Acquirers, PersistSample(a)
      PROVE  \E attempt \in Nat, s \in Samples : PersistTransaction(attempt, s)
  <2>1. acq[a].sample \in Samples /\ acq[a].attempt \in Nat
    BY <1>0 DEF TypeOK, Runs
  <2> QED
    BY <1>2, <2>1 DEF PersistSample
<1>3. CASE Tick \/ UNCHANGED vars
  BY <1>3 DEF Tick, evidence, vars
<1>4. ASSUME NEW a \in Acquirers, Acquire(a), ~ PersistSample(a)
      PROVE  UNCHANGED <<batches, candles, conflicts>>
  BY <1>4 DEF Acquire, Start, ScanConflicts, FindIncomplete, CheckOrphanBatch, CloseOrphan,
     LoadCheckpoint, VerifyCheckpoint, RecordAttempt, FetchWindow, FetchFails, PersistFails,
     LateError, ReadBack, RecordFailure, RecordConflict, RecordCheckpoint, Crash, evidence
<1> QED
  BY <1>1, <1>2, <1>3, <1>4 DEF Next

\* One row of evidence for each timestamp in conflict.
LEMMA OneRowPerConflict ==
    ASSUME NEW s \in Samples, NEW b
    PROVE  Cardinality(ConflictRows(s, b)) = Cardinality(SourceConflicts(candles, s))
<1> DEFINE clash == SourceConflicts(candles, s)
           row(t) == [time |-> t, batch |-> b, canonical |-> candles[t].value,
                      incoming |-> s.value[t]]
           f == [t \in clash |-> row(t)]
<1>1. IsFiniteSet(clash)
  BY SampleWindow, FS_Subset DEF SourceConflicts
<1>2. ConflictRows(s, b) = {row(t) : t \in clash}
  BY DEF ConflictRows
<1>3. \A t \in clash : row(t).time = t
  OBVIOUS
<1> HIDE DEF row, clash
<1>4. f \in Bijection(clash, {row(t) : t \in clash})
  BY <1>3 DEF Bijection, Injection, Surjection, IsInjective
<1>5. ExistsBijection(clash, ConflictRows(s, b))
  BY <1>2, <1>4 DEF ExistsBijection
<1> QED
  BY <1>1, <1>5, FS_Bijection DEF clash

LEMMA PersistTransactionAccounts ==
    ASSUME IInv, AInv, NEW attempt \in Nat, NEW s \in Samples, PersistTransaction(attempt, s)
    PROVE  AInv'
<1> DEFINE n == Len(batches) + 1
           clash == SourceConflicts(candles, s)
<1>0. /\ TypeOK /\ RowsSound /\ n \in Nat /\ n \notin DOMAIN batches
      /\ DOMAIN candles = Times /\ IsFiniteSet(clash)
      /\ Window(s) \subseteq Times /\ clash \subseteq Window(s)
  BY EvidenceDomains, SampleWindow, FS_Subset DEF IInv, SourceConflicts
<1>1. /\ RowsSound'
      /\ \A b \in DOMAIN batches : batches'[b] = batches[b]
      /\ \A t \in Times : candles[t] # NoCandle => candles'[t] = candles[t]
  BY <1>0, PersistTransactionKeeps
<1>2. /\ batches' = Append(batches, BatchOf(attempt, s))
      /\ conflicts' = conflicts \cup ConflictRows(s, n)
  BY DEF PersistTransaction
<1>3. DOMAIN batches' = DOMAIN batches \cup {n} /\ batches'[n] = BatchOf(attempt, s)
  <2>1. Len(batches') = n /\ batches' \in Seq(Batches)
    BY <1>0, PersistTransactionKeeps
  <2>2. DOMAIN batches = 1 .. Len(batches) /\ DOMAIN batches' = 1 .. n /\ Len(batches) \in Nat
    BY <1>0, <2>1, EvidenceDomains
  <2> QED
    BY <1>2, <2>2
<1>4. /\ batches'[n].clashes = Cardinality(clash) /\ batches'[n].valid
      /\ clash # {} => batches'[n].inserted = {}
  BY <1>3 DEF BatchOf, InsertedNative
<1>5. \A c \in ConflictRows(s, n) :
        /\ c.batch = n /\ c.time \in clash
        /\ c.canonical = candles[c.time].value /\ c.incoming = s.value[c.time]
  BY DEF ConflictRows
<1>6. ConflictsSound'
  <2>1. \A t \in clash : /\ candles[t] # NoCandle /\ candles'[t] = candles[t]
                         /\ candles[t].value \in Values
                         /\ candles[t].value # s.value[t]
    BY <1>0, <1>1 DEF SourceConflicts, RowsSound
  <2>2. ASSUME NEW c \in conflicts'
        PROVE  /\ c.batch \in DOMAIN batches'
               /\ candles'[c.time].value = c.canonical
               /\ c.canonical \notin {"none", c.incoming}
    <3>1. CASE c \in conflicts
      <4>1. /\ c.time \in Times /\ c.batch \in DOMAIN batches
            /\ candles[c.time].value = c.canonical
            /\ c.canonical \notin {"none", c.incoming}
        BY <1>0, <3>1 DEF TypeOK, Conflicts, AInv, ConflictsSound, ConflictEvidenceExact
      <4>2. candles[c.time] # NoCandle
        BY <4>1 DEF NoCandle
      <4> QED
        BY <1>1, <1>3, <4>1, <4>2
    <3>2. CASE c \in ConflictRows(s, n)
      BY <1>3, <1>5, <2>1, <3>2, AcquisitionAssumption
    <3> QED
      BY <1>2, <3>1, <3>2
  <2> QED
    BY <2>2 DEF ConflictsSound, ConflictEvidenceExact
<1>7. BatchCounts'
  <2> SUFFICES ASSUME NEW b \in DOMAIN batches'
               PROVE  /\ RowsOf(candles', b) = batches'[b].inserted
                      /\ batches'[b].clashes = Cardinality({c \in conflicts' : c.batch = b})
                      /\ batches'[b].clashes > 0 => batches'[b].inserted = {}
                      /\ ~ batches'[b].valid => batches'[b].inserted = {} /\ batches'[b].clashes = 0
    BY DEF BatchCounts
  <2>1. RowsOf(candles', b) = batches'[b].inserted
    BY <1>1 DEF RowsSound
  <2>2. CASE b = n
    <3>1. {c \in conflicts' : c.batch = n} = ConflictRows(s, n)
      BY <1>0, <1>2, <1>5 DEF AInv, ConflictsSound
    <3>2. batches'[n].clashes = Cardinality({c \in conflicts' : c.batch = n})
      BY <1>4, <3>1, OneRowPerConflict
    <3>3. batches'[n].clashes > 0 => batches'[n].inserted = {}
      <4>1. CASE clash = {}
        BY <1>4, <4>1, FS_EmptySet
      <4>2. CASE clash # {}
        BY <1>4, <4>2
      <4> QED
        BY <4>1, <4>2
    <3> QED
      BY <1>4, <2>1, <2>2, <3>2, <3>3
  <2>3. CASE b # n
    <3>1. b \in DOMAIN batches /\ batches'[b] = batches[b]
      BY <1>1, <1>3, <2>3
    <3>2. {c \in conflicts' : c.batch = b} = {c \in conflicts : c.batch = b}
      BY <1>2, <1>5, <2>3
    <3> QED
      BY <2>1, <3>1, <3>2 DEF AInv, BatchCounts
  <2> QED
    BY <2>2, <2>3
<1> QED
  BY <1>6, <1>7 DEF AInv

LEMMA IngestInvalidAccounts ==
    ASSUME IInv, AInv, IngestInvalid
    PROVE  AInv'
<1> DEFINE n == Len(batches) + 1
           row == [attempt |-> NoAttempt, valid |-> FALSE, inserted |-> {},
                   reused |-> 0, clashes |-> 0]
<1>0. TypeOK /\ RowsSound /\ n \in Nat /\ DOMAIN batches = 1 .. Len(batches) /\ Len(batches) \in Nat
      /\ DOMAIN candles = Times
  BY EvidenceDomains DEF IInv
<1>1. batches' = Append(batches, row) /\ UNCHANGED <<candles, conflicts>>
  BY DEF IngestInvalid
<1>2. row \in Batches
  BY DEF Batches, NoAttempt
<1>3. /\ DOMAIN batches' = DOMAIN batches \cup {n} /\ n \notin DOMAIN batches
      /\ \A b \in DOMAIN batches : batches'[b] = batches[b]
      /\ batches'[n] = row
  BY <1>0, <1>1, <1>2 DEF TypeOK
<1>4. ~ row.valid /\ row.inserted = {} /\ row.clashes = 0
  OBVIOUS
<1>5. RowsOf(candles, n) = {}
  BY <1>0 DEF RowsOf, RowsSound, NoCandle
<1>6. {c \in conflicts : c.batch = n} = {}
  BY <1>3 DEF AInv, ConflictsSound
<1> HIDE DEF row, n
<1>7. ConflictsSound'
  BY <1>1, <1>3 DEF AInv, ConflictsSound, ConflictEvidenceExact
<1>8. BatchCounts'
  <2> SUFFICES ASSUME NEW b \in DOMAIN batches'
               PROVE  /\ RowsOf(candles, b) = batches'[b].inserted
                      /\ batches'[b].clashes = Cardinality({c \in conflicts : c.batch = b})
                      /\ batches'[b].clashes > 0 => batches'[b].inserted = {}
                      /\ ~ batches'[b].valid => batches'[b].inserted = {} /\ batches'[b].clashes = 0
    BY <1>1 DEF BatchCounts
  <2>1. CASE b = n
    BY <1>3, <1>4, <1>5, <1>6, <2>1, FS_EmptySet
  <2>2. CASE b # n
    BY <1>3, <2>2 DEF AInv, BatchCounts
  <2> QED
    BY <2>1, <2>2
<1> QED
  BY <1>7, <1>8 DEF AInv

LEMMA AccountsHold == Spec => []AInv
<1>1. Init => AInv
  BY DEF Init, AInv, ConflictsSound, ConflictEvidenceExact, BatchCounts
<1>2. IInv /\ AInv /\ [Next]_vars => AInv'
  <2> SUFFICES ASSUME IInv, AInv, [Next]_vars PROVE AInv'
    OBVIOUS
  <2>1. CASE UNCHANGED <<batches, candles, conflicts>>
    BY <2>1 DEF AInv, ConflictsSound, ConflictEvidenceExact, BatchCounts
  <2> QED
    BY <2>1, CandleSteps, PersistTransactionAccounts, IngestInvalidAccounts
<1> QED
  BY <1>1, <1>2, InvariantHolds, PTL DEF Spec

\* The counts of a batch describe the candle and conflict tables, and the canonical
\* value a conflict copied is still the stored one, whichever writers race
\* (persist_historical_sample, SourceConflict rows of market_data/conflicts).
THEOREM BatchesAlwaysAccount == Spec => []BatchAccounting
<1>1. AInv => BatchAccounting
  BY DEF AInv, ConflictsSound, BatchAccounting
<1> QED
  BY <1>1, AccountsHold, PTL

(***************************************************************************)
(* One acquirer at a time                                                  *)
(***************************************************************************)
SingleAcquirer == \E a : Acquirers = {a}

AttemptConflicts == {c \in conflicts : batches[c.batch].attempt # NoAttempt}

\* What the only run may rely on.
LoneRun(r) ==
    /\ r.pc \in {"orphan", "close"} => r.orphan \in Incomplete
    /\ r.pc = "close" => BatchesOf(r.orphan) = {}
    /\ r.pc \in {"load", "verify", "record"} => Incomplete = {}
    /\ r.pc \in {"scan", "find", "orphan", "close", "load"} => r.pred = 0
    /\ r.pc \in {"verify", "record"} \cup Working =>
        /\ r.pred = Len(checkpoints)
        /\ r.pred # 0 => checkpoints[r.pred].config = r.config
    /\ r.pc \in Working =>
        /\ r.attempt = Len(attempts)
        /\ outcomes[r.attempt] = NoOutcome
        /\ attempts[r.attempt].config = r.config
    /\ r.pc \in {"fetch", "persist"} => BatchesOf(r.attempt) = {}
    /\ r.pc = "fail" /\ ~ LateErrors => BatchesOf(r.attempt) = {}
    /\ r.pc \in Persisted \cup {"conflicted"} => BatchesOf(r.attempt) \subseteq {r.batch}
    /\ r.pc = "conflicted" => r.batch \in DOMAIN batches /\ batches[r.batch].clashes # 0
    /\ AttemptConflicts # {} => r.pc \in {"idle", "scan", "conflicted", "fail"}

\* What the tables say as long as no two runs write them.
LoneTables ==
    /\ Incomplete \subseteq {Len(attempts)}
    /\ \A b \in DOMAIN batches : batches[b].attempt \in 0 .. Len(attempts)
    /\ InterruptedMeansNotPersisted
    /\ CheckpointsFormAChain
    /\ ConflictStopsAcquisition
    /\ ~ LateErrors => StrandedEvidenceIsDetectable

LoneInv == LoneTables /\ \A a \in Acquirers : LoneRun(acq[a])

LEMMA OnlyOne == ASSUME SingleAcquirer, NEW a \in Acquirers PROVE Acquirers = {a}
BY DEF SingleAcquirer

\* A step that leaves the evidence alone has only its run to answer for.
LEMMA LoneLocalStep ==
    ASSUME SingleAcquirer, LoneInv, NEW a \in Acquirers, NEW r, LoneRun(r),
           acq \in [Acquirers -> Runs], acq' = [acq EXCEPT ![a] = r], UNCHANGED evidence
    PROVE  LoneInv'
<1>1. LoneTables'
  BY DEF LoneInv, LoneTables, evidence, Incomplete, InterruptedMeansNotPersisted, BatchesOf,
         CheckpointsFormAChain, ConflictStopsAcquisition, StrandedEvidenceIsDetectable
<1>2. acq'[a] = r
  OBVIOUS
<1>3. LoneRun(acq[a])'
  BY <1>2 DEF LoneRun, evidence, Incomplete, BatchesOf, AttemptConflicts
<1> QED
  BY <1>1, <1>3, OnlyOne DEF LoneInv

LEMMA LoneIdle == LoneInv => LoneRun(Idle)
BY DEF LoneRun, Idle, Working, Persisted

LEMMA LoneLocalSteps ==
    ASSUME SingleAcquirer, IInv, LoneInv, NEW a \in Acquirers,
           \/ Start(a) \/ ScanConflicts(a) \/ FindIncomplete(a) \/ CheckOrphanBatch(a)
           \/ LoadCheckpoint(a) \/ VerifyCheckpoint(a) \/ FetchWindow(a) \/ FetchFails(a)
           \/ PersistFails(a) \/ LateError(a) \/ ReadBack(a) \/ Crash(a)
    PROVE  LoneInv'
<1>0. /\ acq \in [Acquirers -> Runs] /\ acq[a] \in Runs /\ LoneRun(acq[a])
      /\ RunSound(acq[a]) /\ TypeOK /\ LoneRun(Idle)
  BY LoneIdle DEF IInv, TypeOK, LoneInv
<1>1. UNCHANGED evidence
  BY DEF Start, ScanConflicts, FindIncomplete, CheckOrphanBatch, LoadCheckpoint,
         VerifyCheckpoint, FetchWindow, FetchFails, PersistFails, LateError, ReadBack, Crash
<1>2. ASSUME NEW r, LoneRun(r), acq' = [acq EXCEPT ![a] = r] PROVE LoneInv'
  BY <1>0, <1>1, <1>2, LoneLocalStep
<1>3. Return(a) => LoneInv'
  BY <1>0, <1>2 DEF Return
<1>4. ASSUME NEW pc, Goto(a, pc), LoneRun([acq[a] EXCEPT !.pc = pc]) PROVE LoneInv'
  BY <1>0, <1>2, <1>4 DEF Goto
<1>5. CASE Start(a)
  <2>1. PICK config \in Configs :
          acq' = [acq EXCEPT ![a] = [Idle EXCEPT !.pc = "scan", !.config = config, !.now = clock]]
    BY <1>5 DEF Start
  <2>2. LoneRun([Idle EXCEPT !.pc = "scan", !.config = config, !.now = clock])
    BY DEF LoneRun, Idle, Working, Persisted, NoPredecessor
  <2> QED
    BY <1>2, <2>1, <2>2
<1>6. CASE ScanConflicts(a)
  <2>1. CASE conflicts # {}
    BY <1>3, <1>6, <2>1 DEF ScanConflicts
  <2>2. CASE conflicts = {}
    <3>1. LoneRun([acq[a] EXCEPT !.pc = "find"])
      BY <1>0, <1>6, <2>2 DEF ScanConflicts, At, LoneRun, Runs, Working, Persisted, AttemptConflicts
    <3> QED
      BY <1>4, <1>6, <2>2, <3>1 DEF ScanConflicts
  <2> QED
    BY <2>1, <2>2
<1>7. CASE FindIncomplete(a)
  <2>1. CASE Incomplete = {} /\ Goto(a, "load")
    <3>1. LoneRun([acq[a] EXCEPT !.pc = "load"])
      BY <1>0, <1>7, <2>1 DEF FindIncomplete, At, LoneRun, Runs, Working, Persisted
    <3> QED
      BY <1>4, <2>1, <3>1
  <2>2. CASE \E i \in Incomplete : acq' = [acq EXCEPT ![a].pc = "orphan", ![a].orphan = i]
    <3>1. PICK i \in Incomplete : acq' = [acq EXCEPT ![a].pc = "orphan", ![a].orphan = i]
      BY <2>2
    <3> DEFINE r == [acq[a] EXCEPT !.pc = "orphan", !.orphan = i]
    <3>2. LoneRun(r)
      BY <1>0, <1>7 DEF FindIncomplete, At, LoneRun, Runs, Working, Persisted
    <3>3. acq' = [acq EXCEPT ![a] = r]
      BY <1>0, <3>1
    <3> QED
      BY <1>2, <3>2, <3>3
  <2> QED
    BY <1>7, <2>1, <2>2 DEF FindIncomplete
<1>8. CASE CheckOrphanBatch(a)
  <2>1. CASE BatchesOf(acq[a].orphan) # {}
    BY <1>3, <1>8, <2>1 DEF CheckOrphanBatch
  <2>2. CASE BatchesOf(acq[a].orphan) = {}
    <3>1. LoneRun([acq[a] EXCEPT !.pc = "close"])
      BY <1>0, <1>8, <2>2 DEF CheckOrphanBatch, At, LoneRun, Runs, Working, Persisted
    <3> QED
      BY <1>4, <1>8, <2>2, <3>1 DEF CheckOrphanBatch
  <2> QED
    BY <2>1, <2>2
<1>9. CASE LoadCheckpoint(a)
  <2> DEFINE last == Len(checkpoints)
             c == checkpoints[last]
             r == [acq[a] EXCEPT !.pc = "verify", !.pred = last]
  <2>1. CASE last = 0
    <3>1. LoneRun([acq[a] EXCEPT !.pc = "record"])
      BY <1>0, <1>9, <2>1 DEF LoadCheckpoint, At, LoneRun, Runs, Working, Persisted
    <3> QED
      BY <1>4, <1>9, <2>1, <3>1 DEF LoadCheckpoint
  <2>2. CASE last # 0 /\ Compatible(c, acq[a].config) /\ acq' = [acq EXCEPT ![a].pc = "verify", ![a].pred = last]
    <3>1. LoneRun(r)
      BY <1>0, <1>9, <2>2 DEF LoadCheckpoint, Compatible, At, LoneRun, Runs, Working, Persisted
    <3>2. acq' = [acq EXCEPT ![a] = r]
      BY <1>0, <2>2
    <3> QED
      BY <1>2, <3>1, <3>2
  <2> QED
    BY <1>3, <1>9, <2>1, <2>2 DEF LoadCheckpoint
<1>10. CASE VerifyCheckpoint(a)
  <2>1. LoneRun([acq[a] EXCEPT !.pc = "record"])
    BY <1>0, <1>10 DEF VerifyCheckpoint, At, LoneRun, Runs, Working, Persisted
  <2> QED
    BY <1>3, <1>4, <1>10, <2>1 DEF VerifyCheckpoint
<1>11. CASE FetchWindow(a)
  <2>1. PICK s \in ValidWindows(acq[a].now) : acq' = [acq EXCEPT ![a].pc = "persist", ![a].sample = s]
    BY <1>11 DEF FetchWindow
  <2> DEFINE r == [acq[a] EXCEPT !.pc = "persist", !.sample = s]
  <2>2. LoneRun(r)
    BY <1>0, <1>11 DEF FetchWindow, At, LoneRun, Runs, Working, Persisted
  <2>3. acq' = [acq EXCEPT ![a] = r]
    BY <1>0, <2>1
  <2> QED
    BY <1>2, <2>2, <2>3
<1>12. CASE FetchFails(a) \/ PersistFails(a) \/ LateError(a)
  <2>1. PICK reason : acq' = [acq EXCEPT ![a].pc = "fail", ![a].reason = reason]
    BY <1>12 DEF FetchFails, PersistFails, LateError
  <2> DEFINE r == [acq[a] EXCEPT !.pc = "fail", !.reason = reason]
  <2>2. acq[a].pc \in {"fetch", "persist"} \/ (LateErrors /\ acq[a].pc \in Persisted \cup {"conflicted"})
    <3>1. FetchFails(a) \/ PersistFails(a) => acq[a].pc \in {"fetch", "persist"}
      BY DEF FetchFails, PersistFails, At
    <3>2. LateError(a) => LateErrors /\ acq[a].pc \in {"readback", "conflicted"}
      BY DEF LateError
    <3> QED
      BY <1>12, <3>1, <3>2 DEF Persisted
  <2>3. LoneRun(r)
    BY <1>0, <2>2 DEF LoneRun, Runs, Working, Persisted
  <2>4. acq' = [acq EXCEPT ![a] = r]
    BY <1>0, <2>1
  <2> QED
    BY <1>2, <2>3, <2>4
<1>13. CASE ReadBack(a)
  <2>1. LoneRun([acq[a] EXCEPT !.pc = "checkpoint"])
    BY <1>0, <1>13 DEF ReadBack, At, LoneRun, Runs, Working, Persisted
  <2> QED
    BY <1>3, <1>4, <1>13, <2>1 DEF ReadBack
<1>14. CASE Crash(a)
  BY <1>3, <1>14 DEF Crash
<1> QED
  BY <1>5, <1>6, <1>7, <1>8, <1>9, <1>10, <1>11, <1>12, <1>13, <1>14

LEMMA IncompleteAttempts ==
    TypeOK => /\ \A i \in Incomplete : i \in DOMAIN attempts /\ i \in Nat \ {0}
              /\ \A i \in DOMAIN attempts : i \in Incomplete <=> outcomes[i] = NoOutcome
BY EvidenceDomains DEF Incomplete

\* The outcome of the one open attempt.
LEMMA LoneOutcome ==
    ASSUME IInv, LoneInv, NEW i \in Incomplete, NEW o, o # NoOutcome, InsertOutcome(i, o),
           o.reason = Interrupted => BatchesOf(i) = {},
           ~ LateErrors => \A b \in BatchesOf(i) :
              batches[b].clashes # 0 \/ \E k \in DOMAIN checkpoints' : checkpoints'[k].batch = b,
           UNCHANGED <<attempts, batches, conflicts>>, EvidenceGrows, CheckpointsFormAChain'
    PROVE  LoneTables' /\ Incomplete' = {}
<1>0. /\ TypeOK /\ DOMAIN outcomes = DOMAIN attempts /\ i \in DOMAIN attempts
      /\ outcomes[i] = NoOutcome /\ Incomplete = {i} /\ LoneTables
  BY IncompleteAttempts, EvidenceDomains DEF IInv, LoneInv, LoneTables
<1>1. outcomes' = [outcomes EXCEPT ![i] = o]
  BY <1>0 DEF InsertOutcome
<1>2. /\ DOMAIN outcomes' = DOMAIN outcomes /\ outcomes'[i] = o
      /\ \A j \in DOMAIN outcomes \ {i} : outcomes'[j] = outcomes[j]
  BY <1>0, <1>1
<1>3. Incomplete' = {}
  BY <1>0, <1>2 DEF Incomplete
<1>4. \A j : BatchesOf(j)' = BatchesOf(j)
  BY DEF BatchesOf
<1>5. InterruptedMeansNotPersisted'
  BY <1>0, <1>2, <1>4 DEF LoneTables, InterruptedMeansNotPersisted
<1>6. ASSUME ~ LateErrors PROVE StrandedEvidenceIsDetectable'
  <2> SUFFICES ASSUME NEW b \in DOMAIN batches, batches[b].attempt # NoAttempt,
                      batches[b].clashes = 0, outcomes'[batches[b].attempt] # NoOutcome
               PROVE  \E k \in DOMAIN checkpoints' : checkpoints'[k].batch = b
    BY DEF StrandedEvidenceIsDetectable
  <2>1. CASE batches[b].attempt = i
    BY <1>6, <2>1 DEF BatchesOf
  <2>2. CASE batches[b].attempt # i
    <3>1. batches[b].attempt \in 1 .. Len(attempts)
      BY <1>0 DEF LoneTables, NoAttempt
    <3>2. outcomes[batches[b].attempt] # NoOutcome
      BY <1>0, <1>2, <2>2, <3>1, EvidenceDomains
    <3>3. PICK k \in DOMAIN checkpoints : checkpoints[k].batch = b
      BY <1>0, <1>6, <3>2 DEF LoneTables, StrandedEvidenceIsDetectable
    <3> QED
      BY <3>3 DEF EvidenceGrows
  <2> QED
    BY <2>1, <2>2
<1>7. ConflictStopsAcquisition'
  BY <1>0 DEF LoneTables, ConflictStopsAcquisition
<1> QED
  BY <1>0, <1>3, <1>5, <1>6, <1>7 DEF LoneTables

LEMMA LoneOutcomeSteps ==
    ASSUME SingleAcquirer, IInv, LoneInv, NEW a \in Acquirers,
           CloseOrphan(a) \/ RecordFailure(a) \/ RecordConflict(a)
    PROVE  LoneInv'
<1>0. /\ acq \in [Acquirers -> Runs] /\ acq[a] \in Runs /\ LoneRun(acq[a])
      /\ RunSound(acq[a]) /\ TypeOK /\ LoneTables
  BY DEF IInv, TypeOK, LoneInv
<1>1. /\ UNCHANGED <<attempts, batches, candles, conflicts, checkpoints>> /\ EvidenceGrows
      /\ CheckpointsFormAChain'
  <2>1. UNCHANGED <<attempts, batches, candles, conflicts, checkpoints>>
    BY DEF CloseOrphan, RecordFailure, RecordConflict
  <2> QED
    BY <1>0, <2>1, OutcomeSteps DEF LoneTables, CheckpointsFormAChain
<1>2. CASE CloseOrphan(a)
  <2>1. /\ acq[a].pc = "close" /\ acq[a].orphan \in Incomplete
        /\ BatchesOf(acq[a].orphan) = {} /\ acq[a].pred = 0
        /\ AttemptConflicts = {}
    BY <1>0, <1>2 DEF CloseOrphan, At, LoneRun
  <2> DEFINE o == [reason |-> Interrupted, batch |-> 0]
             r == [acq[a] EXCEPT !.pc = "load"]
  <2>2. o # NoOutcome
    BY DEF NoOutcome, Interrupted
  <2>3. LoneTables' /\ Incomplete' = {}
    BY <1>1, <1>2, <2>1, <2>2, LoneOutcome DEF CloseOrphan
  <2>4. acq' = [acq EXCEPT ![a] = r]
    BY <1>0, <1>2, <2>1 DEF CloseOrphan, Goto, Incomplete
  <2>5. acq'[a].pc = "load" /\ acq'[a].pred = 0
    BY <1>0, <2>1, <2>4 DEF Runs
  <2>6. AttemptConflicts' = {}
    BY <1>1, <2>1 DEF AttemptConflicts
  <2>9. LoneRun(acq[a])'
    BY <2>3, <2>5, <2>6 DEF LoneRun, Working, Persisted
  <2> QED
    BY <2>3, <2>9, OnlyOne DEF LoneInv
<1>3. CASE RecordFailure(a) \/ RecordConflict(a)
  <2> DEFINE i == acq[a].attempt
  <2>1. /\ acq' = [acq EXCEPT ![a] = Idle]
        /\ \/ acq[a].pc = "fail" /\ InsertOutcome(i, [reason |-> acq[a].reason, batch |-> 0])
           \/ acq[a].pc = "conflicted"
              /\ InsertOutcome(i, [reason |-> "CONFLICT_FAILED", batch |-> acq[a].batch])
    BY <1>3 DEF RecordFailure, RecordConflict, At, Return
  <2>2. i \in Incomplete
    BY <1>0, <2>1, IncompleteAttempts DEF LoneRun, RunSound, Working
  <2>3. LoneTables' /\ Incomplete' = {}
    <3>1. CASE acq[a].pc = "fail" /\ InsertOutcome(i, [reason |-> acq[a].reason, batch |-> 0])
      <4> DEFINE o == [reason |-> acq[a].reason, batch |-> 0]
      <4>1. o # NoOutcome /\ o.reason # Interrupted
        BY <1>0, <3>1 DEF RunSound, Failed, NoOutcome, Interrupted
      <4>2. ~ LateErrors => BatchesOf(i) = {}
        BY <1>0, <3>1 DEF LoneRun
      <4> QED
        BY <1>1, <2>2, <3>1, <4>1, <4>2, LoneOutcome
    <3>2. CASE acq[a].pc = "conflicted"
               /\ InsertOutcome(i, [reason |-> "CONFLICT_FAILED", batch |-> acq[a].batch])
      <4> DEFINE o == [reason |-> "CONFLICT_FAILED", batch |-> acq[a].batch]
      <4>1. o # NoOutcome /\ o.reason # Interrupted
        BY DEF NoOutcome, Interrupted
      <4>2. \A b \in BatchesOf(i) : batches[b].clashes # 0
        BY <1>0, <3>2 DEF LoneRun
      <4> QED
        BY <1>1, <2>2, <3>2, <4>1, <4>2, LoneOutcome
    <3> QED
      BY <2>1, <3>1, <3>2
  <2>4. LoneRun(acq[a])'
    BY <1>0, <2>1 DEF LoneRun, Idle, Working, Persisted
  <2> QED
    BY <2>3, <2>4, OnlyOne DEF LoneInv
<1> QED
  BY <1>2, <1>3

LEMMA LoneCheckpointStep ==
    ASSUME SingleAcquirer, IInv, LoneInv, NEW a \in Acquirers, RecordCheckpoint(a)
    PROVE  LoneInv'
<1> DEFINE r == acq[a]
           c == CheckpointOf(r)
           o == [reason |-> c.reason, batch |-> c.batch]
           n == Len(checkpoints) + 1
<1>0. /\ acq \in [Acquirers -> Runs] /\ r \in Runs /\ LoneRun(r) /\ RunSound(r)
      /\ TypeOK /\ LoneTables /\ r.pc = "checkpoint"
  BY DEF IInv, TypeOK, LoneInv, RecordCheckpoint, At
<1>1. /\ c.attempt = r.attempt /\ c.batch = r.batch /\ c.pred = r.pred
      /\ c.config = attempts[r.attempt].config
      /\ c.reason \in Succeeded
  BY DEF CheckpointOf, TerminalReason, Succeeded
<1>2. /\ r.attempt \in Incomplete /\ outcomes[r.attempt] = NoOutcome
      /\ r.pred = Len(checkpoints)
      /\ r.pred # 0 => checkpoints[r.pred].config = r.config
      /\ attempts[r.attempt].config = r.config
      /\ BatchesOf(r.attempt) \subseteq {r.batch}
  BY <1>0, IncompleteAttempts DEF LoneRun, RunSound, Working, Persisted
<1>3. EvidenceGrows
  BY RecordCheckpointStep
<1>4. /\ InsertOutcome(r.attempt, o) /\ checkpoints' = Append(checkpoints, c)
      /\ acq' = [acq EXCEPT ![a] = Idle]
      /\ UNCHANGED <<attempts, batches, candles, conflicts>>
  BY <1>1, <1>2 DEF RecordCheckpoint, Return
<1>5. o # NoOutcome /\ o.reason # Interrupted
  BY <1>1 DEF NoOutcome, Succeeded, Interrupted
<1> HIDE DEF c, o
<1>6. /\ DOMAIN checkpoints' = DOMAIN checkpoints \cup {n} /\ checkpoints'[n] = c
      /\ n \in Nat \ {0} /\ DOMAIN checkpoints = 1 .. Len(checkpoints)
      /\ \A k \in DOMAIN checkpoints : checkpoints'[k] = checkpoints[k]
  <2>1. DOMAIN checkpoints = 1 .. Len(checkpoints) /\ Len(checkpoints) \in Nat
    BY <1>0, EvidenceDomains
  <2> QED
    BY <1>4, <2>1
<1>7. CheckpointsFormAChain'
  <2>1. n = Len(checkpoints) + 1
    OBVIOUS
  <2> HIDE DEF n
  <2>2. c.pred = n - 1
    BY <1>1, <1>2, <1>6, <2>1, EvidenceDomains, <1>0
  <2>3. c.config = checkpoints'[1].config
    <3>1. CASE Len(checkpoints) = 0
      BY <1>6, <2>1, <3>1
    <3>2. CASE Len(checkpoints) # 0
      <4>1. 1 \in DOMAIN checkpoints /\ Len(checkpoints) \in DOMAIN checkpoints
        BY <1>0, <3>2, EvidenceDomains
      <4>2. checkpoints[Len(checkpoints)].config = checkpoints[1].config
        BY <1>0, <4>1 DEF LoneTables, CheckpointsFormAChain
      <4> QED
        BY <1>1, <1>2, <1>6, <3>2, <4>1, <4>2
    <3> QED
      BY <3>1, <3>2
  <2>4. DOMAIN checkpoints # {} => checkpoints'[1] = checkpoints[1]
    BY <1>6
  <2> QED
    BY <1>0, <1>6, <2>2, <2>3, <2>4 DEF LoneTables, CheckpointsFormAChain
<1>8. \A b \in BatchesOf(r.attempt) : \E k \in DOMAIN checkpoints' : checkpoints'[k].batch = b
  BY <1>1, <1>2, <1>6
<1>9. LoneTables'
  BY <1>2, <1>3, <1>4, <1>5, <1>7, <1>8, LoneOutcome
<1>10. LoneRun(acq[a])'
  BY <1>0, <1>4 DEF LoneRun, Idle, Working, Persisted
<1> QED
  BY <1>9, <1>10, OnlyOne DEF LoneInv

LEMMA LoneAttemptStep ==
    ASSUME SingleAcquirer, IInv, LoneInv, NEW a \in Acquirers, RecordAttempt(a)
    PROVE  LoneInv'
<1> DEFINE n == Len(attempts) + 1
           at == [config |-> acq[a].config, started |-> acq[a].now]
           r == [acq[a] EXCEPT !.pc = "fetch", !.attempt = n]
<1>0. /\ acq \in [Acquirers -> Runs] /\ acq[a] \in Runs /\ LoneRun(acq[a]) /\ TypeOK
      /\ LoneTables /\ acq[a].pc = "record"
  BY DEF IInv, TypeOK, LoneInv, RecordAttempt, At
<1>1. /\ Incomplete = {} /\ AttemptConflicts = {} /\ acq[a].pred = Len(checkpoints)
      /\ acq[a].pred # 0 => checkpoints[acq[a].pred].config = acq[a].config
  BY <1>0 DEF LoneRun
<1>2. /\ attempts' = Append(attempts, at) /\ outcomes' = Append(outcomes, NoOutcome)
      /\ acq' = [acq EXCEPT ![a] = r]
      /\ UNCHANGED <<batches, candles, conflicts, checkpoints>>
  BY <1>0 DEF RecordAttempt
<1>3. /\ DOMAIN attempts' = DOMAIN attempts \cup {n} /\ attempts'[n] = at /\ Len(attempts') = n
      /\ DOMAIN outcomes' = DOMAIN outcomes \cup {n} /\ outcomes'[n] = NoOutcome
      /\ \A i \in DOMAIN outcomes : outcomes'[i] = outcomes[i]
      /\ n \in Nat /\ n = Len(attempts) + 1 /\ DOMAIN outcomes = 1 .. Len(attempts)
      /\ Len(attempts) \in Nat
  <2>1. Len(outcomes) = Len(attempts) /\ Len(attempts) \in Nat /\ DOMAIN outcomes = 1 .. Len(attempts)
        /\ DOMAIN attempts = 1 .. Len(attempts)
    BY <1>0, EvidenceDomains DEF TypeOK
  <2> QED
    BY <1>2, <2>1
<1>4. at.config = acq[a].config
  OBVIOUS
<1> HIDE DEF n, at
<1>5. Incomplete' = {n}
  BY <1>1, <1>3 DEF Incomplete
<1>6. \A i : BatchesOf(i)' = BatchesOf(i)
  BY <1>2 DEF BatchesOf
<1>7. BatchesOf(n) = {}
  BY <1>0, <1>3 DEF BatchesOf, LoneTables
<1>8. LoneTables'
  <2>1. \A b \in DOMAIN batches' : batches'[b].attempt \in 0 .. Len(attempts')
    BY <1>0, <1>2, <1>3 DEF LoneTables
  <2>2. InterruptedMeansNotPersisted'
    BY <1>0, <1>3, <1>6, <1>7 DEF LoneTables, InterruptedMeansNotPersisted
  <2>3. CheckpointsFormAChain'
    BY <1>0, <1>2 DEF LoneTables, CheckpointsFormAChain
  <2>4. ConflictStopsAcquisition'
    BY <1>1, <1>2 DEF ConflictStopsAcquisition, AttemptConflicts
  <2>5. ASSUME ~ LateErrors PROVE StrandedEvidenceIsDetectable'
    <3> SUFFICES ASSUME NEW b \in DOMAIN batches, batches[b].attempt # NoAttempt,
                        batches[b].clashes = 0
                 PROVE  \/ \E k \in DOMAIN checkpoints : checkpoints[k].batch = b
                        \/ outcomes'[batches[b].attempt] = NoOutcome
      BY <1>2 DEF StrandedEvidenceIsDetectable
    <3>1. batches[b].attempt \in DOMAIN outcomes
      BY <1>0, <1>3 DEF LoneTables, NoAttempt
    <3> QED
      BY <1>0, <1>3, <2>5, <3>1 DEF LoneTables, StrandedEvidenceIsDetectable
  <2> QED
    BY <1>3, <1>5, <2>1, <2>2, <2>3, <2>4, <2>5 DEF LoneTables
<1>9. LoneRun(acq[a])'
  <2>1. /\ acq'[a].pc = "fetch" /\ acq'[a].attempt = n
        /\ acq'[a].pred = acq[a].pred /\ acq'[a].config = acq[a].config
    BY <1>0, <1>2 DEF Runs
  <2>2. AttemptConflicts' = {} /\ checkpoints' = checkpoints
    BY <1>1, <1>2 DEF AttemptConflicts
  <2>4. BatchesOf(acq[a].attempt)' = {}
    BY <1>0, <1>2, <1>3, <2>1 DEF BatchesOf, LoneTables
  <2> QED
    BY <1>1, <1>3, <1>4, <2>1, <2>2, <2>4 DEF LoneRun, Working, Persisted
<1> QED
  BY <1>8, <1>9, OnlyOne DEF LoneInv

\* A batch of the ingestion endpoint belongs to no attempt.
LEMMA LoneDirectBatch ==
    ASSUME SingleAcquirer, IInv, AInv, LoneInv, NEW row, NEW rows,
           row.attempt = NoAttempt, batches' = Append(batches, row),
           conflicts' = conflicts \cup rows, \A c \in rows : c.batch = Len(batches) + 1,
           UNCHANGED <<attempts, outcomes, checkpoints, acq>>
    PROVE  LoneInv'
<1> DEFINE n == Len(batches) + 1
<1>0. /\ TypeOK /\ LoneTables /\ \A a \in Acquirers : LoneRun(acq[a]) /\ acq[a] \in Runs
      /\ \A a \in Acquirers : RunSound(acq[a])
  BY DEF LoneInv, IInv, TypeOK
<1>1. /\ DOMAIN batches' = DOMAIN batches \cup {n} /\ n \notin DOMAIN batches
      /\ \A b \in DOMAIN batches : batches'[b] = batches[b]
      /\ batches'[n] = row
  <2>1. DOMAIN batches = 1 .. Len(batches) /\ Len(batches) \in Nat
    BY <1>0, EvidenceDomains
  <2> QED
    BY <2>1
<1>2. Incomplete' = Incomplete
  BY DEF Incomplete
<1>3. \A i : i # NoAttempt => BatchesOf(i)' = BatchesOf(i)
  BY <1>1 DEF BatchesOf
<1>4. \A c \in conflicts : c.batch \in DOMAIN batches
  BY DEF AInv, ConflictsSound
<1>5. AttemptConflicts' = AttemptConflicts
  BY <1>1, <1>4 DEF AttemptConflicts
<1>6. LoneTables'
  <2>1. \A b \in DOMAIN batches' : batches'[b].attempt \in 0 .. Len(attempts')
    BY <1>0, <1>1, EvidenceDomains DEF LoneTables, NoAttempt
  <2>2. InterruptedMeansNotPersisted'
    <3>1. \A i \in DOMAIN outcomes : i # NoAttempt
      BY <1>0, EvidenceDomains DEF NoAttempt
    <3> QED
      BY <1>0, <1>3, <3>1 DEF LoneTables, InterruptedMeansNotPersisted
  <2>3. CheckpointsFormAChain'
    BY <1>0 DEF LoneTables, CheckpointsFormAChain
  <2>4. ConflictStopsAcquisition'
    BY <1>0, <1>1, <1>4 DEF LoneTables, ConflictStopsAcquisition
  <2>5. ~ LateErrors => StrandedEvidenceIsDetectable'
    BY <1>0, <1>1 DEF LoneTables, StrandedEvidenceIsDetectable
  <2> QED
    BY <1>0, <1>2, <2>1, <2>2, <2>3, <2>4, <2>5 DEF LoneTables
<1>7. ASSUME NEW a \in Acquirers PROVE LoneRun(acq[a])'
  <2>1. /\ acq[a].pc \in {"orphan", "close"} => acq[a].orphan # NoAttempt
        /\ acq[a].pc \in Working => acq[a].attempt # NoAttempt
    BY <1>0, EvidenceDomains DEF RunSound, NoAttempt
  <2> QED
    BY <1>0, <1>1, <1>2, <1>3, <1>5, <2>1 DEF LoneRun, Working, Persisted
<1> QED
  BY <1>6, <1>7 DEF LoneInv

LEMMA LoneIngestSteps ==
    ASSUME SingleAcquirer, IInv, AInv, LoneInv, IngestDirect \/ IngestInvalid
    PROVE  LoneInv'
<1>1. CASE IngestDirect
  <2>1. PICK until \in 1 .. clock : \E s \in ValidWindows(until) : PersistTransaction(NoAttempt, s)
    BY <1>1 DEF IngestDirect
  <2>2. PICK s \in ValidWindows(until) : PersistTransaction(NoAttempt, s)
    BY <2>1
  <2> DEFINE row == BatchOf(NoAttempt, s)
             rows == ConflictRows(s, Len(batches) + 1)
  <2>3. /\ row.attempt = NoAttempt
        /\ \A c \in rows : c.batch = Len(batches) + 1
    BY DEF BatchOf, ConflictRows
  <2>4. /\ batches' = Append(batches, row) /\ conflicts' = conflicts \cup rows
        /\ UNCHANGED <<attempts, outcomes, checkpoints, acq>>
    BY <1>1, <2>2 DEF PersistTransaction, IngestDirect
  <2> HIDE DEF row, rows
  <2> QED
    BY <2>3, <2>4, LoneDirectBatch
<1>2. CASE IngestInvalid
  <2> DEFINE row == [attempt |-> NoAttempt, valid |-> FALSE, inserted |-> {},
                     reused |-> 0, clashes |-> 0]
  <2>1. row.attempt = NoAttempt
    OBVIOUS
  <2>2. /\ batches' = Append(batches, row) /\ conflicts' = conflicts \cup {}
        /\ UNCHANGED <<attempts, outcomes, checkpoints, acq>>
    BY <1>2 DEF IngestInvalid
  <2> HIDE DEF row
  <2> QED
    BY <2>1, <2>2, LoneDirectBatch
<1> QED
  BY <1>1, <1>2

LEMMA LonePersistStep ==
    ASSUME SingleAcquirer, IInv, AInv, LoneInv, NEW a \in Acquirers, PersistSample(a)
    PROVE  LoneInv'
<1> DEFINE n == Len(batches) + 1
           r == acq[a]
           s == r.sample
           clash == SourceConflicts(candles, s)
           row == BatchOf(r.attempt, s)
           rows == ConflictRows(s, n)
<1>0. /\ TypeOK /\ LoneTables /\ LoneRun(r) /\ r \in Runs /\ RunSound(r)
      /\ acq \in [Acquirers -> Runs] /\ r.pc = "persist"
      /\ s \in Samples /\ r.attempt \in Nat
  BY DEF LoneInv, IInv, TypeOK, Runs, PersistSample, At
<1>1. /\ r.attempt = Len(attempts) /\ r.attempt \in DOMAIN outcomes
      /\ outcomes[r.attempt] = NoOutcome /\ r.attempt # NoAttempt
      /\ BatchesOf(r.attempt) = {} /\ AttemptConflicts = {}
      /\ r.pred = Len(checkpoints)
      /\ r.pred # 0 => checkpoints[r.pred].config = r.config
      /\ attempts[r.attempt].config = r.config
  BY <1>0, EvidenceDomains DEF LoneRun, RunSound, Working, NoAttempt
<1>2. /\ batches' = Append(batches, row) /\ conflicts' = conflicts \cup rows
      /\ UNCHANGED <<attempts, outcomes, checkpoints>>
  BY DEF PersistSample, PersistTransaction
<1>3. /\ acq'[a].pc = (IF clash = {} THEN "readback" ELSE "conflicted")
      /\ acq'[a].batch = n /\ acq'[a].attempt = r.attempt
      /\ acq'[a].pred = r.pred /\ acq'[a].config = r.config
  BY <1>0 DEF PersistSample, Runs
<1>4. /\ DOMAIN batches' = DOMAIN batches \cup {n} /\ n \notin DOMAIN batches
      /\ \A b \in DOMAIN batches : batches'[b] = batches[b]
      /\ batches'[n] = row
  <2>1. DOMAIN batches = 1 .. Len(batches) /\ Len(batches) \in Nat
    BY <1>0, EvidenceDomains
  <2> QED
    BY <1>2, <2>1
<1>5. /\ row.attempt = r.attempt /\ row.clashes = Cardinality(clash)
      /\ \A c \in rows : c.batch = n
      /\ clash = {} => rows = {}
  BY DEF BatchOf, ConflictRows
<1>6. clash # {} => row.clashes # 0
  <2>1. IsFiniteSet(clash)
    BY <1>0, SampleWindow, FS_Subset DEF SourceConflicts
  <2> HIDE DEF clash
  <2> QED
    BY <1>5, <2>1, FS_EmptySet
<1>7. \A c \in conflicts : c.batch \in DOMAIN batches
  BY DEF AInv, ConflictsSound
<1> HIDE DEF row, rows, clash, n
<1>8. /\ Incomplete' = Incomplete
      /\ \A i : i # r.attempt => BatchesOf(i)' = BatchesOf(i)
      /\ BatchesOf(acq[a].attempt)' = {n}
  BY <1>1, <1>2, <1>3, <1>4, <1>5 DEF Incomplete, BatchesOf
<1>9. LoneTables'
  <2>1. \A b \in DOMAIN batches' : batches'[b].attempt \in 0 .. Len(attempts')
    BY <1>0, <1>1, <1>2, <1>4, <1>5, EvidenceDomains DEF LoneTables
  <2>2. InterruptedMeansNotPersisted'
    BY <1>0, <1>1, <1>2, <1>8 DEF LoneTables, InterruptedMeansNotPersisted, NoOutcome, Interrupted
  <2>3. CheckpointsFormAChain'
    BY <1>0, <1>2 DEF LoneTables, CheckpointsFormAChain
  <2>4. ConflictStopsAcquisition'
    BY <1>1, <1>2, <1>4, <1>5, <1>7 DEF ConflictStopsAcquisition, AttemptConflicts
  <2>5. ~ LateErrors => StrandedEvidenceIsDetectable'
    BY <1>0, <1>1, <1>2, <1>4, <1>5 DEF LoneTables, StrandedEvidenceIsDetectable
  <2> QED
    BY <1>0, <1>2, <1>8, <2>1, <2>2, <2>3, <2>4, <2>5 DEF LoneTables
<1>10. clash = {} => AttemptConflicts' = {}
  BY <1>1, <1>2, <1>4, <1>5, <1>7 DEF AttemptConflicts
<1>11. LoneRun(acq[a])'
  BY <1>1, <1>2, <1>3, <1>4, <1>6, <1>8, <1>10 DEF LoneRun, Working, Persisted
<1> QED
  BY <1>9, <1>11, OnlyOne DEF LoneInv

LEMMA LoneStep ==
    ASSUME SingleAcquirer, IInv, AInv, LoneInv, [Next]_vars PROVE LoneInv'
<1>0. acq \in [Acquirers -> Runs]
  BY DEF IInv, TypeOK
<1>1. CASE Tick \/ UNCHANGED vars
  <2>1. PICK a : Acquirers = {a}
    BY DEF SingleAcquirer
  <2>2. UNCHANGED <<evidence, acq>>
    BY <1>1 DEF Tick, vars, evidence
  <2>3. acq' = [acq EXCEPT ![a] = acq[a]]
    BY <1>0, <2>2
  <2> QED
    BY <1>0, <2>1, <2>2, <2>3, LoneLocalStep DEF LoneInv
<1>2. CASE IngestDirect \/ IngestInvalid
  BY <1>2, LoneIngestSteps
<1>3. ASSUME NEW a \in Acquirers, Acquire(a) PROVE LoneInv'
  BY <1>3, LoneLocalSteps, LoneOutcomeSteps, LoneAttemptStep, LonePersistStep,
     LoneCheckpointStep DEF Acquire
<1> QED
  BY <1>1, <1>2, <1>3 DEF Next

LEMMA LoneInvariant == ASSUME SingleAcquirer PROVE Spec => []LoneInv
<1>1. Init => LoneInv
  <2>1. Init => LoneTables
    BY DEF Init, LoneTables, Incomplete, InterruptedMeansNotPersisted, CheckpointsFormAChain,
           ConflictStopsAcquisition, StrandedEvidenceIsDetectable
  <2>2. ASSUME Init PROVE \A a \in Acquirers : LoneRun(acq[a])
    BY <2>2 DEF Init, LoneRun, Idle, Working, Persisted
  <2> QED
    BY <2>1, <2>2 DEF LoneInv
<1>2. IInv /\ AInv /\ LoneInv /\ [Next]_vars => LoneInv'
  BY LoneStep
<1> QED
  BY <1>1, <1>2, InvariantHolds, AccountsHold, PTL DEF Spec

\* When a run of the only acquirer goes on to record its attempt, no earlier
\* one is open, although prepare_resume looks at the oldest only.
THEOREM OrphansAreAlwaysClosed == SingleAcquirer => (Spec => []OrphansAreClosed)
<1> SUFFICES ASSUME SingleAcquirer PROVE Spec => []OrphansAreClosed
  OBVIOUS
<1>1. LoneInv => OrphansAreClosed
  BY DEF LoneInv, LoneTables, LoneRun, OrphansAreClosed
<1> QED
  BY <1>1, LoneInvariant, PTL

\* INTERRUPTED_BEFORE_PERSISTENCE is recorded of attempts without a batch only,
\* and none gets one later.
THEOREM InterruptedNeverPersisted == SingleAcquirer => (Spec => []InterruptedMeansNotPersisted)
<1> SUFFICES ASSUME SingleAcquirer PROVE Spec => []InterruptedMeansNotPersisted
  OBVIOUS
<1>1. LoneInv => InterruptedMeansNotPersisted
  BY DEF LoneInv, LoneTables
<1> QED
  BY <1>1, LoneInvariant, PTL

\* Each checkpoint extends the one before it, with one code version throughout.
THEOREM CheckpointsAlwaysChain == SingleAcquirer => (Spec => []CheckpointsFormAChain)
<1> SUFFICES ASSUME SingleAcquirer PROVE Spec => []CheckpointsFormAChain
  OBVIOUS
<1>1. LoneInv => CheckpointsFormAChain
  BY DEF LoneInv, LoneTables
<1> QED
  BY <1>1, LoneInvariant, PTL

\* The attempt that met a source conflict is the last one, however many windows
\* the ingestion endpoint persists meanwhile.
THEOREM ConflictAlwaysStops == SingleAcquirer => (Spec => []ConflictStopsAcquisition)
<1> SUFFICES ASSUME SingleAcquirer PROVE Spec => []ConflictStopsAcquisition
  OBVIOUS
<1>1. LoneInv => ConflictStopsAcquisition
  BY DEF LoneInv, LoneTables
<1> QED
  BY <1>1, LoneInvariant, PTL

\* If every committed write is acknowledged, an undisputed batch has its
\* checkpoint or leaves its attempt open for the next resumption to find.
THEOREM StrandedEvidenceIsAlwaysDetectable ==
    SingleAcquirer /\ ~ LateErrors => (Spec => []StrandedEvidenceIsDetectable)
<1> SUFFICES ASSUME SingleAcquirer, ~ LateErrors PROVE Spec => []StrandedEvidenceIsDetectable
  OBVIOUS
<1>1. LoneInv => StrandedEvidenceIsDetectable
  BY DEF LoneInv, LoneTables
<1> QED
  BY <1>1, LoneInvariant, PTL
==============================================================================
