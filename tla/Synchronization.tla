---------------------------- MODULE Synchronization ----------------------------
(* Intraday ingestion and multi-timeframe synchronization: the ingestion of   *)
(* the native 5m and 15m windows and of the derived 10m window                *)
(* (ingest_btc_usd_intraday, derive_btc_usd_10m_sample), and the point-in-    *)
(* time snapshot of the three timeframes                                      *)
(* (synchronize_btc_usd_intraday_coverage), which loads and persists the      *)
(* coverage of one timeframe after the other in transactions of their own.    *)
(*                                                                            *)
(* Time is counted in 5m intervals and the candles of a timeframe in its own  *)
(* intervals. A candle row or a snapshot is identified with its content: rows *)
(* are addressed by their unique timestamp, snapshots by their result hash.   *)
(* The differences between 5m and 15m coverage a synchronization reports are  *)
(* a function of its three snapshots and are left out.                        *)
EXTENDS CandleStore, Sequences, FiniteSetsExt

CONSTANTS
    Ingesters,   \* concurrent callers of ingest_btc_usd_intraday
    Syncers,     \* concurrent callers of synchronize_btc_usd_intraday_coverage
    Values,      \* OHLCV evidence a native candle may carry, by timeframe
    Readings(_, _), \* values a valid page may carry, by timeframe and timestamps
    Aggregate,   \* aggregate_btc_usd_10m_candle: evidence of a pair of candles
    Cutoffs,     \* as-of times a synchronization may be asked for
    PageLimit,   \* completed native candles a page holds (KRAKEN_OHLC_PAGE_LIMIT)
    MaxTime,     \* bound on the clock
    MaxIngests,  \* bound on the ingestions that persist something
    MaxSnapshots \* bound on the coverage snapshots before a synchronization starts

ASSUME SynchronizationAssumption ==
    /\ PageLimit \in Nat \ {0} /\ MaxTime \in Nat /\ PageLimit <= MaxTime
    /\ Cutoffs \subseteq Nat
    /\ DOMAIN Values = {5, 15}
    /\ \A tf \in {5, 15} : \A times \in SUBSET (0..MaxTime) :
          Readings(tf, times) \subseteq [times -> Values[tf]]
    /\ DOMAIN Aggregate = Values[5] \X Values[5]

VARIABLES
    clock,        \* completed 5m intervals
    candles,      \* market_data_candles, a store per timeframe
    batches,      \* market_data_ingestion_batches in insertion order
    conflicts,    \* market_data_source_conflicts
    snapshots,    \* historical_coverage_snapshots and their memberships
    derivations,  \* ten_minute_derivations and their source members
    syncs,        \* synchronized_coverage_snapshots
    ingest,       \* each ingester's call: its next transaction and its samples
    sync          \* each syncer's call: its next transaction and its coverage

tables == <<candles, batches, conflicts, snapshots, derivations, syncs>>
vars == <<clock, tables, ingest, sync>>

Frames == {5, 10, 15}
Width(tf) == tf \div 5
Slots(tf) == 0 .. (MaxTime \div Width(tf) - 1)
\* The end of a candle's interval on the clock.
Closes(tf, t) == (t + 1) * Width(tf)
Pair(t) == {2 * t, 2 * t + 1}
Idle == [pc |-> "idle"]

Init ==
    /\ clock = PageLimit
    /\ candles = [tf \in Frames |-> [t \in Slots(tf) |-> NoCandle]]
    /\ batches = << >>
    /\ conflicts = {} /\ snapshots = {} /\ derivations = {} /\ syncs = {}
    /\ ingest = [i \in Ingesters |-> Idle]
    /\ sync = [s \in Syncers |-> Idle]

Tick ==
    /\ clock < MaxTime
    /\ clock' = clock + 1
    /\ UNCHANGED <<tables, ingest, sync>>

-----------------------------------------------------------------------------
(* Ingestion.                                                                 *)

\* A page of a native timeframe: a window that passes validation, contiguous
\* from PageLimit candles ago to the last completed one, or a page that fails it
\* and contributes no candle.
NativeSamples(tf) ==
    LET until == clock \div Width(tf)
        first == Max({until - PageLimit, 0})
        page(valid, v) == [first |-> first, until |-> until, retrieved |-> clock,
                           valid |-> valid, value |-> v]
    IN  {page(FALSE, << >>)} \cup {page(TRUE, v) : v \in Readings(tf, first .. (until - 1))}

\* Mutant: the pair at the start of the window is dropped.
DeriveAfterFirst(s) ==
    LET first == (s.first \div 2) + 1
        until == s.until \div 2
    IN  [s EXCEPT !.first = first, !.until = until,
                  !.value = [t \in first .. (until - 1) |->
                               Aggregate[<<s.value[2 * t], s.value[2 * t + 1]>>]]]

\* derive_btc_usd_10m_sample: every complete pair of the 5m window.
DerivedSample(s) ==
    LET first == (s.first + 1) \div 2
        until == s.until \div 2
    IN  [s EXCEPT !.first = first, !.until = until,
                  !.value = [t \in first .. (until - 1) |->
                               Aggregate[<<s.value[2 * t], s.value[2 * t + 1]>>]]]

\* Mutant: the row inserted last.
LastBatch == Len(batches)
\* The row of this transaction.
NextBatch == Len(batches) + 1

\* persist_historical_sample of one timeframe, in one transaction. Only native
\* windows are compared with the canonical rows.
PersistSample(tf, s, source) ==
    LET b == NextBatch
        store == candles[tf]
        clashes == IF tf = 10 THEN {} ELSE SourceConflicts(store, s)
    IN  /\ batches' = Append(batches, [tf |-> tf, source |-> source, valid |-> s.valid,
                                       first |-> s.first, until |-> s.until,
                                       retrieved |-> s.retrieved])
        /\ candles' = IF ~s.valid THEN candles
                      ELSE [candles EXCEPT ![tf] =
                              IF tf = 10 THEN PersistUnchecked(store, s, b)
                              ELSE PersistNative(store, s, b)]
        /\ conflicts' = IF s.valid THEN conflicts \cup ([tf : {tf}, time : clashes])
                        ELSE conflicts
        /\ UNCHANGED <<clock, snapshots, derivations, syncs, sync>>

FiveMinuteBatches == {b \in DOMAIN batches : batches[b].tf = 5}

FetchFive(i) ==
    /\ ingest[i] = Idle
    /\ Cardinality(FiveMinuteBatches)
         + Cardinality({j \in Ingesters : ingest[j].pc \in {"fetch15m", "5m"}}) < MaxIngests
    /\ \E s \in NativeSamples(5) :
          ingest' = [ingest EXCEPT ![i] = [pc |-> "fetch15m", five |-> s]]
    /\ UNCHANGED <<clock, tables, sync>>

FetchFifteen(i) ==
    /\ ingest[i].pc = "fetch15m"
    /\ \E s \in NativeSamples(15) :
          ingest' = [ingest EXCEPT ![i] = [pc |-> "5m", five |-> @.five, fifteen |-> s]]
    /\ UNCHANGED <<clock, tables, sync>>

PersistFive(i) ==
    /\ ingest[i].pc = "5m"
    /\ PersistSample(5, ingest[i].five, 0)
    /\ ingest' = [ingest EXCEPT ![i] = [pc |-> "15m", five |-> @.five, fifteen |-> @.fifteen,
                                        source |-> Len(batches')]]

\* A failed 5m window raises after the 15m window is persisted.
PersistFifteen(i) ==
    /\ ingest[i].pc = "15m"
    /\ PersistSample(15, ingest[i].fifteen, 0)
    /\ ingest' = [ingest EXCEPT ![i] =
                    IF @.five.valid THEN [pc |-> "10m", five |-> @.five, source |-> @.source]
                    ELSE Idle]

\* The 10m window is derived from the fetched 5m window. A window with no pair
\* is an empty range, which the batch table refuses.
PersistTen(i) ==
    /\ ingest[i].pc = "10m"
    /\ LET s == DerivedSample(ingest[i].five)
       IN  IF s.first < s.until THEN PersistSample(10, s, ingest[i].source)
           ELSE UNCHANGED <<clock, tables, sync>>
    /\ ingest' = [ingest EXCEPT ![i] = Idle]

\* The provider or the database fails, or the process stops.
AbandonIngest(i) ==
    /\ ingest[i] # Idle
    /\ ingest' = [ingest EXCEPT ![i] = Idle]
    /\ UNCHANGED <<clock, tables, sync>>

-----------------------------------------------------------------------------
(* Synchronization.                                                           *)

\* Mutant: everything complete at the cutoff, whenever it was fetched.
CompleteRows(tf, as_of) ==
    [t \in {t \in Slots(tf) : /\ candles[tf][t] # NoCandle
                              /\ Closes(tf, t) <= as_of} |-> candles[tf][t]]

\* The rows load_historical_coverage_snapshot selects at a cutoff: fetched and
\* complete by then.
Available(tf, as_of) ==
    [t \in {t \in Slots(tf) : /\ candles[tf][t] # NoCandle
                              /\ batches[candles[tf][t].batch].retrieved <= as_of
                              /\ Closes(tf, t) <= as_of} |-> candles[tf][t]]

\* unresolved_source_conflicts counts a conflict from the close of its candle.
Unresolved(tf, as_of) ==
    {c \in conflicts : c.tf = tf /\ Closes(tf, c.time) <= as_of}

\* build_derivations_from_coverage raises unless this holds.
Derivable(five, ten) ==
    \A t \in DOMAIN ten :
        /\ Pair(t) \subseteq DOMAIN five
        /\ ten[t].value = Aggregate[<<five[2 * t].value, five[2 * t + 1].value>>]

Derivation(five, ten, t) ==
    LET retrieved(row) == batches[row.batch].retrieved
    IN  [slot |-> t, derived |-> ten[t],
         members |-> <<five[2 * t], five[2 * t + 1]>>,
         available |-> Max({retrieved(five[2 * t]), retrieved(five[2 * t + 1]),
                            retrieved(ten[t]), Closes(10, t)})]

DerivationsOf(cut) == {Derivation(cut[5], cut[10], t) : t \in DOMAIN cut[10]}

\* build_synchronized_coverage_snapshot raises unless this holds.
Synchronizable(as_of, cut) ==
    /\ \A d \in DerivationsOf(cut) : d.available <= as_of
    /\ DOMAIN cut[10] = {t \in Slots(10) : Pair(t) \subseteq DOMAIN cut[5]}

Return(s) == sync' = [sync EXCEPT ![s] = Idle]

StartSync(s) ==
    /\ sync[s] = Idle
    /\ Cardinality(snapshots) < MaxSnapshots
    /\ \E as_of \in Cutoffs \cap 1..clock :
          sync' = [sync EXCEPT ![s] = [pc |-> "load", tf |-> 5, as_of |-> as_of,
                                       cut |-> << >>]]
    /\ UNCHANGED <<clock, tables, ingest>>

\* Source conflicts and an empty selection raise.
LoadCoverage(s) ==
    /\ sync[s].pc = "load"
    /\ LET tf == sync[s].tf
           rows == Available(tf, sync[s].as_of)
       IN  IF Unresolved(tf, sync[s].as_of) # {} \/ DOMAIN rows = {} THEN Return(s)
           ELSE sync' = [sync EXCEPT ![s].pc = "persist",
                                     ![s].cut = [f \in DOMAIN @ \cup {tf} |->
                                                   IF f = tf THEN rows ELSE @[f]]]
    /\ UNCHANGED <<clock, tables, ingest>>

\* Inserted once: an identical snapshot is verified and reused.
PersistCoverage(s) ==
    /\ sync[s].pc = "persist"
    /\ LET tf == sync[s].tf
       IN  /\ snapshots' = snapshots \cup {[tf |-> tf, rows |-> sync[s].cut[tf]]}
           /\ sync' = [sync EXCEPT ![s].pc = IF tf = 15 THEN "derive" ELSE "load",
                                   ![s].tf = IF tf = 15 THEN @ ELSE @ + 5]
    /\ UNCHANGED <<clock, candles, batches, conflicts, derivations, syncs, ingest>>

\* Evidence that differs from a stored derivation of the same candle raises.
PersistDerivations(s) ==
    /\ sync[s].pc = "derive"
    /\ LET cut == sync[s].cut
           built == DerivationsOf(cut)
       IN  IF /\ Derivable(cut[5], cut[10])
              /\ \A d \in derivations, e \in built : d.slot = e.slot => d = e
           THEN /\ derivations' = derivations \cup built
                /\ sync' = [sync EXCEPT ![s].pc = "synchronize"]
           ELSE Return(s) /\ UNCHANGED derivations
    /\ UNCHANGED <<clock, candles, batches, conflicts, snapshots, syncs, ingest>>

PersistSynchronized(s) ==
    /\ sync[s].pc = "synchronize"
    /\ LET as_of == sync[s].as_of
           cut == sync[s].cut
       IN  syncs' = IF Synchronizable(as_of, cut)
                    THEN syncs \cup {[as_of |-> as_of, cut |-> cut]} ELSE syncs
    /\ Return(s)
    /\ UNCHANGED <<clock, candles, batches, conflicts, snapshots, derivations, ingest>>

\* The database fails, a concurrent insert of the same content wins, or the
\* process stops.
AbandonSync(s) ==
    /\ sync[s] # Idle
    /\ Return(s)
    /\ UNCHANGED <<clock, tables, ingest>>

Ingest(i) == \/ FetchFive(i) \/ FetchFifteen(i) \/ PersistFive(i) \/ PersistFifteen(i)
             \/ PersistTen(i) \/ AbandonIngest(i)
Synchronize(s) == \/ StartSync(s) \/ LoadCoverage(s) \/ PersistCoverage(s)
                  \/ PersistDerivations(s) \/ PersistSynchronized(s) \/ AbandonSync(s)

Next == Tick \/ (\E i \in Ingesters : Ingest(i)) \/ (\E s \in Syncers : Synchronize(s))
Spec == Init /\ [][Next]_vars

-----------------------------------------------------------------------------
CandleValues == Values[5] \cup Values[15] \cup {Aggregate[p] : p \in DOMAIN Aggregate}
Rows == [value : CandleValues, batch : Nat \ {0}]
IsCoverage(tf, rows) == DOMAIN rows \subseteq Slots(tf) /\ \A t \in DOMAIN rows : rows[t] \in Rows

\* Every table holds well-formed rows that refer to batches of their timeframe.
TypeOK ==
    /\ clock \in Nat
    /\ \A tf \in Frames : \A t \in Slots(tf) :
          LET row == candles[tf][t]
          IN  row # NoCandle =>
                /\ row \in Rows
                /\ row.batch \in DOMAIN batches
                /\ batches[row.batch].tf = tf /\ batches[row.batch].valid
    /\ \A b \in DOMAIN batches :
          /\ batches[b].tf \in Frames /\ batches[b].retrieved \in 1..clock
          /\ batches[b].source \in 0..(b - 1)
          /\ (batches[b].tf = 10) = (batches[b].source # 0)
    /\ \A c \in conflicts : c.tf \in {5, 15} /\ c.time \in Slots(c.tf)
    /\ \A snap \in snapshots : snap.tf \in Frames /\ IsCoverage(snap.tf, snap.rows)
    /\ \A d \in derivations : d.slot \in Slots(10) /\ d.available \in 1..clock
    /\ \A r \in syncs : r.as_of \in 1..clock /\ \A tf \in Frames : IsCoverage(tf, r.cut[tf])

\* What a persisted synchronization promises: load_persisted_synchronized_
\* coverage_snapshot rebuilds it from the tables as they are now, however many
\* ingestions, conflicts and synchronizations at other cutoffs came between.
SynchronizationsReload ==
    /\ \A snap \in snapshots : \A t \in DOMAIN snap.rows :
          candles[snap.tf][t] = snap.rows[t]
    /\ \A r \in syncs :
          /\ \A tf \in Frames : [tf |-> tf, rows |-> r.cut[tf]] \in snapshots
          /\ Derivable(r.cut[5], r.cut[10])
          /\ DerivationsOf(r.cut) \subseteq derivations
          /\ Synchronizable(r.as_of, r.cut)

\* Evidence an ingestion fetched by a cutoff and has yet to commit.
InFlight(as_of) ==
    \E i \in Ingesters : ingest[i] # Idle /\ ingest[i].five.retrieved <= as_of

\* The evidence available at a past cutoff is settled once no ingestion that
\* fetched by then is in flight: later pages fill gaps of the old window, clash
\* with it and derive from it, and a synchronization of the cutoff repeated at
\* any later time still selects the same rows.
PastCutoffsAreSettled ==
    [][\A as_of \in Cutoffs, tf \in Frames :
          (as_of < clock /\ ~InFlight(as_of)) =>
              Available(tf, as_of)' = Available(tf, as_of)]_vars

\* The 10m candle of a pair is the aggregate of the two canonical 5m candles.
IsAggregate(t) ==
    /\ \A m \in Pair(t) : candles[5][m] # NoCandle
    /\ candles[10][t].value = Aggregate[<<candles[5][2 * t].value, candles[5][2 * t + 1].value>>]

\* As long as no 5m window has met a conflict, every canonical 10m candle is the
\* aggregate of its two canonical 5m members, although it is computed from the
\* window in memory, which other ingesters may have overtaken (the 10m insert
\* compares nothing: persist_historical_sample, the branch of derived frames).
TenMinuteMatchesUnlessConflict ==
    (\A c \in conflicts : c.tf # 5) =>
        \A t \in Slots(10) : candles[10][t] # NoCandle => IsAggregate(t)

\* An ingestion that finished leaves no pair of its window without its 10m
\* candle, so the next complete ingestion repairs what a stopped one left.
FinishedIngestLeavesNoPair ==
    \A b \in DOMAIN batches :
        batches[b].tf = 10 =>
            \A t \in Slots(10) :
                Pair(t) \subseteq batches[batches[b].source].first
                                  .. (batches[batches[b].source].until - 1)
                    => candles[10][t] # NoCandle

\* ALPHALENS_V2_INTRADAY_DATA_ACQUISITION_POLICY.md:736 "A derived `10m` candle
\* is eligible only when:" line 738 "both exact source `5m` members are canonical
\* and verified".
TenMinuteEligible ==
    \A t \in Slots(10) : candles[10][t] # NoCandle => IsAggregate(t)
-----------------------------------------------------------------------------
(* Refinement.                                                                *)

\* The rows of all timeframes, by the columns the table's unique constraint names.
AllSlots == UNION {{tf} \X Slots(tf) : tf \in Frames}

Ledger == INSTANCE CanonicalLedger
          WITH Keys <- AllSlots, Values <- CandleValues, Empty <- NoCandle,
               ledger <- [p \in AllSlots |-> candles[p[1]][p[2]]],
               written <- Len(batches),
               disputed <- {<<c.tf, c.time>> : c \in conflicts}

\* The one table of all timeframes is a ledger too, written by ingesters that
\* compare native windows with it and insert derived ones unseen: a transaction
\* fills empty slots of one timeframe under a number of its own or disputes
\* filled ones, and no row is rewritten (persist_historical_sample).
ImplementsLedger == Ledger!Spec
=============================================================================
