-------------------------- MODULE IntradayFeatures --------------------------
(* The intraday feature pipeline of one timeframe and the transaction that    *)
(* stores its result. A run reads all candles of the timeframe, computes the  *)
(* registered outputs, and stores values, run memberships and the dependency  *)
(* rows that explain each value. Values are immutable and shared: a later run *)
(* reuses the rows of an earlier one, and must find in them what it computed. *)
(*                                                                            *)
(* Candles are numbered in steps of the timeframe. What a formula reads is    *)
(* always a contiguous stretch of candles that ends at its own, so a value is *)
(* identified with the first candle it depends on. Periods are parameters.    *)
EXTENDS Naturals, Sequences, FiniteSets, FiniteSetsExt

CONSTANTS
    Writers,       \* sessions that persist results
    LastCandle,    \* bound on candles
    FeedWindows,   \* <<from, to>>: the pages the feed may store
    MaxFeeds,      \* bound on stored pages
    MaxResults,    \* bound on feature runs
    Period,        \* ATR_PERIOD, RSI_PERIOD, DIRECTIONAL_MOVEMENT_PERIOD
    Fast, Slow, Signal, \* periods of MACD and its two EMAs
    Statistical    \* STATISTICAL_PERIOD

ASSUME IntradayAssumption ==
    /\ LastCandle \in Nat
    /\ \A n \in {Period, Fast, Slow, Signal, Statistical} : n \in Nat \ {0}
    /\ Fast <= Slow

\* A page runs from one candle to another.
ASSUME IntradayBounds ==
    MaxFeeds \in Nat /\ FeedWindows \subseteq (1 .. LastCandle) \X (1 .. LastCandle)

VARIABLES
    stored,    \* market_data_candles: candle -> ingestion batch, 0 if none
    pageCount, \* ingestion batches so far
    disputed,  \* candles with an unresolved source conflict
    rows,      \* engineered_features: [output, at, first, batch]
    results,   \* feature_pipeline_runs with their memberships
    writer     \* what each session holds

intradayVars == <<stored, pageCount, disputed, rows, results, writer>>

-----------------------------------------------------------------------------
(* The registry. For a snapshot that starts at candle s: from how many        *)
(* candles on an output exists, the first candle its value at t depends on,   *)
(* and the values its dependency rows cite.                                   *)

CandleOutputs == {"candle_geometry", "true_range", "directional_movement", "sma"}
Averages == {"ema_fast", "ema_slow"}
MacdOutputs == {"macd_line", "macd_signal", "macd_histogram"}
DirectionalOutputs == {"indicator", "index", "adx", "adxr"}
Outputs == CandleOutputs \cup Averages \cup MacdOutputs \cup DirectionalOutputs
           \cup {"average_true_range", "rsi", "deviation", "bollinger"}

\* FeatureHistoryType.RECURSIVE.
Recursive == Averages \cup MacdOutputs \cup {"rsi", "indicator", "adx"}

MinimumObservations ==
    [o \in Outputs |->
        CASE o = "candle_geometry" -> 1
          [] o \in {"true_range", "directional_movement"} -> 2
          [] o \in {"sma", "deviation", "bollinger"} -> Statistical
          [] o = "ema_fast" -> Fast
          [] o \in {"ema_slow", "macd_line"} -> Slow
          [] o \in {"macd_signal", "macd_histogram"} -> Slow + Signal - 1
          [] o \in {"average_true_range", "rsi", "indicator", "index"} -> Period + 1
          [] o = "adx" -> 2 * Period
          [] o = "adxr" -> 3 * Period]

Start(o, s) == s + MinimumObservations[o] - 1

\* The index, the rating and whatever is recursive reach back to the start of
\* the snapshot; the registry calls the first two bounded.
FirstInput(o, s, t) ==
    CASE o = "candle_geometry" -> t
      [] o \in {"true_range", "directional_movement"} -> t - 1
      [] o \in {"sma", "deviation", "bollinger"} -> t - Statistical + 1
      [] o = "average_true_range" -> t - Period
      [] OTHER -> s

At(outputs, ts) == outputs \X ts
Own(o, s, t) == IF t > Start(o, s) THEN {<<o, t - 1>>} ELSE {}
IsFirst(o, s, t) == t = Start(o, s)

AtrLinks(t) == At({"true_range"}, t - Period + 1 .. t)

\* Mutant: the seed of the signal line cites its last line only.
LastSeed(o, s, t) ==
    CASE o = "macd_line" \/ IsFirst(o, s, t) -> At(Averages, {t}) \cup Own(o, s, t)
      [] o = "macd_signal" /\ ~ IsFirst(o, s, t) -> At(Averages, {t}) \cup Own(o, s, t)
      [] OTHER -> At(Averages, {t - 1, t}) \cup Own(o, s, t)

\* The first signal averages the first Signal lines; the histogram's update
\* needs the line before it as well.
MacdLinks(o, s, t) ==
    CASE o = "macd_line" -> At(Averages, {t}) \cup Own(o, s, t)
      [] o # "macd_line" /\ IsFirst(o, s, t) -> At(Averages, Start("macd_line", s) .. t)
      [] o = "macd_signal" /\ ~ IsFirst(o, s, t) -> At(Averages, {t}) \cup Own(o, s, t)
      [] OTHER -> At(Averages, {t - 1, t}) \cup Own(o, s, t)

DeviationLinks(t) == {<<"sma", t>>}
BandLinks(t) == {<<"sma", t>>, <<"deviation", t>>}

Movements == {"directional_movement", "true_range"}
IndicatorLinks(s, t) ==
    IF IsFirst("indicator", s, t) THEN At(Movements, t - Period + 1 .. t)
    ELSE At(Movements, {t}) \cup Own("indicator", s, t)
IndexLinks(t) == {<<"indicator", t>>}
AverageIndexLinks(s, t) ==
    IF IsFirst("adx", s, t) THEN At({"index"}, t - Period + 1 .. t)
    ELSE {<<"index", t>>} \cup Own("adx", s, t)
RatingLinks(t) == {<<"adx", t>>, <<"adx", t - Period>>}

DirectionalLinks(o, s, t) ==
    CASE o = "indicator" -> IndicatorLinks(s, t)
      [] o = "index" -> IndexLinks(t)
      [] o = "adx" -> AverageIndexLinks(s, t)
      [] OTHER -> RatingLinks(t)

Links(o, s, t) ==
    CASE o \in CandleOutputs -> {}
      [] o = "average_true_range" -> AtrLinks(t)
      [] o \in Averages \cup {"rsi"} -> Own(o, s, t)
      [] o \in MacdOutputs -> MacdLinks(o, s, t)
      [] o = "deviation" -> DeviationLinks(t)
      [] o = "bollinger" -> BandLinks(t)
      [] OTHER -> DirectionalLinks(o, s, t)

\* run_intraday_feature_pipeline: each output from its warm-up on.
Cells(s, e) == UNION {At({o}, Start(o, s) .. e) : o \in Outputs}
Value(cell, s, batchOf) ==
    [output |-> cell[1], at |-> cell[2], first |-> FirstInput(cell[1], s, cell[2]),
     batch |-> batchOf[cell[2]]]
Computed(snap) == {Value(c, snap.from, snap.batchOf) : c \in Cells(snap.from, snap.to)}

-----------------------------------------------------------------------------
(* The candle store and the transaction.                                      *)

Quiet == [step |-> "quiet"]
Has(p, step) == writer[p].step = step
Hold(p, w) == writer' = [writer EXCEPT ![p] = w]
Release(p) == Hold(p, Quiet)

IntradayInit ==
    /\ stored = [t \in 1 .. LastCandle |-> 0] /\ pageCount = 0 /\ disputed = {}
    /\ rows = {} /\ results = << >>
    /\ writer = [p \in Writers |-> Quiet]

\* persist_historical_sample of a native page: missing candles are stored, or
\* one conflict keeps the page out.
StorePage(w, conflict) ==
    /\ pageCount < MaxFeeds
    /\ pageCount' = pageCount + 1
    /\ \/ /\ ~ conflict
          /\ stored' = [t \in DOMAIN stored |->
                          IF t \in w[1] .. w[2] /\ stored[t] = 0 THEN pageCount' ELSE stored[t]]
          /\ disputed' = disputed
       \/ /\ conflict /\ stored[w[2]] # 0
          /\ disputed' = disputed \cup {w[2]}
          /\ stored' = stored
    /\ UNCHANGED <<rows, results, writer>>

Candles == {t \in DOMAIN stored : stored[t] # 0}

\* load_intraday_source_snapshot: all candles, consecutive, nothing disputed.
LoadSnapshot(p, live) ==
    /\ Has(p, "quiet") /\ Len(results) < MaxResults
    /\ disputed = {} /\ Candles # {}
    /\ Candles = Min(Candles) .. Max(Candles)
    /\ Hold(p, [step |-> IF live THEN "count" ELSE "verify", live |-> live, runs |-> << >>,
                expected |-> 0, from |-> Min(Candles), to |-> Max(Candles),
                batchOf |-> stored])
    /\ UNCHANGED <<stored, pageCount, disputed, rows, results>>

\* The live validation counts the stored values in a statement of its own.
CountValues(p) ==
    /\ Has(p, "count")
    /\ LET computed == Cardinality(Computed(writer[p]))
       IN  IF Cardinality(rows) > computed THEN Release(p)
           ELSE Hold(p, [writer[p] EXCEPT !.step = "verify",
                                          !.expected = computed - Cardinality(rows)])
    /\ UNCHANGED <<stored, pageCount, disputed, rows, results>>

Identity(v) == <<v.output, v.at>>
\* The stored rows of the outputs and of the candles of a result: every identity
\* of the result is among them, and a row in the warm-up of an output may be.
Existing(snap) ==
    LET cells == Cells(snap.from, snap.to)
        outputs == {c[1] : c \in cells}
        candles == {c[2] : c \in cells}
    IN  {v \in rows : v.output \in outputs /\ v.at \in candles}

\* Mutant: stored rows are taken as they are.
TakenAsStored(found, snap) == TRUE

\* _verify_stored_values: no unexpected identity, and the value, availability and
\* source batch of each are as computed.
Agrees(found, snap) == found \subseteq Computed(snap)

\* The transaction opens: the sources are still those of the snapshot, and the
\* rows it will reuse are what it computed.
VerifySources(p) ==
    /\ Has(p, "verify")
    /\ LET w == writer[p]
       IN  IF /\ disputed \cap (w.from .. w.to) = {}
              /\ \A t \in w.from .. w.to : stored[t] = w.batchOf[t]
              /\ Agrees(Existing(w), w)
           THEN Hold(p, [w EXCEPT !.step = "insert"])
           ELSE Release(p)
    /\ UNCHANGED <<stored, pageCount, disputed, rows, results>>

\* Mutant: another run's row for the same output and candle is no obstacle.
PerRun(snap) == Computed(snap)

Missing(snap) ==
    LET taken == {Identity(r) : r \in rows} IN {v \in Computed(snap) : Identity(v) \notin taken}

\* INSERT ... ON CONFLICT DO NOTHING, the reload, the memberships, the counts
\* and the promotion, committed together.
InsertAndPromote(p) ==
    /\ Has(p, "insert")
    /\ LET w == writer[p]
           fresh == Missing(w)
           found == Existing(w) \cup fresh
           run == Len(results) + 1
       IN  IF Agrees(found, w) /\ Cardinality(found) = Cardinality(Computed(w))
           THEN /\ rows' = rows \cup fresh
                /\ results' =
                     Append([r \in DOMAIN results |-> [results[r] EXCEPT !.active = FALSE]],
                            [from |-> w.from, to |-> w.to, members |-> found,
                             inserted |-> Cardinality(fresh), active |-> TRUE])
                /\ Hold(p, CASE ~ w.live -> Quiet
                             [] w.live /\ w.runs = << >> /\ run < MaxResults ->
                                  [w EXCEPT !.step = "verify", !.runs = <<run>>]
                             [] OTHER -> [w EXCEPT !.step = "report", !.runs = Append(@, run)])
           ELSE /\ Release(p)
                /\ UNCHANGED <<rows, results>>
    /\ UNCHANGED <<stored, pageCount, disputed>>

\* validate_live_intraday_feature_pipeline: its second run inserted nothing and
\* is the active one; anything else is an error, with both runs stored.
ReportLive(p) ==
    /\ Has(p, "report")
    /\ Release(p)
    /\ UNCHANGED <<stored, pageCount, disputed, rows, results>>

\* A lost connection, or the promotion of a racing session committed first.
FailWrite(p) ==
    /\ ~ Has(p, "quiet")
    /\ Release(p)
    /\ UNCHANGED <<stored, pageCount, disputed, rows, results>>

IntradayNext ==
    \/ \E w \in FeedWindows, c \in BOOLEAN : StorePage(w, c)
    \/ \E p \in Writers :
         \/ \E live \in BOOLEAN : LoadSnapshot(p, live)
         \/ CountValues(p) \/ VerifySources(p) \/ InsertAndPromote(p)
         \/ ReportLive(p) \/ FailWrite(p)

IntradaySpec == IntradayInit /\ [][IntradayNext]_intradayVars

-----------------------------------------------------------------------------
(* Properties.                                                                *)

ValueRows == [output : Outputs, at : 1 .. LastCandle, first : 1 .. LastCandle,
              batch : 1 .. MaxFeeds]
ResultRows == [from : 1 .. LastCandle, to : 1 .. LastCandle, members : SUBSET ValueRows,
               inserted : Nat, active : BOOLEAN]
IntradayTypeOK ==
    /\ stored \in [1 .. LastCandle -> 0 .. MaxFeeds] /\ pageCount \in 0 .. MaxFeeds
    /\ disputed \subseteq Candles
    /\ \A v \in rows : v \in ValueRows
    /\ Cardinality({Identity(v) : v \in rows}) = Cardinality(rows)
    /\ \A r \in DOMAIN results :
         /\ results[r].from \in 1 .. LastCandle /\ results[r].to \in results[r].from .. LastCandle
         /\ results[r].members \subseteq rows
    /\ Cardinality({r \in DOMAIN results : results[r].active}) <= 1

\* Whichever sessions race and whatever earlier candles a page adds, the rows
\* a run claims, its own and the reused ones, are exactly what its own source
\* candles give: no output missing, none computed from a snapshot that began
\* elsewhere (persist_intraday_feature_result, _reconcile_feature_values).
MembersMatchTheirSources ==
    \A r \in DOMAIN results :
        results[r].members = Computed([from |-> results[r].from, to |-> results[r].to,
                                       batchOf |-> stored])

\* The insertions the runs count, numbered within each run.
Insertions == UNION {{r} \X (1 .. results[r].inserted) : r \in DOMAIN results}

\* Each value is stored once however often and by however many sessions it is
\* computed: a run over the candles of an earlier run inserts nothing, and the
\* insertions of all runs add up to the rows (the live validation relies on it).
EachValueInsertedOnce ==
    /\ \A q \in DOMAIN results : \A r \in 1 .. q - 1 :
         results[r].from = results[q].from /\ results[r].to >= results[q].to
           => results[q].inserted = 0
    /\ Cardinality(Insertions) = Cardinality(rows)

\* The values a formula is defined over, from the specification of the
\* indicator: the whole series for a smoothed sum or an average of one.
Terms(o, s, t) ==
    CASE o = "average_true_range" -> At({"true_range"}, t - Period + 1 .. t)
      [] o = "macd_line" -> At(Averages, Start(o, s) .. t)
      [] o \in {"macd_signal", "macd_histogram"} -> At(Averages, Start("ema_slow", s) .. t)
      [] o = "indicator" -> At(Movements, s + 1 .. t)
      [] o = "index" -> {<<"indicator", t>>}
      [] o = "adx" -> At({"index"}, Start("index", s) .. t)
      [] o = "adxr" -> {<<"adx", t>>, <<"adx", t - Period>>}
      [] o = "deviation" -> {<<"sma", t>>}
      [] o = "bollinger" -> {<<"sma", t>>, <<"deviation", t>>}
      [] OTHER -> {}

\* For each snapshot and each cell of its result: the rows cited on the way
\* back along the cell's own output are the terms of its formula, and a cited
\* value is not later and depends on no candle that its consumer does not.
Explained ==
    [s \in 1 .. LastCandle |-> [e \in s .. LastCandle |->
        \A c \in Cells(s, e) :
          LET back == IF c[1] \in Recursive THEN Start(c[1], s) .. c[2] ELSE {c[2]}
              cited == UNION {Links(c[1], s, u) : u \in back}
          IN  /\ {d \in cited : d[1] # c[1]} = Terms(c[1], s, c[2])
              /\ \A d \in Links(c[1], s, c[2]) :
                   /\ d \in Cells(s, e) /\ d[2] <= c[2]
                   /\ FirstInput(d[1], s, d[2]) >= FirstInput(c[1], s, c[2])]]

\* The dependency rows of a run explain its values: followed back along its
\* own output, a recursive value cites every term of its series and nothing
\* else, and each cited value is a member of the same run
\* (_feature_dependency_memberships and the rows each formula emits).
LineageExplainsValues ==
    \A r \in DOMAIN results : Explained[results[r].from][results[r].to]
=============================================================================
