--------------------------- MODULE IntradayProofs ---------------------------
(* For any sessions, periods, pages and numbers of runs: what a feature run   *)
(* claims is what its source candles give, each value is inserted by one run, *)
(* and the dependency rows of a run explain its values.                       *)
EXTENDS IntradayFeatures, Extremes, FiniteSetTheorems, TLAPS

-----------------------------------------------------------------------------
(* The operators.                                                             *)

LEMMA OutputStartsInside ==
    ASSUME NEW o \in Outputs, NEW s \in Int
    PROVE  Start(o, s) \in Int /\ Start(o, s) >= s
  <1>1. MinimumObservations[o] \in Nat \ {0}
    BY IntradayAssumption
    DEF MinimumObservations, Outputs, CandleOutputs, Averages, MacdOutputs,
        DirectionalOutputs
  <1> QED
    BY <1>1 DEF Start

\* The cells of a result lie on the candles of its snapshot.
LEMMA CellsInside ==
    ASSUME NEW s \in Int, NEW e \in Int
    PROVE  Cells(s, e) \subseteq Outputs \X (s .. e)
  BY OutputStartsInside DEF Cells, At

LEMMA OutputsAreFinite == IsFiniteSet(Outputs)
  <1>1. IsFiniteSet({})
    BY FS_EmptySet
  <1>2. \A S, x : IsFiniteSet(S) => IsFiniteSet(S \cup {x})
    BY FS_AddElement
  <1> DEFINE A == ((({} \cup {"candle_geometry"}) \cup {"true_range"})
                   \cup {"directional_movement"}) \cup {"sma"}
             B == ((((({} \cup {"ema_fast"}) \cup {"ema_slow"}) \cup {"macd_line"})
                   \cup {"macd_signal"}) \cup {"macd_histogram"})
             C == ((({} \cup {"indicator"}) \cup {"index"}) \cup {"adx"}) \cup {"adxr"}
             D == ((({} \cup {"average_true_range"}) \cup {"rsi"}) \cup {"deviation"})
                  \cup {"bollinger"}
  <1>3. IsFiniteSet(A) /\ IsFiniteSet(B) /\ IsFiniteSet(C) /\ IsFiniteSet(D)
    BY <1>1, <1>2
  <1>4. IsFiniteSet((A \cup B) \cup (C \cup D))
    BY <1>3, FS_Union
  <1>5. Outputs = (A \cup B) \cup (C \cup D)
    BY DEF Outputs, CandleOutputs, Averages, MacdOutputs, DirectionalOutputs
  <1> QED
    BY <1>4, <1>5

LEMMA ComputedIsFinite ==
    ASSUME NEW snap, snap.from \in Int, snap.to \in Int
    PROVE  IsFiniteSet(Computed(snap))
  <1> DEFINE S == Cells(snap.from, snap.to)
             f == [c \in S |-> Value(c, snap.from, snap.batchOf)]
  <1>1. IsFiniteSet(snap.from .. snap.to)
    BY FS_Interval
  <1>2. IsFiniteSet(Outputs \X (snap.from .. snap.to))
    BY <1>1, OutputsAreFinite, FS_Product
  <1>3. IsFiniteSet(S)
    BY <1>2, CellsInside, FS_Subset
  <1>4. f \in Surjection(S, Computed(snap))
    BY DEF Surjection, Computed
  <1> QED
    BY <1>3, <1>4, FS_Surjection

\* A result is a function of the candles from its first to its last.
LEMMA ComputedFromSources ==
    ASSUME NEW x, NEW y, x.from = y.from, x.to = y.to, x.from \in Int, x.to \in Int,
           \A t \in x.from .. x.to : x.batchOf[t] = y.batchOf[t]
    PROVE  Computed(x) = Computed(y)
  <1>1. \A c \in Cells(x.from, x.to) : Value(c, x.from, x.batchOf) = Value(c, x.from, y.batchOf)
    BY CellsInside DEF Value
  <1> QED
    BY <1>1 DEF Computed

-----------------------------------------------------------------------------
(* The invariant.                                                             *)

Filled == [1 .. LastCandle -> Nat]

\* A page only adds candles: a stored one keeps its batch.
OnlyFills == \A t \in 1 .. LastCandle : stored[t] # 0 => stored'[t] = stored[t]

\* The candles from x.from to x.to are stored.
Sourced(x) ==
    /\ x.from \in Int /\ x.to \in Int /\ x.from <= x.to
    /\ \A t \in x.from .. x.to : t \in 1 .. LastCandle /\ stored[t] # 0

\* What a session holds is a snapshot of stored candles as they are.
HoldsSources(w) ==
    /\ {"from", "to", "batchOf"} \subseteq DOMAIN w
    /\ Sourced(w)
    /\ \A t \in w.from .. w.to : w.batchOf[t] = stored[t]

\* What a run claims is what its candles give.
ClaimsItsSources(r) ==
    /\ {"from", "to", "members"} \subseteq DOMAIN r
    /\ Sourced(r)
    /\ r.members = Computed([from |-> r.from, to |-> r.to, batchOf |-> stored])

SourcesStand ==
    /\ stored \in Filled /\ pageCount \in Nat
    /\ writer = [p \in Writers |-> writer[p]]
    /\ \A p \in Writers : ~ Has(p, "quiet") => HoldsSources(writer[p])
    /\ Len(results) \in Nat /\ DOMAIN results = 1 .. Len(results)
    /\ \A r \in DOMAIN results : ClaimsItsSources(results[r])

\* A step that only adds candles leaves snapshots and claims as they are.
LEMMA SourcesGrow ==
    ASSUME NEW x, OnlyFills
    PROVE  /\ HoldsSources(x) /\ stored' \in Filled => HoldsSources(x)'
           /\ ClaimsItsSources(x) /\ stored' \in Filled => ClaimsItsSources(x)'
  <1>1. ASSUME Sourced(x)
        PROVE  /\ Sourced(x)'
               /\ \A t \in x.from .. x.to : stored'[t] = stored[t]
    BY <1>1 DEF OnlyFills, Sourced
  <1>2. ASSUME HoldsSources(x) PROVE HoldsSources(x)'
    BY <1>1, <1>2 DEF HoldsSources
  <1>3. ASSUME ClaimsItsSources(x) PROVE ClaimsItsSources(x)'
    <2> DEFINE old == [from |-> x.from, to |-> x.to, batchOf |-> stored]
               new == [from |-> x.from, to |-> x.to, batchOf |-> stored']
    <2>1. Sourced(x)' /\ \A t \in x.from .. x.to : stored'[t] = stored[t]
      BY <1>1, <1>3 DEF ClaimsItsSources
    <2>2. Computed(old) = Computed(new)
      <3>1. old.from = new.from /\ old.to = new.to /\ old.from \in Int /\ old.to \in Int
        BY <2>1 DEF Sourced
      <3>2. \A t \in old.from .. old.to : old.batchOf[t] = new.batchOf[t]
        BY <2>1
      <3> HIDE DEF old, new
      <3> QED
        BY <3>1, <3>2, ComputedFromSources
    <2> QED
      BY <1>3, <2>1, <2>2 DEF ClaimsItsSources
  <1> QED
    BY <1>2, <1>3

\* A session that goes on with its own snapshot, or lets it go.
LEMMA HolderKeeps ==
    ASSUME SourcesStand, NEW p \in Writers, NEW w, Hold(p, w),
           w.step # "quiet" => HoldsSources(w), UNCHANGED <<stored, pageCount>>
    PROVE  /\ writer' = [q \in Writers |-> writer'[q]]
           /\ \A q \in Writers : ~ Has(q, "quiet")' => HoldsSources(writer[q])'
  <1>1. /\ writer' = [q \in Writers |-> writer'[q]]
        /\ writer'[p] = w
        /\ \A q \in Writers \ {p} : writer'[q] = writer[q]
    BY DEF SourcesStand, Hold
  <1>2. \A x : HoldsSources(x) => HoldsSources(x)'
    BY DEF HoldsSources, Sourced
  <1>3. ASSUME NEW q \in Writers, ~ Has(q, "quiet")' PROVE HoldsSources(writer[q])'
    <2>1. CASE q = p
      <3>1. HoldsSources(w)'
        BY <1>1, <1>2, <1>3, <2>1 DEF Has
      <3> QED
        BY <1>1, <2>1, <3>1 DEF HoldsSources, Sourced
    <2>2. CASE q # p
      <3>1. writer'[q] = writer[q] /\ HoldsSources(writer[q])
        BY <1>1, <1>3, <2>2 DEF SourcesStand, Has
      <3> QED
        BY <3>1 DEF HoldsSources, Sourced
    <2> QED
      BY <2>1, <2>2
  <1> QED
    BY <1>1, <1>3

LEMMA StorePageKeeps ==
    ASSUME SourcesStand, NEW w \in FeedWindows, NEW c \in BOOLEAN, StorePage(w, c)
    PROVE  SourcesStand'
  <1>1. stored' \in Filled /\ OnlyFills /\ pageCount' \in Nat
    <2>1. DOMAIN stored = 1 .. LastCandle /\ pageCount' \in Nat
      BY DEF StorePage, SourcesStand, Filled
    <2>2. CASE stored' = stored
      BY <2>1, <2>2 DEF SourcesStand, OnlyFills
    <2>3. CASE stored' = [t \in DOMAIN stored |->
                            IF t \in w[1] .. w[2] /\ stored[t] = 0 THEN pageCount' ELSE stored[t]]
      BY <2>1, <2>3 DEF SourcesStand, Filled, OnlyFills
    <2> QED
      BY <2>1, <2>2, <2>3 DEF StorePage
  <1>2. UNCHANGED <<writer, results>>
    BY DEF StorePage
  <1> QED
    BY <1>1, <1>2, SourcesGrow DEF SourcesStand, Has

LEMMA LoadSnapshotKeeps ==
    ASSUME SourcesStand, NEW p \in Writers, NEW live \in BOOLEAN, LoadSnapshot(p, live)
    PROVE  SourcesStand'
  <1> DEFINE w == [step |-> IF live THEN "count" ELSE "verify", live |-> live, runs |-> << >>,
                   expected |-> 0, from |-> Min(Candles), to |-> Max(Candles),
                   batchOf |-> stored]
  <1>1. Candles \in SUBSET (0 .. LastCandle) /\ Candles \subseteq 1 .. LastCandle /\ \A t \in Candles : stored[t] # 0
    BY DEF Candles, SourcesStand, Filled
  <1>2. /\ Min(Candles) \in Int /\ Max(Candles) \in Int /\ Min(Candles) <= Max(Candles)
        /\ Candles = Min(Candles) .. Max(Candles)
    <2>1. Candles # {} /\ Candles = Min(Candles) .. Max(Candles)
      BY DEF LoadSnapshot
    <2>2. Min(Candles) \in Candles /\ Max(Candles) \in Candles
      BY <1>1, <2>1, MinMaxAreMembers, IntradayAssumption
    <2>3. \A t \in Candles : t \in Int
      BY <1>1
    <2>4. Min(Candles) \in Int /\ Max(Candles) \in Int
      BY <2>2, <2>3
    <2> QED
      BY <2>1, <2>4
  <1>3. HoldsSources(w)
    BY <1>1, <1>2 DEF HoldsSources, Sourced
  <1>4. Hold(p, w) /\ UNCHANGED <<stored, pageCount, results>>
    BY DEF LoadSnapshot
  <1> HIDE DEF w
  <1> QED
    BY <1>3, <1>4, HolderKeeps, SourcesGrow DEF SourcesStand, OnlyFills

LEMMA HolderSteps ==
    ASSUME NEW w, HoldsSources(w), NEW step, NEW x
    PROVE  /\ HoldsSources([w EXCEPT !.step = step])
           /\ HoldsSources([w EXCEPT !.step = step, !.expected = x])
           /\ HoldsSources([w EXCEPT !.step = step, !.runs = x])
  <1>1. ASSUME NEW v, DOMAIN v = DOMAIN w,
               v.from = w.from, v.to = w.to, v.batchOf = w.batchOf
        PROVE  HoldsSources(v)
    BY <1>1 DEF HoldsSources, Sourced
  <1>2. {"from", "to", "batchOf"} \subseteq DOMAIN w
    BY DEF HoldsSources
  <1>3. HoldsSources([w EXCEPT !.step = step])
    BY <1>1, <1>2
  <1>4. HoldsSources([w EXCEPT !.step = step, !.expected = x])
    BY <1>1, <1>2
  <1>5. HoldsSources([w EXCEPT !.step = step, !.runs = x])
    BY <1>1, <1>2
  <1> QED
    BY <1>3, <1>4, <1>5

\* The steps of a session that store nothing.
LEMMA SessionKeeps ==
    ASSUME SourcesStand, NEW p \in Writers,
           CountValues(p) \/ VerifySources(p) \/ ReportLive(p) \/ FailWrite(p)
    PROVE  SourcesStand'
  <1>1. UNCHANGED <<stored, pageCount, results>>
    BY DEF CountValues, VerifySources, ReportLive, FailWrite
  <1>2. \E w : Hold(p, w) /\ (w.step # "quiet" => HoldsSources(w))
    <2>1. ASSUME Release(p) PROVE Hold(p, Quiet) /\ Quiet.step = "quiet"
      BY <2>1 DEF Release, Quiet
    <2>2. ASSUME ~ Has(p, "quiet")
          PROVE  /\ HoldsSources([writer[p] EXCEPT !.step = "insert"])
                 /\ \A n : HoldsSources([writer[p] EXCEPT !.step = "verify", !.expected = n])
      BY <2>2, HolderSteps DEF SourcesStand
    <2> QED
      BY <2>1, <2>2 DEF CountValues, VerifySources, ReportLive, FailWrite, Has
  <1> QED
    BY <1>1, <1>2, HolderKeeps, SourcesGrow DEF SourcesStand, OnlyFills

\* The reconciliation: what is as large as the result and part of it is the result.
LEMMA AgreementIsEquality ==
    ASSUME NEW w, w.from \in Int, w.to \in Int, NEW found, Agrees(found, w),
           Cardinality(found) = Cardinality(Computed(w))
    PROVE  found = Computed(w)
  BY ComputedIsFinite, FS_Subset DEF Agrees

LEMMA InsertKeeps ==
    ASSUME SourcesStand, NEW p \in Writers, InsertAndPromote(p)
    PROVE  SourcesStand'
  <1> DEFINE w == writer[p]
             fresh == Missing(w)
             found == Existing(w) \cup fresh
             run == Len(results) + 1
             claim == [from |-> w.from, to |-> w.to, members |-> found,
                       inserted |-> Cardinality(fresh), active |-> TRUE]
             before == [r \in DOMAIN results |-> [results[r] EXCEPT !.active = FALSE]]
             next == CASE ~ w.live -> Quiet
                       [] w.live /\ w.runs = << >> /\ run < MaxResults ->
                            [w EXCEPT !.step = "verify", !.runs = <<run>>]
                       [] OTHER -> [w EXCEPT !.step = "report", !.runs = Append(@, run)]
             accepted == Agrees(found, w) /\ Cardinality(found) = Cardinality(Computed(w))
  <1>1. UNCHANGED <<stored, pageCount>> /\ HoldsSources(w)
    BY DEF InsertAndPromote, Has, SourcesStand
  <1>2. CASE ~ accepted
    <2>1. Hold(p, Quiet) /\ UNCHANGED results /\ Quiet.step = "quiet"
      BY <1>2 DEF InsertAndPromote, Release, Quiet
    <2> QED
      BY <1>1, <2>1, HolderKeeps, SourcesGrow DEF SourcesStand, OnlyFills
  <1>3. CASE accepted
    <2>1. results' = Append(before, claim) /\ Hold(p, next)
      BY <1>3 DEF InsertAndPromote
    <2>2. next.step # "quiet" => HoldsSources(next)
      <3>1. \A x : /\ HoldsSources([w EXCEPT !.step = "verify", !.runs = x])
                   /\ HoldsSources([w EXCEPT !.step = "report", !.runs = x])
        BY <1>1, HolderSteps
      <3>2. Quiet.step = "quiet"
        BY DEF Quiet
      <3>3. \/ next = Quiet
            \/ next = [w EXCEPT !.step = "verify", !.runs = <<run>>]
            \/ next = [w EXCEPT !.step = "report", !.runs = Append(w.runs, run)]
        OBVIOUS
      <3> HIDE DEF next, w, run
      <3> QED
        BY <3>1, <3>2, <3>3
    <2>3. ClaimsItsSources(claim)
      <3>1. found = Computed(w)
        BY <1>1, <1>3, AgreementIsEquality DEF HoldsSources, Sourced
      <3>2. Computed(w) = Computed([from |-> w.from, to |-> w.to, batchOf |-> stored])
        <4> DEFINE y == [from |-> w.from, to |-> w.to, batchOf |-> stored]
        <4>1. /\ w.from = y.from /\ w.to = y.to /\ w.from \in Int /\ w.to \in Int
              /\ \A t \in w.from .. w.to : w.batchOf[t] = y.batchOf[t]
          BY <1>1 DEF HoldsSources, Sourced
        <4> HIDE DEF y
        <4>2. Computed(w) = Computed(y)
          BY <4>1, ComputedFromSources
        <4> QED
          BY <4>2 DEF y
      <3>3. Sourced(claim)
        BY <1>1 DEF HoldsSources, Sourced
      <3>4. claim.members = Computed([from |-> w.from, to |-> w.to, batchOf |-> stored])
        BY <3>1, <3>2
      <3> HIDE DEF found, w
      <3> QED
        BY <3>3, <3>4 DEF ClaimsItsSources
    <2>4. \A r \in DOMAIN results : ClaimsItsSources(before[r])
      BY DEF SourcesStand, ClaimsItsSources, Sourced
    <2>5. /\ Len(results') \in Nat /\ DOMAIN results' = 1 .. Len(results')
          /\ \A r \in DOMAIN results' : results'[r] = claim \/ \E q \in DOMAIN results :
                                           results'[r] = before[q]
      <3> DEFINE T == {before[r] : r \in DOMAIN results}
      <3>1. before \in [1 .. Len(results) -> T] /\ Len(results) \in Nat
        BY DEF SourcesStand
      <3> HIDE DEF before, claim, T
      <3>2. before \in Seq(T) /\ Len(before) = Len(results)
        BY <3>1
      <3>3. /\ Len(Append(before, claim)) = Len(before) + 1
            /\ \A r \in 1 .. Len(before) : Append(before, claim)[r] = before[r]
            /\ Append(before, claim)[Len(before) + 1] = claim
            /\ DOMAIN Append(before, claim) = 1 .. Len(before) + 1
        BY <3>2
      <3> QED
        BY <2>1, <3>1, <3>2, <3>3 DEF SourcesStand
    <2>6. \A r \in DOMAIN results' : ClaimsItsSources(results'[r])
      <3> HIDE DEF before, claim
      <3> QED
        BY <2>3, <2>4, <2>5
    <2>7. \A r \in DOMAIN results' : ClaimsItsSources(results[r])'
      BY <1>1, <2>6 DEF ClaimsItsSources, Sourced
    <2> HIDE DEF next
    <2> QED
      BY <1>1, <2>1, <2>2, <2>5, <2>7, HolderKeeps DEF SourcesStand
  <1> QED
    BY <1>2, <1>3

LEMMA SourcesInit == IntradayInit => SourcesStand
  BY IntradayAssumption DEF IntradayInit, SourcesStand, Filled, Has, Quiet

LEMMA SourcesNext == SourcesStand /\ [IntradayNext]_intradayVars => SourcesStand'
  <1> SUFFICES ASSUME SourcesStand, [IntradayNext]_intradayVars PROVE SourcesStand'
    OBVIOUS
  <1>1. CASE UNCHANGED intradayVars
    BY <1>1 DEF intradayVars, SourcesStand, HoldsSources, ClaimsItsSources, Sourced, Has
  <1> QED
    BY <1>1, StorePageKeeps, LoadSnapshotKeeps, SessionKeeps, InsertKeeps DEF IntradayNext

\* However many sessions race, whatever pages arrive between the statements of a
\* run and however long the periods are: a stored run claims exactly the values
\* its own candles give (persist_intraday_feature_result).
THEOREM MembersAlwaysMatch == IntradaySpec => []MembersMatchTheirSources
  <1>1. IntradayInit => SourcesStand
    BY SourcesInit
  <1>2. SourcesStand => MembersMatchTheirSources
    BY DEF SourcesStand, ClaimsItsSources, MembersMatchTheirSources
  <1> QED
    BY <1>1, <1>2, SourcesNext, PTL DEF IntradaySpec

-----------------------------------------------------------------------------
(* The lineage of a value, for every period.                                  *)

Periods ==
    /\ Period \in Nat \ {0} /\ Fast \in Nat \ {0} /\ Slow \in Nat \ {0}
    /\ Signal \in Nat \ {0} /\ Statistical \in Nat \ {0} /\ Fast <= Slow

LEMMA PeriodsArePositive == Periods
  BY IntradayAssumption DEF Periods

\* Where each output starts.
LEMMA OutputStarts ==
    ASSUME NEW s \in Int
    PROVE  /\ Start("candle_geometry", s) = s
           /\ Start("true_range", s) = s + 1 /\ Start("directional_movement", s) = s + 1
           /\ Start("sma", s) = s + Statistical - 1
           /\ Start("deviation", s) = s + Statistical - 1
           /\ Start("bollinger", s) = s + Statistical - 1
           /\ Start("ema_fast", s) = s + Fast - 1 /\ Start("ema_slow", s) = s + Slow - 1
           /\ Start("macd_line", s) = s + Slow - 1
           /\ Start("macd_signal", s) = s + Slow + Signal - 2
           /\ Start("macd_histogram", s) = s + Slow + Signal - 2
           /\ Start("average_true_range", s) = s + Period /\ Start("rsi", s) = s + Period
           /\ Start("indicator", s) = s + Period /\ Start("index", s) = s + Period
           /\ Start("adx", s) = s + 2 * Period - 1
           /\ Start("adxr", s) = s + 3 * Period - 1
  <1>1. /\ MinimumObservations["candle_geometry"] = 1
        /\ MinimumObservations["true_range"] = 2
        /\ MinimumObservations["directional_movement"] = 2
        /\ MinimumObservations["sma"] = Statistical
        /\ MinimumObservations["deviation"] = Statistical
        /\ MinimumObservations["bollinger"] = Statistical
        /\ MinimumObservations["ema_fast"] = Fast /\ MinimumObservations["ema_slow"] = Slow
        /\ MinimumObservations["macd_line"] = Slow
        /\ MinimumObservations["macd_signal"] = Slow + Signal - 1
        /\ MinimumObservations["macd_histogram"] = Slow + Signal - 1
        /\ MinimumObservations["average_true_range"] = Period + 1
        /\ MinimumObservations["rsi"] = Period + 1
        /\ MinimumObservations["indicator"] = Period + 1
        /\ MinimumObservations["index"] = Period + 1
        /\ MinimumObservations["adx"] = 2 * Period
        /\ MinimumObservations["adxr"] = 3 * Period
    BY DEF MinimumObservations, Outputs, CandleOutputs, Averages, MacdOutputs, DirectionalOutputs
  <1>2. Periods
    BY PeriodsArePositive
  <1> QED
    BY <1>1, <1>2 DEF Start, Periods

LEMMA CellsAre ==
    ASSUME NEW s \in Int, NEW e \in Int, NEW d
    PROVE  d \in Cells(s, e) <=>
             /\ d = <<d[1], d[2]>> /\ d[1] \in Outputs
             /\ d[2] \in Int /\ Start(d[1], s) <= d[2] /\ d[2] <= e
  <1>1. \A o \in Outputs : Start(o, s) \in Int
    BY OutputStartsInside
  <1> QED
    BY <1>1 DEF Cells, At

\* The cells of an output whose lineage is explained.
ExplainedCell(s, e, c) ==
    LET back == IF c[1] \in Recursive THEN Start(c[1], s) .. c[2] ELSE {c[2]}
        cited == UNION {Links(c[1], s, u) : u \in back}
    IN  /\ {d \in cited : d[1] # c[1]} = Terms(c[1], s, c[2])
        /\ \A d \in Links(c[1], s, c[2]) :
             /\ d \in Cells(s, e) /\ d[2] <= c[2]
             /\ FirstInput(d[1], s, d[2]) >= FirstInput(c[1], s, c[2])

LEMMA LinksAre ==
    ASSUME NEW s, NEW t
    PROVE  /\ \A o \in CandleOutputs : Links(o, s, t) = {}
           /\ \A o \in Averages \cup {"rsi"} : Links(o, s, t) = Own(o, s, t)
           /\ \A o \in MacdOutputs : Links(o, s, t) = MacdLinks(o, s, t)
           /\ Links("average_true_range", s, t) = AtrLinks(t)
           /\ Links("deviation", s, t) = DeviationLinks(t)
           /\ Links("bollinger", s, t) = BandLinks(t)
           /\ Links("indicator", s, t) = IndicatorLinks(s, t)
           /\ Links("index", s, t) = IndexLinks(t)
           /\ Links("adx", s, t) = AverageIndexLinks(s, t)
           /\ Links("adxr", s, t) = RatingLinks(t)
  <1>1. \A o \in CandleOutputs : Links(o, s, t) = {}
    BY DEF Links, CandleOutputs, Averages, MacdOutputs
  <1>2. \A o \in Averages \cup {"rsi"} : Links(o, s, t) = Own(o, s, t)
    BY DEF Links, CandleOutputs, Averages, MacdOutputs
  <1>3. \A o \in MacdOutputs : Links(o, s, t) = MacdLinks(o, s, t)
    BY DEF Links, CandleOutputs, Averages, MacdOutputs
  <1>4. /\ Links("average_true_range", s, t) = AtrLinks(t)
        /\ Links("deviation", s, t) = DeviationLinks(t)
        /\ Links("bollinger", s, t) = BandLinks(t)
    BY DEF Links, CandleOutputs, Averages, MacdOutputs
  <1>5. \A o \in DirectionalOutputs : Links(o, s, t) = DirectionalLinks(o, s, t)
    BY DEF Links, CandleOutputs, Averages, MacdOutputs, DirectionalOutputs
  <1>6. /\ Links("indicator", s, t) = IndicatorLinks(s, t)
        /\ Links("index", s, t) = IndexLinks(t)
        /\ Links("adx", s, t) = AverageIndexLinks(s, t)
        /\ Links("adxr", s, t) = RatingLinks(t)
    BY <1>5 DEF DirectionalLinks, DirectionalOutputs
  <1> QED
    BY <1>1, <1>2, <1>3, <1>4, <1>6

LEMMA TermsAre ==
    ASSUME NEW s, NEW t
    PROVE  /\ \A o \in CandleOutputs \cup Averages \cup {"rsi"} : Terms(o, s, t) = {}
           /\ Terms("average_true_range", s, t) = At({"true_range"}, t - Period + 1 .. t)
           /\ Terms("macd_line", s, t) = At(Averages, Start("macd_line", s) .. t)
           /\ \A o \in {"macd_signal", "macd_histogram"} :
                Terms(o, s, t) = At(Averages, Start("ema_slow", s) .. t)
           /\ Terms("indicator", s, t) = At(Movements, s + 1 .. t)
           /\ Terms("index", s, t) = {<<"indicator", t>>}
           /\ Terms("adx", s, t) = At({"index"}, Start("index", s) .. t)
           /\ Terms("adxr", s, t) = {<<"adx", t>>, <<"adx", t - Period>>}
           /\ Terms("deviation", s, t) = {<<"sma", t>>}
           /\ Terms("bollinger", s, t) = {<<"sma", t>>, <<"deviation", t>>}
  BY DEF Terms, CandleOutputs, Averages

\* Outputs that only read candles, and those that cite their own last value.
LEMMA PlainExplained ==
    ASSUME NEW s \in Int, NEW e \in Int, NEW t \in Int, NEW o \in CandleOutputs \cup Averages \cup {"rsi"},
           Start(o, s) <= t, t <= e
    PROVE  ExplainedCell(s, e, <<o, t>>)
  <1>1. o \in Outputs /\ Start(o, s) \in Int
    BY OutputStartsInside DEF Outputs
  <1>2. Terms(o, s, t) = {}
    BY TermsAre DEF CandleOutputs, Averages
  <1>3. CASE o \in CandleOutputs
    <2>1. \A u : Links(o, s, u) = {}
      BY <1>3, LinksAre DEF CandleOutputs
    <2> QED
      BY <1>2, <2>1 DEF ExplainedCell
  <1>4. CASE o \in Averages \cup {"rsi"}
    <2>1. \A u : Links(o, s, u) = Own(o, s, u)
      BY <1>4, LinksAre DEF Averages
    <2>2. \A u, d : d \in Own(o, s, u) => d = <<o, u - 1>> /\ u > Start(o, s)
      BY DEF Own
    <2>3. \A u : FirstInput(o, s, u) = s
      BY <1>4 DEF FirstInput, Averages
    <2>4. ASSUME NEW d \in Own(o, s, t)
          PROVE  /\ d \in Cells(s, e) /\ d[2] <= t
                 /\ FirstInput(d[1], s, d[2]) >= s
      <3>1. d = <<o, t - 1>> /\ d[1] = o /\ d[2] = t - 1 /\ t > Start(o, s)
        BY <2>2
      <3>2. d \in Cells(s, e)
        BY <1>1, <3>1, CellsAre
      <3> QED
        BY <2>3, <3>1, <3>2
    <2>5. \A u : {d \in Links(o, s, u) : d[1] # o} = {}
      BY <2>1, <2>2
    <2> QED
      BY <1>2, <2>1, <2>3, <2>4, <2>5 DEF ExplainedCell
  <1> QED
    BY <1>3, <1>4

LEMMA FirstInputsAre ==
    ASSUME NEW s, NEW t
    PROVE  /\ FirstInput("candle_geometry", s, t) = t
           /\ FirstInput("true_range", s, t) = t - 1
           /\ FirstInput("directional_movement", s, t) = t - 1
           /\ FirstInput("sma", s, t) = t - Statistical + 1
           /\ FirstInput("deviation", s, t) = t - Statistical + 1
           /\ FirstInput("bollinger", s, t) = t - Statistical + 1
           /\ FirstInput("average_true_range", s, t) = t - Period
           /\ \A o \in Averages \cup MacdOutputs \cup DirectionalOutputs \cup {"rsi"} :
                FirstInput(o, s, t) = s
  BY DEF FirstInput, Averages, MacdOutputs, DirectionalOutputs

\* No value depends on a candle before the snapshot.
LEMMA InputsInside ==
    ASSUME NEW s \in Int, NEW e \in Int, NEW d \in Cells(s, e)
    PROVE  FirstInput(d[1], s, d[2]) >= s
  <1>1. d[1] \in Outputs /\ d[2] \in Int /\ Start(d[1], s) <= d[2]
    BY CellsAre
  <1> DEFINE o == d[1]
             t == d[2]
  <1>2. \/ o \in CandleOutputs \cup {"deviation", "bollinger", "average_true_range"}
        \/ o \in Averages \cup MacdOutputs \cup DirectionalOutputs \cup {"rsi"}
    BY <1>1 DEF Outputs
  <1> HIDE DEF o, t
  <1>3. CASE o \in CandleOutputs \cup {"deviation", "bollinger", "average_true_range"}
    <2>1. t \in Int /\ Start(o, s) <= t /\ Periods
      BY <1>1, PeriodsArePositive DEF o, t
    <2>2. \/ o = "candle_geometry" /\ Start(o, s) = s /\ FirstInput(o, s, t) = t
          \/ o \in {"true_range", "directional_movement"} /\ Start(o, s) = s + 1
             /\ FirstInput(o, s, t) = t - 1
          \/ o \in {"sma", "deviation", "bollinger"} /\ Start(o, s) = s + Statistical - 1
             /\ FirstInput(o, s, t) = t - Statistical + 1
          \/ o = "average_true_range" /\ Start(o, s) = s + Period
             /\ FirstInput(o, s, t) = t - Period
      BY <1>3, OutputStarts, FirstInputsAre DEF CandleOutputs
    <2> QED
      BY <2>1, <2>2 DEF Periods, o, t
  <1>4. CASE o \in Averages \cup MacdOutputs \cup DirectionalOutputs \cup {"rsi"}
    <2>1. FirstInput(o, s, t) = s
      BY <1>4, FirstInputsAre
    <2> QED
      BY <2>1 DEF o, t
  <1> QED
    BY <1>2, <1>3, <1>4

\* A pair of an output and a candle is a cell.
LEMMA PairIsCell ==
    ASSUME NEW s \in Int, NEW e \in Int, NEW o \in Outputs, NEW u \in Int,
           Start(o, s) <= u, u <= e
    PROVE  <<o, u>> \in Cells(s, e)
  BY CellsAre

\* Outputs computed over a bounded stretch of candles cite themselves nowhere.
LEMMA BoundedExplained ==
    ASSUME NEW s \in Int, NEW e \in Int, NEW t \in Int,
           NEW o \in {"average_true_range", "deviation", "bollinger"},
           Start(o, s) <= t, t <= e
    PROVE  ExplainedCell(s, e, <<o, t>>)
  <1>1. Periods
    BY PeriodsArePositive
  <1>2. Links(o, s, t) = Terms(o, s, t)
    <2>1. /\ Links("average_true_range", s, t) = AtrLinks(t)
          /\ Links("deviation", s, t) = DeviationLinks(t)
          /\ Links("bollinger", s, t) = BandLinks(t)
      BY LinksAre
    <2>2. /\ Terms("average_true_range", s, t) = AtrLinks(t)
          /\ Terms("deviation", s, t) = DeviationLinks(t)
          /\ Terms("bollinger", s, t) = BandLinks(t)
      BY TermsAre DEF AtrLinks, DeviationLinks, BandLinks
    <2> QED
      BY <2>1, <2>2
  <1>3. o \notin Recursive
    BY DEF Recursive, Averages, MacdOutputs
  <1>4. ASSUME NEW d \in Links(o, s, t)
        PROVE  /\ d[1] # o /\ d \in Cells(s, e) /\ d[2] <= t
               /\ FirstInput(d[1], s, d[2]) >= FirstInput(o, s, t)
    <2>1. {"true_range", "sma", "deviation"} \subseteq Outputs
      BY DEF Outputs, CandleOutputs
    <2>2. CASE o = "average_true_range"
      <3>1. PICK u \in t - Period + 1 .. t : d = <<"true_range", u>>
        BY <1>4, <2>2, LinksAre DEF AtrLinks, At
      <3>2. u \in Int /\ s + 1 <= u /\ u <= t /\ u - 1 >= t - Period
        BY <1>1, <2>2, <3>1, OutputStarts DEF Periods
      <3> QED
        BY <2>1, <2>2, <3>1, <3>2, PairIsCell, OutputStarts, FirstInputsAre
    <2>3. CASE o \in {"deviation", "bollinger"}
      <3>1. d = <<"sma", t>> \/ (d = <<"deviation", t>> /\ o = "bollinger")
        <4>1. /\ Links("deviation", s, t) = {<<"sma", t>>}
              /\ Links("bollinger", s, t) = {<<"sma", t>>, <<"deviation", t>>}
          BY LinksAre DEF DeviationLinks, BandLinks
        <4> QED
          BY <1>4, <2>3, <4>1
      <3>2. /\ Start("sma", s) <= t /\ Start("deviation", s) <= t
            /\ FirstInput("sma", s, t) = FirstInput(o, s, t)
            /\ FirstInput("deviation", s, t) = FirstInput(o, s, t)
            /\ FirstInput(o, s, t) \in Int
        <4>1. /\ Start("sma", s) = s + Statistical - 1
              /\ Start("deviation", s) = s + Statistical - 1
              /\ Start("bollinger", s) = s + Statistical - 1
          BY OutputStarts
        <4>2. /\ FirstInput("sma", s, t) = t - Statistical + 1
              /\ FirstInput("deviation", s, t) = t - Statistical + 1
              /\ FirstInput("bollinger", s, t) = t - Statistical + 1
          BY FirstInputsAre
        <4> QED
          BY <1>1, <2>3, <4>1, <4>2 DEF Periods
      <3>3. <<"sma", t>> \in Cells(s, e) /\ <<"deviation", t>> \in Cells(s, e)
        BY <2>1, <3>2, PairIsCell
      <3> QED
        BY <2>3, <3>1, <3>2, <3>3
    <2> QED
      BY <2>2, <2>3
  <1> QED
    BY <1>2, <1>3, <1>4 DEF ExplainedCell

\* What is cited of other outputs.
NewLinks(o, s, t) == {d \in Links(o, s, t) : d[1] # o}

\* A recursive output cites a stretch of values of others at its first candle,
\* the new ones at each later candle, and its own last one.
LEMMA RecursiveExplained ==
    ASSUME NEW s \in Int, NEW e \in Int, NEW t \in Int, NEW o \in Outputs,
           o \in Recursive, FirstInput(o, s, t) = s, Start(o, s) <= t, t <= e,
           NEW others \in SUBSET (Outputs \ {o}), NEW from \in Int,
           \A x \in others : Start(x, s) <= from,
           \A u \in Start(o, s) .. t :
              /\ NewLinks(o, s, u) \subseteq At(others, from .. u)
              /\ At(others, {u}) \subseteq NewLinks(o, s, u)
              /\ u = Start(o, s) => NewLinks(o, s, u) = At(others, from .. u)
              /\ \A d \in Links(o, s, u) : d[1] = o => d \in Own(o, s, u),
           Terms(o, s, t) = At(others, from .. t)
    PROVE  ExplainedCell(s, e, <<o, t>>)
  <1>1. Start(o, s) \in Int
    BY OutputStartsInside
  <1> DEFINE New(u) == NewLinks(o, s, u)
             cited == UNION {Links(o, s, u) : u \in Start(o, s) .. t}
  <1>2. \A u \in Start(o, s) .. t : /\ New(u) \subseteq At(others, from .. u)
                                    /\ At(others, {u}) \subseteq New(u)
                                    /\ u = Start(o, s) => New(u) = At(others, from .. u)
    OBVIOUS
  <1>3. {d \in cited : d[1] # o} = UNION {New(u) : u \in Start(o, s) .. t}
    BY DEF NewLinks
  <1>4. UNION {New(u) : u \in Start(o, s) .. t} = At(others, from .. t)
    <2> HIDE DEF New
    <2>1. ASSUME NEW u \in Start(o, s) .. t, NEW d \in New(u) PROVE d \in At(others, from .. t)
      <3>1. d \in At(others, from .. u) /\ u \in Int /\ u <= t
        <4>1. New(u) \subseteq At(others, from .. u)
          BY <1>2
        <4> QED
          BY <1>1, <2>1, <4>1
      <3> QED
        BY <3>1 DEF At
    <2>2. ASSUME NEW x \in others, NEW v \in from .. t
          PROVE  \E u \in Start(o, s) .. t : <<x, v>> \in New(u)
      <3>1. CASE v <= Start(o, s)
        <4>1. <<x, v>> \in At(others, from .. Start(o, s))
          BY <1>1, <3>1 DEF At
        <4>2. Start(o, s) \in Start(o, s) .. t
          BY <1>1
        <4> QED
          BY <1>2, <4>1, <4>2
      <3>2. CASE v > Start(o, s)
        <4>1. v \in Start(o, s) .. t /\ <<x, v>> \in At(others, {v})
          BY <1>1, <3>2 DEF At
        <4> QED
          BY <1>2, <4>1
      <3> QED
        BY <1>1, <3>1, <3>2
    <2>3. \A d \in At(others, from .. t) : \E u \in Start(o, s) .. t : d \in New(u)
      BY <2>2 DEF At
    <2> QED
      BY <2>1, <2>3
  <1>5. ASSUME NEW d \in Links(o, s, t)
        PROVE  d \in Cells(s, e) /\ d[2] <= t
    <2>1. CASE d[1] = o
      <3>1. d = <<o, t - 1>> /\ t > Start(o, s)
        <4>1. t \in Start(o, s) .. t
          BY <1>1
        <4>2. d \in Own(o, s, t)
          BY <1>5, <2>1, <4>1
        <4> QED
          BY <4>2 DEF Own
      <3> QED
        BY <1>1, <3>1, PairIsCell
    <2>2. CASE d[1] # o
      <3>1. d \in At(others, from .. t)
        <4>1. t \in Start(o, s) .. t
          BY <1>1
        <4>2. d \in NewLinks(o, s, t)
          BY <1>5, <2>2 DEF NewLinks
        <4> QED
          BY <4>1, <4>2
      <3>2. PICK x \in others, v \in from .. t : d = <<x, v>>
        BY <3>1 DEF At
      <3>3. x \in Outputs /\ Start(x, s) \in Int /\ Start(x, s) <= v /\ v \in Int /\ v <= t
        BY <3>2, OutputStartsInside
      <3> QED
        BY <3>2, <3>3, PairIsCell
    <2> QED
      BY <2>1, <2>2
  <1>6. \A d \in Links(o, s, t) : FirstInput(d[1], s, d[2]) >= FirstInput(o, s, t)
    BY <1>5, InputsInside
  <1> QED
    BY <1>3, <1>4, <1>5, <1>6 DEF ExplainedCell

LEMMA OwnIsOwn ==
    ASSUME NEW o, NEW s, NEW t, NEW d \in Own(o, s, t)
    PROVE  d[1] = o
  BY DEF Own

\* What the outputs of MACD cite of the averages.
LEMMA MacdExplained ==
    ASSUME NEW s \in Int, NEW e \in Int, NEW t \in Int, NEW o \in MacdOutputs,
           Start(o, s) <= t, t <= e
    PROVE  ExplainedCell(s, e, <<o, t>>)
  <1> DEFINE from == Start("macd_line", s)
  <1>1. /\ o \in Outputs /\ o \in Recursive /\ FirstInput(o, s, t) = s
        /\ Averages \in SUBSET (Outputs \ {o}) /\ o \notin Averages
    <2>1. o \in Outputs /\ o \in Recursive /\ Averages \subseteq Outputs
      BY DEF Outputs, Recursive
    <2>2. o \notin Averages
      BY DEF MacdOutputs, Averages
    <2>3. o \in Averages \cup MacdOutputs \cup DirectionalOutputs \cup {"rsi"}
      OBVIOUS
    <2>4. FirstInput(o, s, t) = s
      BY <2>3, FirstInputsAre
    <2> QED
      BY <2>1, <2>2, <2>4
  <1>2. /\ from \in Int /\ \A x \in Averages : Start(x, s) <= from
        /\ Start("ema_slow", s) = from /\ Start(o, s) \in Int
        /\ o # "macd_line" => Start(o, s) = from + Signal - 1
    <2>1. /\ Start("ema_fast", s) = s + Fast - 1 /\ Start("ema_slow", s) = s + Slow - 1
          /\ Start("macd_line", s) = s + Slow - 1
          /\ Start("macd_signal", s) = s + Slow + Signal - 2
          /\ Start("macd_histogram", s) = s + Slow + Signal - 2
      BY OutputStarts
    <2> QED
      BY <2>1, PeriodsArePositive DEF Periods, Averages, MacdOutputs
  <1>3. Terms(o, s, t) = At(Averages, from .. t)
    BY <1>2, TermsAre DEF MacdOutputs
  <1>4. ASSUME NEW u \in Start(o, s) .. t
        PROVE  /\ NewLinks(o, s, u) \subseteq At(Averages, from .. u)
               /\ At(Averages, {u}) \subseteq NewLinks(o, s, u)
               /\ u = Start(o, s) => NewLinks(o, s, u) = At(Averages, from .. u)
               /\ \A d \in Links(o, s, u) : d[1] = o => d \in Own(o, s, u)
    <2>1. u \in Int /\ from <= u /\ from \in Int /\ (o # "macd_line" /\ u # Start(o, s) => from <= u - 1)
      BY <1>2, PeriodsArePositive DEF Periods
    <2>2. PICK ts \in SUBSET (from .. u) :
            /\ Links(o, s, u) \ At(Averages, ts) \subseteq Own(o, s, u)
            /\ At(Averages, ts) \subseteq Links(o, s, u)
            /\ u \in ts /\ (u = Start(o, s) => ts = from .. u)
      <3>1. Links(o, s, u) = MacdLinks(o, s, u)
        BY LinksAre
      <3>2. CASE o = "macd_line"
        <4>1. MacdLinks(o, s, u) = At(Averages, {u}) \cup Own(o, s, u)
          BY <3>2 DEF MacdLinks
        <4>2. {u} \in SUBSET (from .. u) /\ (u = from => {u} = from .. u)
          BY <2>1
        <4> QED
          BY <3>1, <3>2, <4>1, <4>2
      <3>3. CASE o # "macd_line" /\ u = Start(o, s)
        <4>1. MacdLinks(o, s, u) = At(Averages, from .. u)
          BY <3>3 DEF MacdLinks, IsFirst
        <4> QED
          BY <2>1, <3>1, <4>1
      <3>4. CASE o = "macd_signal" /\ u # Start(o, s)
        <4>1. MacdLinks(o, s, u) = At(Averages, {u}) \cup Own(o, s, u)
          BY <3>4 DEF MacdLinks, IsFirst
        <4> QED
          BY <2>1, <3>1, <3>4, <4>1
      <3>5. CASE o = "macd_histogram" /\ u # Start(o, s)
        <4>1. MacdLinks(o, s, u) = At(Averages, {u - 1, u}) \cup Own(o, s, u)
          BY <3>5 DEF MacdLinks, IsFirst
        <4>2. {u - 1, u} \in SUBSET (from .. u)
          BY <2>1, <3>5
        <4> QED
          BY <3>1, <3>5, <4>1, <4>2
      <3> QED
        BY <3>2, <3>3, <3>4, <3>5 DEF MacdOutputs
    <2>3. \A d \in At(Averages, ts) : d[1] # o
      BY <1>1 DEF At
    <2>4. NewLinks(o, s, u) = At(Averages, ts)
      BY <2>2, <2>3, OwnIsOwn DEF NewLinks
    <2>5. At(Averages, ts) \subseteq At(Averages, from .. u) /\ At(Averages, {u}) \subseteq At(Averages, ts)
      BY <2>2 DEF At
    <2>6. \A d \in Links(o, s, u) : d[1] = o => d \in Own(o, s, u)
      BY <2>2, <2>3
    <2> QED
      BY <2>2, <2>4, <2>5, <2>6
  <1> HIDE DEF from
  <1> QED
    BY <1>1, <1>2, <1>3, <1>4, RecursiveExplained

\* The smoothed indicator and the average of the index: a first stretch of
\* Period values, then one value each.
LEMMA SmoothedExplained ==
    ASSUME NEW s \in Int, NEW e \in Int, NEW t \in Int, NEW o \in {"indicator", "adx"},
           Start(o, s) <= t, t <= e
    PROVE  ExplainedCell(s, e, <<o, t>>)
  <1> DEFINE others == IF o = "indicator" THEN Movements ELSE {"index"}
             from == Start(o, s) - Period + 1
  <1>1. /\ o \in Outputs /\ o \in Recursive /\ FirstInput(o, s, t) = s
        /\ others \in SUBSET (Outputs \ {o}) /\ o \notin others
    <2>1. o \in Outputs /\ o \in Recursive /\ o \in DirectionalOutputs
      BY DEF Outputs, Recursive, DirectionalOutputs
    <2>2. others \subseteq Outputs /\ o \notin others
      BY DEF Outputs, CandleOutputs, DirectionalOutputs, Movements
    <2>3. FirstInput(o, s, t) = s
      BY <2>1, FirstInputsAre
    <2> QED
      BY <2>1, <2>2, <2>3
  <1>2. /\ from \in Int /\ \A x \in others : Start(x, s) <= from
        /\ o = "indicator" => from = s + 1
        /\ o = "adx" => from = Start("index", s)
        /\ Start(o, s) \in Int /\ from <= Start(o, s)
    <2>1. /\ Start("true_range", s) = s + 1 /\ Start("directional_movement", s) = s + 1
          /\ Start("indicator", s) = s + Period /\ Start("index", s) = s + Period
          /\ Start("adx", s) = s + 2 * Period - 1
      BY OutputStarts
    <2> QED
      BY <2>1, PeriodsArePositive DEF Periods, Movements
  <1>3. Terms(o, s, t) = At(others, from .. t)
    <2>1. /\ Terms("indicator", s, t) = At(Movements, s + 1 .. t)
          /\ Terms("adx", s, t) = At({"index"}, Start("index", s) .. t)
      BY TermsAre
    <2> QED
      BY <1>2, <2>1
  <1>4. ASSUME NEW u \in Start(o, s) .. t
        PROVE  /\ NewLinks(o, s, u) \subseteq At(others, from .. u)
               /\ At(others, {u}) \subseteq NewLinks(o, s, u)
               /\ u = Start(o, s) => NewLinks(o, s, u) = At(others, from .. u)
               /\ \A d \in Links(o, s, u) : d[1] = o => d \in Own(o, s, u)
    <2>1. u \in Int /\ from <= u /\ from \in Int
      BY <1>2
    <2>2. Links(o, s, u) = IF u = Start(o, s) THEN At(others, from .. u)
                           ELSE At(others, {u}) \cup Own(o, s, u)
      <3>1. /\ Links("indicator", s, u) = IndicatorLinks(s, u)
            /\ Links("adx", s, u) = AverageIndexLinks(s, u)
        BY LinksAre
      <3>2. At({"index"}, {u}) = {<<"index", u>>}
        BY DEF At
      <3>3. CASE o = "indicator"
        BY <3>1, <3>3 DEF IndicatorLinks, IsFirst
      <3>4. CASE o = "adx"
        BY <3>1, <3>2, <3>4 DEF AverageIndexLinks, IsFirst
      <3> QED
        BY <3>3, <3>4
    <2>3. \A ts : \A d \in At(others, ts) : d[1] # o
      BY <1>1 DEF At
    <2>4. At(others, {u}) \subseteq At(others, from .. u)
      BY <2>1 DEF At
    <2> HIDE DEF others, from
    <2>5. NewLinks(o, s, u) = IF u = Start(o, s) THEN At(others, from .. u) ELSE At(others, {u})
      BY <2>2, <2>3, OwnIsOwn DEF NewLinks
    <2>6. \A d \in Links(o, s, u) : d[1] = o => d \in Own(o, s, u)
      BY <2>2, <2>3
    <2> QED
      BY <2>4, <2>5, <2>6
  <1> HIDE DEF from, others
  <1> QED
    BY <1>1, <1>2, <1>3, <1>4, RecursiveExplained

\* The index of one indicator, and the rating of two averages.
LEMMA RatingExplained ==
    ASSUME NEW s \in Int, NEW e \in Int, NEW t \in Int, NEW o \in {"index", "adxr"},
           Start(o, s) <= t, t <= e
    PROVE  ExplainedCell(s, e, <<o, t>>)
  <1>1. Periods /\ o \notin Recursive /\ FirstInput(o, s, t) = s
    BY PeriodsArePositive, FirstInputsAre DEF Recursive, Averages, MacdOutputs, DirectionalOutputs
  <1>2. Links(o, s, t) = Terms(o, s, t)
    <2>1. /\ Links("index", s, t) = {<<"indicator", t>>}
          /\ Links("adxr", s, t) = {<<"adx", t>>, <<"adx", t - Period>>}
      BY LinksAre DEF IndexLinks, RatingLinks
    <2>2. /\ Terms("index", s, t) = {<<"indicator", t>>}
          /\ Terms("adxr", s, t) = {<<"adx", t>>, <<"adx", t - Period>>}
      BY TermsAre
    <2> QED
      BY <2>1, <2>2
  <1>3. ASSUME NEW d \in Links(o, s, t)
        PROVE  d[1] # o /\ d \in Cells(s, e) /\ d[2] <= t
    <2>1. {"indicator", "adx"} \subseteq Outputs
      BY DEF Outputs, DirectionalOutputs
    <2>2. /\ Start("index", s) = s + Period /\ Start("indicator", s) = s + Period
          /\ Start("adx", s) = s + 2 * Period - 1 /\ Start("adxr", s) = s + 3 * Period - 1
      BY OutputStarts
    <2>3. CASE o = "index"
      <3>1. d = <<"indicator", t>> /\ Start("indicator", s) <= t
        BY <1>3, <2>2, <2>3, LinksAre DEF IndexLinks
      <3> QED
        BY <2>1, <2>3, <3>1, PairIsCell
    <2>4. CASE o = "adxr"
      <3>1. PICK u \in {t, t - Period} : d = <<"adx", u>>
        BY <1>3, <2>4, LinksAre DEF RatingLinks
      <3>2. u \in Int /\ u <= t /\ Start("adx", s) <= u
        BY <1>1, <2>2, <2>4, <3>1 DEF Periods
      <3> QED
        BY <2>1, <2>4, <3>1, <3>2, PairIsCell
    <2> QED
      BY <2>3, <2>4
  <1>4. \A d \in Links(o, s, t) : FirstInput(d[1], s, d[2]) >= FirstInput(o, s, t)
    BY <1>1, <1>3, InputsInside
  <1> QED
    BY <1>1, <1>2, <1>3, <1>4 DEF ExplainedCell

\* Every snapshot's lineage explains its values, whatever the periods are.
LEMMA EveryCellExplained ==
    ASSUME NEW s \in 1 .. LastCandle, NEW e \in s .. LastCandle
    PROVE  Explained[s][e]
  <1>1. LastCandle \in Nat /\ s \in Int /\ e \in Int
    BY IntradayAssumption
  <1>2. ASSUME NEW c \in Cells(s, e) PROVE ExplainedCell(s, e, c)
    <2>1. /\ c = <<c[1], c[2]>> /\ c[1] \in Outputs
          /\ c[2] \in Int /\ Start(c[1], s) <= c[2] /\ c[2] <= e
      BY <1>1, CellsAre
    <2>2. /\ \/ c[1] \in CandleOutputs \cup Averages \cup {"rsi"}
             \/ c[1] \in {"average_true_range", "deviation", "bollinger"}
             \/ c[1] \in MacdOutputs
             \/ c[1] \in {"indicator", "adx"}
             \/ c[1] \in {"index", "adxr"}
      BY <2>1 DEF Outputs, DirectionalOutputs
    <2>3. ExplainedCell(s, e, <<c[1], c[2]>>)
      BY <1>1, <2>1, <2>2, PlainExplained, BoundedExplained, MacdExplained, SmoothedExplained,
         RatingExplained
    <2> QED
      BY <2>1, <2>3
  <1>3. Explained[s][e] = \A c \in Cells(s, e) : ExplainedCell(s, e, c)
    BY DEF Explained, ExplainedCell
  <1> QED
    BY <1>2, <1>3

-----------------------------------------------------------------------------
(* Insertions.                                                                *)

\* Every result's rows are stored, and the insertions they count are the rows.
CountsAddUp ==
    /\ IsFiniteSet(rows)
    /\ \A r \in DOMAIN results : /\ {"inserted", "active"} \subseteq DOMAIN results[r]
                                 /\ results[r].members \subseteq rows
                                 /\ results[r].inserted \in Nat
    /\ IsFiniteSet(Insertions)
    /\ EachValueInsertedOnce

ResultFields == {"from", "to", "members", "inserted", "active"}
ResultRow(r) == <<r.from, r.to, r.members, r.inserted>>

\* A longer result from the same first candle has all the cells of a shorter one.
LEMMA LongerHasCells ==
    ASSUME NEW s \in Int, NEW e \in Int, NEW f \in Int, e <= f
    PROVE  Cells(s, e) \subseteq Cells(s, f)
  BY CellsAre

\* A run over the candles of an earlier run finds every value stored.
LEMMA NothingMissing ==
    ASSUME SourcesStand, CountsAddUp, NEW w, w.from \in Int, w.to \in Int,
           NEW r \in DOMAIN results, results[r].from = w.from, results[r].to >= w.to
    PROVE  Missing(w) = {}
  <1> DEFINE x == [from |-> results[r].from, to |-> results[r].to, batchOf |-> stored]
  <1>1. /\ results[r].members = Computed(x) /\ results[r].members \subseteq rows
        /\ results[r].to \in Int
    BY DEF SourcesStand, ClaimsItsSources, Sourced, CountsAddUp
  <1>2. x.from = w.from /\ x.to = results[r].to
    OBVIOUS
  <1> HIDE DEF x
  <1>3. \A c \in Cells(w.from, w.to) : Value(c, x.from, x.batchOf) \in rows
    BY <1>1, <1>2, LongerHasCells DEF Computed
  <1>4. \A c, y, z : Identity(Value(c, y, z)) = <<c[1], c[2]>>
    BY DEF Identity, Value
  <1>5. ASSUME NEW v \in Computed(w) PROVE \E q \in rows : Identity(q) = Identity(v)
    BY <1>3, <1>4 DEF Computed
  <1> QED
    BY <1>5 DEF Missing

\* A step that changes neither the rows nor the results.
LEMMA CountsStay ==
    ASSUME CountsAddUp, UNCHANGED <<rows, results>>
    PROVE  CountsAddUp'
  BY DEF CountsAddUp, EachValueInsertedOnce, Insertions

LEMMA AppendResult ==
    ASSUME NEW s, Len(s) \in Nat, DOMAIN s = 1 .. Len(s),
           \A r \in DOMAIN s : ResultFields \subseteq DOMAIN s[r], NEW row
    PROVE  LET t == Append([r \in DOMAIN s |-> [s[r] EXCEPT !.active = FALSE]], row)
           IN  /\ Len(t) = Len(s) + 1 /\ DOMAIN t = 1 .. Len(s) + 1
               /\ t[Len(s) + 1] = row
               /\ \A r \in DOMAIN s : /\ ResultRow(t[r]) = ResultRow(s[r])
                                      /\ ResultFields \subseteq DOMAIN t[r]
                                      /\ ~ t[r].active
  <1> DEFINE before == [r \in DOMAIN s |-> [s[r] EXCEPT !.active = FALSE]]
             T == {before[r] : r \in DOMAIN s}
  <1>1. before \in [1 .. Len(s) -> T]
    OBVIOUS
  <1>2. \A r \in DOMAIN s : /\ ResultRow(before[r]) = ResultRow(s[r])
                            /\ ResultFields \subseteq DOMAIN before[r]
                            /\ ~ before[r].active
    BY DEF ResultRow, ResultFields
  <1> HIDE DEF before, T
  <1>3. before \in Seq(T) /\ Len(before) = Len(s)
    BY <1>1
  <1>4. /\ Len(Append(before, row)) = Len(before) + 1
        /\ \A r \in 1 .. Len(before) : Append(before, row)[r] = before[r]
        /\ Append(before, row)[Len(before) + 1] = row
        /\ DOMAIN Append(before, row) = 1 .. Len(before) + 1
    BY <1>3
  <1> QED
    BY <1>2, <1>3, <1>4 DEF before

LEMMA InsertCounts ==
    ASSUME SourcesStand, CountsAddUp, NEW p \in Writers, InsertAndPromote(p)
    PROVE  CountsAddUp'
  <1> DEFINE w == writer[p]
             fresh == Missing(w)
             found == Existing(w) \cup fresh
             run == Len(results) + 1
             claim == [from |-> w.from, to |-> w.to, members |-> found,
                       inserted |-> Cardinality(fresh), active |-> TRUE]
             accepted == Agrees(found, w) /\ Cardinality(found) = Cardinality(Computed(w))
             n == Cardinality(fresh)
  <1>1. CASE ~ accepted
    <2>1. UNCHANGED <<rows, results>>
      BY <1>1 DEF InsertAndPromote
    <2> QED
      BY <2>1, CountsStay
  <1>2. CASE accepted
    <2>1. /\ rows' = rows \cup fresh
          /\ results' = Append([r \in DOMAIN results |-> [results[r] EXCEPT !.active = FALSE]], claim)
      BY <1>2 DEF InsertAndPromote
    <2>2. HoldsSources(w) /\ w.from \in Int /\ w.to \in Int
      BY DEF InsertAndPromote, Has, SourcesStand, HoldsSources, Sourced
    <2>3. /\ Len(results) \in Nat /\ DOMAIN results = 1 .. Len(results)
          /\ \A r \in DOMAIN results : ResultFields \subseteq DOMAIN results[r]
      BY DEF SourcesStand, ClaimsItsSources, CountsAddUp, ResultFields
    <2>4. /\ claim.from = w.from /\ claim.to = w.to /\ claim.members = found
          /\ claim.inserted = n /\ ResultFields \subseteq DOMAIN claim
      BY DEF ResultFields
    <2> HIDE DEF claim
    <2>5. /\ DOMAIN results' = DOMAIN results \cup {run} /\ run \in Nat /\ run \notin DOMAIN results
          /\ results'[run] = claim
          /\ \A r \in DOMAIN results : /\ ResultRow(results'[r]) = ResultRow(results[r])
                                       /\ ResultFields \subseteq DOMAIN results'[r]
      <3> DEFINE t == Append([r \in DOMAIN results |-> [results[r] EXCEPT !.active = FALSE]], claim)
      <3>1. /\ DOMAIN t = 1 .. Len(results) + 1
            /\ t[Len(results) + 1] = claim
            /\ \A r \in DOMAIN results : /\ ResultRow(t[r]) = ResultRow(results[r])
                                         /\ ResultFields \subseteq DOMAIN t[r]
        BY <2>3, AppendResult
      <3>2. results' = t
        BY <2>1
      <3> HIDE DEF t
      <3> QED
        BY <2>3, <3>1, <3>2
    <2>6. \A r \in DOMAIN results : /\ results'[r].from = results[r].from
                                    /\ results'[r].to = results[r].to
                                    /\ results'[r].members = results[r].members
                                    /\ results'[r].inserted = results[r].inserted
      BY <2>5 DEF ResultRow
    <2>7. /\ IsFiniteSet(fresh) /\ n \in Nat /\ fresh \cap rows = {}
      <3>1. fresh \in SUBSET Computed(w) /\ fresh \cap rows = {}
        BY DEF Missing
      <3> QED
        BY <2>2, <3>1, ComputedIsFinite, FS_Subset, FS_CardinalityType
    <2> HIDE DEF fresh, n, w, run
    <2>8. IsFiniteSet(rows') /\ Cardinality(rows') = Cardinality(rows) + n
      <3>1. IsFiniteSet(rows)
        BY DEF CountsAddUp
      <3>2. /\ IsFiniteSet(rows \cup fresh)
            /\ Cardinality(rows \cup fresh)
                 = Cardinality(rows) + Cardinality(fresh) - Cardinality(rows \cap fresh)
        BY <2>7, <3>1, FS_Union
      <3>3. Cardinality(rows \cap fresh) = 0 /\ Cardinality(rows) \in Nat
        BY <2>7, <3>1, FS_EmptySet, FS_CardinalityType
      <3> QED
        BY <2>1, <2>7, <3>2, <3>3 DEF n
    <2>9. Insertions' = Insertions \cup ({run} \X (1 .. n))
      <3>1. \A r \in DOMAIN results : {r} \X (1 .. results'[r].inserted) = {r} \X (1 .. results[r].inserted)
        BY <2>6
      <3>2. results'[run].inserted = n
        BY <2>4, <2>5
      <3> QED
        BY <2>5, <3>1, <3>2 DEF Insertions
    <2>10. IsFiniteSet(Insertions') /\ Cardinality(Insertions') = Cardinality(Insertions) + n
      <3> DEFINE New == {run} \X (1 .. n)
      <3>1. IsFiniteSet({run}) /\ Cardinality({run}) = 1
        BY FS_Singleton
      <3>2. IsFiniteSet(1 .. n) /\ Cardinality(1 .. n) = n
        BY <2>7, FS_Interval
      <3>3. IsFiniteSet(New) /\ Cardinality(New) = n
        <4>1. IsFiniteSet(New) /\ Cardinality(New) = Cardinality({run}) * Cardinality(1 .. n)
          BY <3>1, <3>2, FS_Product
        <4> QED
          BY <2>7, <3>1, <3>2, <4>1
      <3>4. New \cap Insertions = {}
        BY <2>5 DEF Insertions
      <3>5. IsFiniteSet(Insertions)
        BY DEF CountsAddUp
      <3> HIDE DEF New
      <3>6. /\ IsFiniteSet(Insertions \cup New)
            /\ Cardinality(Insertions \cup New)
                 = Cardinality(Insertions) + Cardinality(New) - Cardinality(Insertions \cap New)
        BY <3>3, <3>5, FS_Union
      <3>7. Cardinality(Insertions \cap New) = 0 /\ Cardinality(Insertions) \in Nat
        BY <3>4, <3>5, FS_EmptySet, FS_CardinalityType
      <3> QED
        BY <2>7, <2>9, <3>3, <3>6, <3>7 DEF New
    <2>11. ASSUME NEW q \in DOMAIN results', NEW r \in 1 .. q - 1,
                  results'[r].from = results'[q].from, results'[r].to >= results'[q].to
           PROVE  results'[q].inserted = 0
      <3>1. q \in 1 .. run /\ r \in DOMAIN results
        BY <2>3, <2>5, <2>11 DEF run
      <3>2. CASE q = run
        <4>1. results[r].from = w.from /\ results[r].to >= w.to
          BY <2>4, <2>5, <2>6, <2>11, <3>1, <3>2
        <4>2. fresh = {}
          BY <2>2, <3>1, <4>1, NothingMissing DEF fresh
        <4> QED
          BY <2>4, <2>5, <3>2, <4>2, FS_EmptySet DEF n
      <3>3. CASE q # run
        <4>1. q \in DOMAIN results
          BY <2>5, <2>11, <3>3
        <4>2. results[r].from = results[q].from /\ results[r].to >= results[q].to
          BY <2>6, <2>11, <3>1, <4>1
        <4>3. results[q].inserted = 0
          BY <2>11, <4>1, <4>2 DEF CountsAddUp, EachValueInsertedOnce
        <4> QED
          BY <2>6, <4>1, <4>3
      <3> QED
        BY <3>2, <3>3
    <2>12. Cardinality(Insertions') = Cardinality(rows')
      BY <2>8, <2>10 DEF CountsAddUp, EachValueInsertedOnce
    <2>13. EachValueInsertedOnce'
      BY <2>11, <2>12 DEF EachValueInsertedOnce
    <2>14. ASSUME NEW r \in DOMAIN results'
           PROVE  /\ {"inserted", "active"} \subseteq DOMAIN results'[r]
                  /\ results'[r].members \subseteq rows'
                  /\ results'[r].inserted \in Nat
      <3>1. CASE r = run
        <4>1. found \subseteq rows'
          BY <2>1 DEF found, Existing
        <4> HIDE DEF found
        <4> QED
          BY <2>4, <2>5, <2>7, <3>1, <4>1 DEF ResultFields
      <3>2. CASE r # run
        BY <2>1, <2>5, <2>6, <2>14, <3>2 DEF CountsAddUp, ResultFields
      <3> QED
        BY <3>1, <3>2
    <2> QED
      BY <2>8, <2>10, <2>13, <2>14 DEF CountsAddUp
  <1> QED
    BY <1>1, <1>2

LEMMA CountsInvariant == IntradaySpec => [](SourcesStand /\ CountsAddUp)
  <1>1. IntradayInit => SourcesStand /\ CountsAddUp
    <2> SUFFICES ASSUME IntradayInit PROVE SourcesStand /\ CountsAddUp
      OBVIOUS
    <2>1. SourcesStand
      BY SourcesInit
    <2>2. Insertions = {} /\ rows = {} /\ DOMAIN results = {}
      BY DEF IntradayInit, Insertions
    <2>3. Cardinality(Insertions) = Cardinality(rows) /\ IsFiniteSet(Insertions) /\ IsFiniteSet(rows)
      BY <2>2, FS_EmptySet
    <2>4. CountsAddUp
      BY <2>2, <2>3 DEF CountsAddUp, EachValueInsertedOnce
    <2> QED
      BY <2>1, <2>4
  <1>2. SourcesStand /\ CountsAddUp /\ [IntradayNext]_intradayVars => CountsAddUp'
    <2> SUFFICES ASSUME SourcesStand, CountsAddUp, [IntradayNext]_intradayVars PROVE CountsAddUp'
      OBVIOUS
    <2>1. CASE UNCHANGED <<rows, results>>
      BY <2>1, CountsStay
    <2>2. ASSUME NEW p \in Writers, InsertAndPromote(p) PROVE CountsAddUp'
      BY <2>2, InsertCounts
    <2> QED
      BY <2>1, <2>2
      DEF IntradayNext, intradayVars, StorePage, LoadSnapshot, CountValues, VerifySources,
          ReportLive, FailWrite
  <1> QED
    BY <1>1, <1>2, SourcesNext, PTL DEF IntradaySpec

\* However often and by however many sessions a result is computed and stored:
\* each value is inserted by one run (INSERT ... ON CONFLICT DO NOTHING and the
\* counts of persist_intraday_feature_result).
THEOREM EachValueIsInsertedOnce == IntradaySpec => []EachValueInsertedOnce
  <1>1. CountsAddUp => EachValueInsertedOnce
    BY DEF CountsAddUp
  <1> QED
    BY <1>1, CountsInvariant, PTL

\* The dependency rows of every run explain its values, for every choice of the
\* periods (_feature_dependency_memberships and the formulas of the registry).
THEOREM LineageAlwaysExplains == IntradaySpec => []LineageExplainsValues
  <1>1. SourcesStand => LineageExplainsValues
    <2> SUFFICES ASSUME SourcesStand, NEW r \in DOMAIN results
                 PROVE  Explained[results[r].from][results[r].to]
      BY DEF LineageExplainsValues
    <2>1. Sourced(results[r])
      BY DEF SourcesStand, ClaimsItsSources
    <2>2. results[r].from \in 1 .. LastCandle /\ results[r].to \in results[r].from .. LastCandle
      BY <2>1 DEF Sourced
    <2> QED
      BY <2>2, EveryCellExplained
  <1> QED
    BY <1>1, CountsInvariant, PTL

-----------------------------------------------------------------------------
(* Types.                                                                     *)

OneRowPerIdentity == \A v, x \in rows : Identity(v) = Identity(x) => v = x
ActiveResults == {r \in DOMAIN results : results[r].active}

IntradayTypes ==
    /\ stored \in [1 .. LastCandle -> 0 .. MaxFeeds] /\ pageCount \in 0 .. MaxFeeds
    /\ disputed \subseteq Candles
    /\ rows \subseteq ValueRows /\ OneRowPerIdentity
    /\ \A q, r \in ActiveResults : q = r

\* A value depends on no later candle.
LEMMA InputsNotLater ==
    ASSUME NEW s \in Int, NEW e \in Int, NEW d \in Cells(s, e)
    PROVE  FirstInput(d[1], s, d[2]) \in Int /\ FirstInput(d[1], s, d[2]) <= d[2]
  <1>1. d[1] \in Outputs /\ d[2] \in Int /\ Start(d[1], s) <= d[2]
        /\ Start(d[1], s) \in Int /\ Start(d[1], s) >= s
    BY CellsAre, OutputStartsInside
  <1> DEFINE o == d[1]
             t == d[2]
  <1>2. \/ o \in CandleOutputs \cup {"deviation", "bollinger", "average_true_range"}
        \/ o \in Averages \cup MacdOutputs \cup DirectionalOutputs \cup {"rsi"}
    BY <1>1 DEF Outputs
  <1> HIDE DEF o, t
  <1>3. CASE o \in CandleOutputs \cup {"deviation", "bollinger", "average_true_range"}
    <2>1. FirstInput(o, s, t) \in {t, t - 1, t - Statistical + 1, t - Period}
      BY <1>3, FirstInputsAre DEF CandleOutputs
    <2>2. t \in Int /\ Periods
      BY <1>1, PeriodsArePositive DEF t
    <2> QED
      BY <2>1, <2>2 DEF Periods, o, t
  <1>4. CASE o \in Averages \cup MacdOutputs \cup DirectionalOutputs \cup {"rsi"}
    <2>1. FirstInput(o, s, t) = s
      BY <1>4, FirstInputsAre
    <2> QED
      BY <1>1, <2>1 DEF o, t
  <1> QED
    BY <1>2, <1>3, <1>4

\* A result computed from stored candles has rows of the table, one per cell.
LEMMA ResultTyped ==
    ASSUME IntradayTypes, NEW w, HoldsSources(w)
    PROVE  /\ Computed(w) \subseteq ValueRows
           /\ \A v, x \in Computed(w) : Identity(v) = Identity(x) => v = x
  <1>1. /\ w.from \in Int /\ w.to \in Int
        /\ \A t \in w.from .. w.to :
             t \in 1 .. LastCandle /\ stored[t] # 0 /\ w.batchOf[t] = stored[t]
    BY DEF HoldsSources, Sourced
  <1>2. ASSUME NEW c \in Cells(w.from, w.to)
        PROVE  Value(c, w.from, w.batchOf) \in ValueRows
    <2>1. c[1] \in Outputs /\ c[2] \in w.from .. w.to
      BY <1>1, CellsInside
    <2>2. c[2] \in 1 .. LastCandle /\ w.batchOf[c[2]] \in 1 .. MaxFeeds
      <3>1. c[2] \in 1 .. LastCandle /\ stored[c[2]] # 0 /\ w.batchOf[c[2]] = stored[c[2]]
        BY <1>1, <2>1
      <3>2. stored[c[2]] \in 0 .. MaxFeeds
        BY <3>1 DEF IntradayTypes
      <3> QED
        BY <3>1, <3>2, IntradayBounds
    <2>3. FirstInput(c[1], w.from, c[2]) \in w.from .. c[2]
      BY <1>1, InputsInside, InputsNotLater
    <2>4. w.from \in 1 .. LastCandle
      BY <1>1, <2>1
    <2>5. FirstInput(c[1], w.from, c[2]) \in 1 .. LastCandle
      <3> DEFINE f == FirstInput(c[1], w.from, c[2])
      <3>1. f \in w.from .. c[2]
        BY <2>3
      <3> HIDE DEF f
      <3>2. f \in 1 .. LastCandle
        BY <2>2, <2>4, <3>1, IntradayAssumption
      <3> QED
        BY <3>2 DEF f
    <2> QED
      BY <2>1, <2>2, <2>5 DEF Value, ValueRows
  <1>3. ASSUME NEW c \in Cells(w.from, w.to), NEW d \in Cells(w.from, w.to),
               Identity(Value(c, w.from, w.batchOf)) = Identity(Value(d, w.from, w.batchOf))
        PROVE  c = d
    <2>1. c = <<c[1], c[2]>> /\ d = <<d[1], d[2]>>
      BY <1>1, CellsAre
    <2>2. c[1] = d[1] /\ c[2] = d[2]
      BY <1>3 DEF Identity, Value
    <2> QED
      BY <2>1, <2>2
  <1> QED
    BY <1>2, <1>3 DEF Computed

LEMMA StorePageTyped ==
    ASSUME IntradayTypes, NEW w \in FeedWindows, NEW c \in BOOLEAN, StorePage(w, c)
    PROVE  IntradayTypes'
  <1>1. /\ UNCHANGED <<rows, results>> /\ pageCount' = pageCount + 1 /\ pageCount < MaxFeeds
        /\ pageCount' \in 1 .. MaxFeeds
    BY IntradayBounds DEF StorePage, IntradayTypes
  <1>2. DOMAIN stored = 1 .. LastCandle
    BY DEF IntradayTypes
  <1>3. CASE /\ stored' = [t \in DOMAIN stored |->
                             IF t \in w[1] .. w[2] /\ stored[t] = 0 THEN pageCount'
                             ELSE stored[t]]
             /\ disputed' = disputed
    <2>1. stored' \in [1 .. LastCandle -> 0 .. MaxFeeds]
      BY <1>1, <1>2, <1>3 DEF IntradayTypes
    <2>2. Candles \subseteq Candles'
      BY <1>1, <1>2, <1>3, <2>1 DEF Candles
    <2> QED
      BY <1>1, <1>3, <2>1, <2>2 DEF IntradayTypes, OneRowPerIdentity, ActiveResults
  <1>4. CASE stored[w[2]] # 0 /\ disputed' = disputed \cup {w[2]} /\ stored' = stored
    <2>1. w[2] \in Candles
      BY <1>2, <1>4, IntradayBounds DEF Candles
    <2>2. Candles' = Candles
      BY <1>4 DEF Candles
    <2> QED
      BY <1>1, <1>4, <2>1, <2>2 DEF IntradayTypes, OneRowPerIdentity, ActiveResults
  <1> QED
    BY <1>3, <1>4 DEF StorePage

LEMMA InsertTyped ==
    ASSUME SourcesStand, CountsAddUp, IntradayTypes, NEW p \in Writers, InsertAndPromote(p)
    PROVE  IntradayTypes'
  <1> DEFINE w == writer[p]
             fresh == Missing(w)
             found == Existing(w) \cup fresh
             claim == [from |-> w.from, to |-> w.to, members |-> found,
                       inserted |-> Cardinality(fresh), active |-> TRUE]
             before == [r \in DOMAIN results |-> [results[r] EXCEPT !.active = FALSE]]
  <1>1. UNCHANGED <<stored, pageCount, disputed>> /\ HoldsSources(w)
    BY DEF InsertAndPromote, Has, SourcesStand
  <1>2. CASE UNCHANGED <<rows, results>>
    BY <1>1, <1>2 DEF IntradayTypes, OneRowPerIdentity, ActiveResults, Candles
  <1>3. CASE rows' = rows \cup fresh /\ results' = Append(before, claim)
    <2>1. /\ fresh \subseteq Computed(w)
          /\ \A v \in fresh : \A r \in rows : Identity(r) # Identity(v)
      BY DEF Missing
    <2>2. rows' \subseteq ValueRows /\ OneRowPerIdentity'
      <3>1. Computed(w) \subseteq ValueRows
            /\ \A v, x \in Computed(w) : Identity(v) = Identity(x) => v = x
        BY <1>1, ResultTyped
      <3> HIDE DEF fresh
      <3> QED
        BY <1>3, <2>1, <3>1 DEF IntradayTypes, OneRowPerIdentity, Identity
    <2>3. \A q, r \in ActiveResults' : q = r
      <3>1. claim.active /\ Len(results) \in Nat /\ DOMAIN results = 1 .. Len(results)
            /\ \A r \in DOMAIN results : ResultFields \subseteq DOMAIN results[r]
        BY DEF SourcesStand, ClaimsItsSources, CountsAddUp, ResultFields
      <3> HIDE DEF claim
      <3> DEFINE t == Append(before, claim)
      <3>2. /\ DOMAIN t = 1 .. Len(results) + 1 /\ t[Len(results) + 1] = claim
            /\ \A r \in DOMAIN results : ~ t[r].active
        BY <3>1, AppendResult
      <3>3. results' = t
        BY <1>3
      <3> HIDE DEF t
      <3>4. \A r \in DOMAIN results' : r \in DOMAIN results \/ r = Len(results) + 1
        BY <3>1, <3>2, <3>3
      <3> QED
        BY <3>2, <3>3, <3>4 DEF ActiveResults
    <2>4. Candles' = Candles
      BY <1>1 DEF Candles
    <2> QED
      BY <1>1, <2>2, <2>3, <2>4 DEF IntradayTypes
  <1> QED
    BY <1>2, <1>3 DEF InsertAndPromote

LEMMA IntradayTypesNext ==
    SourcesStand /\ CountsAddUp /\ IntradayTypes /\ [IntradayNext]_intradayVars
      => IntradayTypes'
  <1> SUFFICES ASSUME SourcesStand, CountsAddUp, IntradayTypes, [IntradayNext]_intradayVars
               PROVE  IntradayTypes'
    OBVIOUS
  <1>1. CASE UNCHANGED <<stored, pageCount, disputed, rows, results>>
    BY <1>1 DEF IntradayTypes, OneRowPerIdentity, ActiveResults, Candles
  <1>2. CASE \E w \in FeedWindows, c \in BOOLEAN : StorePage(w, c)
    BY <1>2, StorePageTyped
  <1>3. CASE \E p \in Writers : InsertAndPromote(p)
    BY <1>3, InsertTyped
  <1> QED
    BY <1>1, <1>2, <1>3
    DEF IntradayNext, intradayVars, LoadSnapshot, CountValues, VerifySources, ReportLive,
        FailWrite

\* As many identities as rows, and no two active results.
LEMMA TypesHold ==
    ASSUME SourcesStand, CountsAddUp, IntradayTypes PROVE IntradayTypeOK
  <1>1. Cardinality({Identity(v) : v \in rows}) = Cardinality(rows)
    <2> DEFINE names == {Identity(v) : v \in rows}
               f == [v \in rows |-> Identity(v)]
    <2>1. f \in [rows -> names] /\ \A x \in names : \E v \in rows : f[v] = x
      OBVIOUS
    <2>2. \A v, x \in rows : f[v] = f[x] => v = x
      BY DEF IntradayTypes, OneRowPerIdentity
    <2> HIDE DEF f, names
    <2>3. f \in Bijection(rows, names)
      BY <2>1, <2>2 DEF Bijection, Injection, Surjection, IsInjective
    <2>4. ExistsBijection(rows, names) /\ IsFiniteSet(rows)
      BY <2>3 DEF ExistsBijection, CountsAddUp
    <2>5. Cardinality(names) = Cardinality(rows)
      BY <2>4, FS_Bijection
    <2> QED
      BY <2>5 DEF names
  <1>2. Cardinality(ActiveResults) <= 1
    <2>1. CASE ActiveResults = {}
      BY <2>1, FS_EmptySet
    <2>2. ASSUME NEW r \in ActiveResults PROVE Cardinality(ActiveResults) <= 1
      <3>1. \A q \in ActiveResults : q = r
        BY DEF IntradayTypes
      <3> HIDE DEF ActiveResults
      <3>2. ActiveResults = {r}
        BY <3>1
      <3> QED
        BY <3>2, FS_Singleton
    <2> QED
      BY <2>1, <2>2
  <1>3. ASSUME NEW r \in DOMAIN results
        PROVE  /\ results[r].from \in 1 .. LastCandle
               /\ results[r].to \in results[r].from .. LastCandle
               /\ results[r].members \subseteq rows
    <2>1. Sourced(results[r]) /\ results[r].members \subseteq rows
      BY DEF SourcesStand, ClaimsItsSources, CountsAddUp
    <2>2. results[r].from \in 1 .. LastCandle /\ results[r].to \in 1 .. LastCandle
          /\ results[r].from <= results[r].to
      BY <2>1 DEF Sourced
    <2> QED
      BY <2>1, <2>2, IntradayAssumption
  <1> QED
    BY <1>1, <1>2, <1>3 DEF IntradayTypes, IntradayTypeOK, ActiveResults

\* Whatever sessions race: one stored row per output and candle, of an output,
\* candles and a page there are, and at most one active run, over stored candles
\* and stored rows (engineered_features and feature_pipeline_runs).
THEOREM IntradayTypeCorrect == IntradaySpec => []IntradayTypeOK
  <1>1. IntradayInit => IntradayTypes
    BY IntradayAssumption, IntradayBounds
       DEF IntradayInit, IntradayTypes, OneRowPerIdentity, ActiveResults
  <1> QED
    BY <1>1, CountsInvariant, IntradayTypesNext, TypesHold, PTL DEF IntradaySpec
=============================================================================
