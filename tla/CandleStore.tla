----------------------------- MODULE CandleStore -----------------------------
(***************************************************************************)
(* The canonical candle table and the one transaction that writes it:      *)
(* persist_historical_sample of backend/app/persistence/candles.py, with   *)
(* the classification of incoming evidence in market_data/conflicts.py.    *)
(*                                                                         *)
(* A store is a function from candle timestamps (counted in intervals of   *)
(* the timeframe) to the canonical observation or NoCandle: the table's    *)
(* unique constraint allows one row per timestamp.  OHLCV evidence is an   *)
(* opaque value and a hash of a candle sequence is that sequence: SHA-256  *)
(* collisions are out of scope.  A window of candles that passed           *)
(* validate_candles is contiguous, so it is a function on first..until-1.  *)
(*                                                                         *)
(* The transaction takes pg_advisory_xact_lock before it reads the table   *)
(* and holds it to the commit, so writers are serialised and each write is *)
(* one step of the modules that use these operators.                       *)
(***************************************************************************)
EXTENDS Integers, FiniteSets

NoCandle == [value |-> "none", batch |-> 0]

\* The timestamps of a validated provider window.
Window(s) == s.first .. (s.until - 1)

\* Mutant: no comparison with the canonical rows.
NoConflicts(store, s) == {}
\* Timestamps of the window at which the canonical row carries other values.
SourceConflicts(store, s) ==
    {t \in Window(s) : store[t] # NoCandle /\ store[t].value # s.value[t]}

\* Timestamps of the window with no canonical row yet.
Fresh(store, s) == {t \in Window(s) : store[t] = NoCandle}

\* Mutant: stored rows are overwritten.
Upsert(store, s, b) ==
    [t \in DOMAIN store |->
        IF t \in Window(s) THEN [value |-> s.value[t], batch |-> b] ELSE store[t]]
\* Insert-only promotion (ON CONFLICT DO NOTHING): stored rows keep their value.
Promote(store, s, b) ==
    [t \in DOMAIN store |->
        IF t \in Fresh(store, s) THEN [value |-> s.value[t], batch |-> b]
                                 ELSE store[t]]

\* What the transaction does to the table.  Native 5m/15m windows are compared
\* first and one conflict keeps the whole window out; the derived 10m and the
\* daily windows are promoted with no comparison.
PersistNative(store, s, b) ==
    IF SourceConflicts(store, s) = {} THEN Promote(store, s, b) ELSE store
PersistUnchecked(store, s, b) == Promote(store, s, b)

\* Mutant: the batch counts rows that the conflict kept out.
CountedDespiteConflict(store, s) == Fresh(store, s)
\* The timestamps the transaction inserts (persisted_candle_count of them).
InsertedNative(store, s) ==
    IF SourceConflicts(store, s) = {} THEN Fresh(store, s) ELSE {}

\* The canonical window agrees with the evidence, row for row.
Holds(store, s) == \A t \in Window(s) : store[t] # NoCandle /\ store[t].value = s.value[t]

\* The rows a batch contributed.
RowsOf(store, b) == {t \in DOMAIN store : store[t].batch = b}
==============================================================================
