----------------------------- MODULE PaperTrading -----------------------------
(* The paper-trading session of one configuration: the engine and portfolio   *)
(* (paper_trading/engine.py, portfolio.py), the daily snapshot it is fed      *)
(* (market_data.py) and the append-only chain of reports that is its only     *)
(* memory (persistence/paper_trading.py). Workers run cycles concurrently,    *)
(* each in a transaction that reads the latest report, computes and inserts;  *)
(* a worker may stop at any point, and a cycle that raises persists nothing.  *)
(*                                                                            *)
(* Days are counted from the session's first completed candle. The model's    *)
(* EMA and window-dependent features make a prediction a function of the      *)
(* snapshot as much as of the candle, so the action forecast for a candle is  *)
(* chosen when a cycle processes it.                                          *)
EXTENDS Backtesting

CONSTANTS
    Workers,   \* concurrent callers of run_cycle
    Bars,      \* completed daily candles the market may produce
    Actions,   \* actions the strategy may derive from a prediction
    Window,    \* market_history_observations: candles in a snapshot
    Lookback,  \* candles up to a timestamp that its feature vector needs
    MaxDays    \* bound on completed candles

ASSUME WindowAssumption == Window \in Nat /\ Lookback \in 1..Window
ASSUME ActionAssumption == Actions \subseteq {"BUY", "HOLD", "EXIT"}
ASSUME BarAssumption ==
    /\ Bars # {}
    /\ \A bar \in Bars : /\ bar.low \in Nat \ {0} /\ bar.high \in Nat
                         /\ {bar.open, bar.close} \subseteq bar.low..bar.high

VARIABLES
    market,    \* the completed candles, one per day
    reports,   \* paper_trading_reports of this configuration
    cycle      \* each worker's call: its phase and what it holds in memory

vars == <<market, reports, cycle>>

Today == Len(market)
Idle == [phase |-> "idle"]

-----------------------------------------------------------------------------
(* The engine: one pass over the candles the prior state has not seen.        *)

InitialState == [book |-> InitialBook, sequence |-> 0, last |-> None,
                 pending |-> None, signals |-> <<>>]

\* Reload that reopens a position without the high it has reached, or that loses
\* the observation of the last exit.
ForgetWatermark(state) ==
    IF state.book.position = None THEN state
    ELSE [state EXCEPT !.book.position.high_watermark = state.book.position.entry_price]

ForgetExit(state) == [state EXCEPT !.book.last_exit = None]

\* state_from_report, _load_positions and load_risk_manager: a position is
\* reopened at its fill, then its watermark is raised to the recorded one.
Loaded(state) ==
    IF state.book.position = None THEN state
    ELSE [state EXCEPT !.book.position.high_watermark =
                Max({state.book.position.entry_price, @})]

\* The pending order of the previous observation at this bar's open. None when
\* the approved allocation buys no lot: the simulator raises.
PaperOrder(state, bar, day) ==
    LET book == state.book
        pending == state.pending
        allocation == ApprovedAllocation(
            [index |-> state.sequence, cash |-> book.cash, equity |-> book.cash,
             exposure |-> 0, open_position_count |-> 0, peak |-> book.peak,
             previous_close |-> book.previous_close, last_exit |-> book.last_exit])
        fill == BuyFill(pending.day, day, bar.open, allocation)
    IN  CASE pending # None /\ pending.action = "BUY" /\ book.position = None /\ allocation > 0
               -> IF fill.quantity = 0 THEN None ELSE Buy(book, fill)
          [] pending # None /\ pending.action = "EXIT" /\ book.position # None
               -> Sell(book, SellFill(pending.day, day, bar.open, book.position.quantity),
                       state.sequence)
          [] OTHER -> book

\* Predict first, then let the portfolio trade on it within the same bar.
SameBarObserve(state, day, bar, action) ==
    LET signal == [day |-> day, action |-> action]
        ordered == PaperOrder([Loaded(state) EXCEPT !.pending = signal], bar, day)
    IN  IF ordered = None THEN None
        ELSE [book |-> MarkToMarket(Protect(ordered, bar, day, state.sequence), bar),
              sequence |-> state.sequence + 1, last |-> day, pending |-> signal,
              signals |-> Append(state.signals, signal)]

\* One observation: the pending order, protection and the close, and only then
\* the prediction for this candle, which becomes the next pending signal.
Observe(state, day, bar, action) ==
    LET loaded == Loaded(state)
        ordered == PaperOrder(loaded, bar, day)
        signal == [day |-> day, action |-> action]
    IN  IF ordered = None THEN None
        ELSE [book |-> MarkToMarket(Protect(ordered, bar, day, state.sequence), bar),
              sequence |-> state.sequence + 1, last |-> day, pending |-> signal,
              signals |-> Append(state.signals, signal)]

\* Resume at the newest candle, as a new session does.
NewestDay(last, through) == through

\* _new_candles over the window of the snapshot through a day: only the last
\* candle for a new session, else from the first unseen one; None when that one
\* has left the window.
FirstNewDay(last, through) ==
    IF last = None THEN through
    ELSE IF last + 1 \in (through - Window + 1)..through THEN last + 1
    ELSE None

\* A feature vector is complete only after Lookback candles of the snapshot.
FeaturesComplete(day, through) == day - (through - Window) >= Lookback

\* run_cycle: the state after every new candle in order, None when the cycle
\* raises. The first new candle is the one with the fewest candles before it.
RunCycle(state, through, forecast) ==
    LET first == FirstNewDay(state.last, through)
        states[day \in (first - 1) .. through] ==
            IF day < first THEN state
            ELSE LET before == states[day - 1]
                 IN  IF before = None THEN None
                     ELSE Observe(before, day, market[day], forecast[day])
    IN  IF first = None \/ ~FeaturesComplete(first, through) THEN None
        ELSE states[through]

-----------------------------------------------------------------------------
(* persist_paper_trading_cycle and the report chain.                          *)

Latest == IF reports = {} THEN None
          ELSE CHOOSE r \in reports : \A other \in reports : other.cycle_end <= r.cycle_end

PriorState(previous) == IF previous = None THEN InitialState ELSE previous.state

\* Sequences that count from 0.
ReportFromZero(previous, through, state) ==
    [cycle_sequence |-> IF previous = None THEN 0 ELSE previous.cycle_sequence + 1,
     previous |-> IF previous = None THEN None ELSE previous.cycle_end,
     cycle_end |-> through, state |-> state]

Report(previous, through, state) ==
    [cycle_sequence |-> IF previous = None THEN 1 ELSE previous.cycle_sequence + 1,
     previous |-> IF previous = None THEN None ELSE previous.cycle_end,
     cycle_end |-> through, state |-> state]

\* No cycle can trade on the first bar, so one choice of it stands for all.
Init == /\ market = <<CHOOSE bar \in Bars : TRUE>>
        /\ reports = {}
        /\ cycle = [w \in Workers |-> Idle]

\* A UTC day ends: one more candle is complete.
CompleteCandle ==
    /\ Today < MaxDays
    /\ \E bar \in Bars : market' = Append(market, bar)
    /\ UNCHANGED <<reports, cycle>>

fetch_completed_candles(w) ==
    /\ cycle[w] = Idle
    /\ cycle' = [cycle EXCEPT ![w] = [phase |-> "fetched", through |-> Today]]
    /\ UNCHANGED <<market, reports>>

\* The transaction reads the latest report. A snapshot that adds nothing returns
\* the existing report or raises; otherwise the engine runs, and either raises
\* or leaves a report to insert.
PersistCycle(w) ==
    /\ cycle[w].phase = "fetched"
    /\ LET through == cycle[w].through
           previous == Latest
       IN  IF previous # None /\ through <= previous.cycle_end
           THEN cycle' = [cycle EXCEPT ![w] = Idle]
           ELSE \E forecast \in
                  [(IF previous = None THEN through ELSE previous.cycle_end + 1)..through
                     -> Actions] :
                  LET state == RunCycle(PriorState(previous), through, forecast)
                  IN  cycle' = [cycle EXCEPT ![w] =
                         IF state = None THEN Idle
                         ELSE [phase |-> "flush",
                               report |-> Report(previous, through, state)]]
    /\ UNCHANGED <<market, reports>>

\* The insert and its commit; the unique cycle end fails the loser of a race,
\* whose transaction rolls back.
Flush(w) ==
    /\ cycle[w].phase = "flush"
    /\ reports' = IF \E r \in reports : r.cycle_end = cycle[w].report.cycle_end
                  THEN reports ELSE reports \cup {cycle[w].report}
    /\ cycle' = [cycle EXCEPT ![w] = Idle]
    /\ UNCHANGED market

\* The process stops or its connection drops: nothing of the cycle remains.
Abandon(w) ==
    /\ cycle[w] # Idle
    /\ cycle' = [cycle EXCEPT ![w] = Idle]
    /\ UNCHANGED <<market, reports>>

Next == \/ CompleteCandle
        \/ \E w \in Workers : \/ fetch_completed_candles(w)
                              \/ PersistCycle(w)
                              \/ Flush(w)
                              \/ Abandon(w)

Spec == Init /\ [][Next]_vars

-----------------------------------------------------------------------------
Fills == [side : {"buy", "sell"}, signal_day : Nat, day : Nat, reference : Nat,
          price : Nat, quantity : Nat \ {0}, cash_delta : Int]
Positions == [entry_day : Nat, entry_price : Nat, quantity : Nat \ {0}, high_watermark : Nat]
Signals == [day : Nat, action : Actions]
Books == [cash : Nat, position : Positions \cup {None}, peak : Nat,
          previous_close : Nat, last_exit : Nat \cup {None},
          fills : Seq(Fills), closes : Seq(Nat)]
States == [book : Books, sequence : Nat, last : Nat \cup {None},
           pending : Signals \cup {None}, signals : Seq(Signals)]
Reports == [cycle_sequence : Nat \ {0}, previous : Nat \cup {None},
            cycle_end : Nat, state : States]

ASSUME AbsenceAssumption == None \notin Positions \cup Signals \cup Books \cup States \cup Reports

\* Every report is well formed: the columns of PaperTradingReportRecord, whose
\* constraint also refuses negative cash and equity.
TypeOK ==
    /\ market \in Seq(Bars)
    /\ reports \subseteq Reports
    /\ \A w \in Workers :
          \/ cycle[w] = Idle
          \/ cycle[w] \in [phase : {"fetched"}, through : Nat]
          \/ cycle[w] \in [phase : {"flush"}, report : Reports]

Started(state) == Head(state.signals).day

\* However cycles were batched, raced, failed and were retried, the book a
\* report carries is the one a risk-managed backtest computes in one pass over
\* every day from the session's first to the report's cycle end
\* (PAPER_TRADING.md: every unseen completed candle is processed
\* chronologically; the risk framework and simulator are the backtest's own).
PaperMatchesBacktest ==
    \A r \in reports :
        /\ \A i \in DOMAIN r.state.signals :
              r.state.signals[i].day = Started(r.state) + i - 1
        /\ Last(r.state.signals).day = r.cycle_end
        /\ Simulate(market, r.state.signals) = r.state.book

\* An order executes at the open of the day after the signal that asked for it,
\* never at the close that produced the signal; an exit with no signal executes
\* within the range of the bar that forced it (engine.py passes the previous
\* observation's signal to the portfolio before it predicts).
OrdersExecuteAtNextOpen ==
    \A r \in reports : \A fill \in Range(r.state.book.fills) :
        LET bar == market[fill.day]
        IN  IF fill.side = "sell" /\ fill.signal_day = fill.day
            THEN bar.low <= fill.reference /\ fill.reference <= bar.high
            ELSE /\ fill.day = fill.signal_day + 1
                 /\ fill.reference = bar.open
                 /\ [day |-> fill.signal_day,
                     action |-> IF fill.side = "buy" THEN "BUY" ELSE "EXIT"]
                       \in Range(r.state.signals)

Cash(fills) ==
    LET cash[i \in 0 .. Len(fills)] ==
            IF i = 0 THEN Backtest.initial_capital ELSE cash[i - 1] + fills[i].cash_delta
    IN  cash[Len(fills)]

\* No position is entered during the cooldown after an exit, or while equity is
\* at or below the drawdown limit from its highest close, both measured on the
\* whole history and not on the peak and exit index a cycle reloads
\* (risk/rules.py entry_rejections over state restored by load_risk_manager).
NoEntryAgainstRisk ==
    \A r \in reports :
        LET fills == r.state.book.fills
            closes == r.state.book.closes
        IN  \A i \in DOMAIN fills :
              fills[i].side = "buy" =>
                LET seen == SubSeq(closes, 1, fills[i].day - Started(r.state))
                    peak == Max(Range(seen) \cup {Backtest.initial_capital})
                IN  /\ \A n \in Limit("trading_cooldown") :
                          i > 1 => fills[i].day - fills[i - 1].day > n
                    /\ \A drawdown \in Limit("maximum_drawdown") :
                          Last(seen) > Of(peak, One - drawdown)

\* A position still open at a report's close was not touched, on any day it was
\* held, by the stop-loss or by the trailing stop drawn from the highest of its
\* entry price and the highs of the days before (RISK_MANAGEMENT.md, protective
\* exit chronology), across every cycle that reloaded it.
OpenPositionSurvivedItsStops ==
    \A r \in reports :
        LET held == r.state.book.position
        IN  held # None =>
              \A day \in held.entry_day..r.cycle_end :
                LET high == Max({market[d].high : d \in held.entry_day..(day - 1)}
                                \cup {held.entry_price})
                IN  /\ \A f \in Limit("stop_loss") :
                          market[day].low > Of(held.entry_price, One - f)
                    /\ \A f \in Limit("trailing_stop") :
                          market[day].low > Of(high, One - f)

\* Fills alternate between one entry and one full exit, cash is what the fills
\* left of the initial capital, and an entry never takes it below the reserve
\* (BACKTESTING.md: sizing reserves both notional and entry cost within the
\* allocation).
CashIsConserved ==
    \A r \in reports :
        LET book == r.state.book
        IN  /\ \A i \in DOMAIN book.fills :
                  /\ book.fills[i].side = IF i % 2 = 1 THEN "buy" ELSE "sell"
                  /\ i % 2 = 0 => book.fills[i].quantity = book.fills[i - 1].quantity
                  /\ \A reserve \in Limit("minimum_cash_reserve") :
                        Cash(SubSeq(book.fills, 1, i)) >= reserve
            /\ (book.position # None) = (Len(book.fills) % 2 = 1)
            /\ book.cash = Cash(book.fills)

-----------------------------------------------------------------------------
\* PAPER_TRADING.md:42 "If execution cycles were missed, every unseen completed
\* candle is processed chronologically.": a cycle that starts now can process
\* what the session has not seen, unless a candle is missing from the snapshot.
MissedCyclesAreProcessed ==
    LET last == Latest.cycle_end
    IN  Latest # None /\ last < Today /\ FirstNewDay(last, Today) # None =>
            RunCycle(Latest.state, Today, [d \in 1..Today |-> CHOOSE a \in Actions : TRUE]) # None

\* RISK_MANAGEMENT.md:13 "Each control has its own immutable configuration
\* object and can be enabled or disabled independently": the backtest of what a
\* session observed completes, whichever controls are disabled.
BacktestCompletes ==
    \A r \in reports : Simulate(market, r.state.signals) # None
=============================================================================
