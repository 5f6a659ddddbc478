----------------------------- MODULE Backtesting -----------------------------
(* The risk-managed backtest (backtesting/risk/portfolio.py) as a function of *)
(* its bars and signals: one pass over the bars, in which a signal executes   *)
(* at the bar after the one that produced it. The configuration has no        *)
(* terminal liquidation, as a paper session requires of it.                   *)
EXTENDS RiskRules, SequencesExt

\* The order scheduled for a bar. None when the simulation raises: the approved
\* allocation buys no lot, or the position manager already holds a position.
BacktestOrder(book, signal, bar, day, index) ==
    LET quantity == IF book.position = None THEN 0 ELSE book.position.quantity
        exposure == quantity * bar.open
        allocation == ApprovedAllocation(
            [index |-> index, cash |-> book.cash, equity |-> book.cash + exposure,
             exposure |-> exposure,
             open_position_count |-> IF book.position = None THEN 0 ELSE 1,
             peak |-> book.peak, previous_close |-> book.previous_close,
             last_exit |-> book.last_exit])
        fill == BuyFill(signal.day, day, bar.open, allocation)
    IN  CASE signal.action = "BUY" /\ allocation > 0
               -> IF fill.quantity = 0 \/ book.position # None THEN None ELSE Buy(book, fill)
          [] signal.action = "EXIT" /\ book.position # None
               -> Sell(book, SellFill(signal.day, day, bar.open, quantity), index)
          [] OTHER -> book

\* The book after the bar of one more signal's day: the order of the signal before
\* it, protection and the close. None once the run has raised.
BookAfter(bars, signals, book, i) ==
    LET day == signals[i].day
        ordered == IF book = None \/ i = 1 THEN book
                   ELSE BacktestOrder(book, signals[i - 1], bars[day], day, i - 1)
    IN  IF ordered = None THEN None
        ELSE MarkToMarket(Protect(ordered, bars[day], day, i - 1), bars[day])

\* The book after the bars of the signals' days, None when the run raises.
\* bars maps a day to its bar; signals[i] was generated on day signals[i].day.
Simulate(bars, signals) ==
    LET books[i \in 0 .. Len(signals)] ==
            IF i = 0 THEN InitialBook
            ELSE LET book == books[i - 1] IN BookAfter(bars, signals, book, i)
    IN  books[Len(signals)]
=============================================================================
