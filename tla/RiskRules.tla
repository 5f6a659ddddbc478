------------------------------ MODULE RiskRules ------------------------------
(* The trading rules shared by the backtest and by paper trading: the risk    *)
(* manager (backtesting/risk/manager.py, rules.py), the execution simulator   *)
(* (backtesting/execution.py) and the position manager                        *)
(* (backtesting/positions.py).                                                *)
(*                                                                            *)
(* Money, prices and quantities are integers in the smallest unit the         *)
(* arithmetic keeps; a quotient rounds down, as the code's fixed-precision    *)
(* decimals round at their last digit. Fractions and rates are parts of One.  *)
EXTENDS Integers, Sequences, FiniteSetsExt

CONSTANTS
    One,       \* the denominator of every fraction and rate
    None,      \* a rule that is not configured, a value that is absent
    Backtest,  \* [initial_capital, slippage, transaction_cost]
    Risk       \* one field per rule of RiskConfiguration, None when disabled

Fractions == {"maximum_position_size", "maximum_portfolio_exposure", "maximum_asset_exposure",
              "stop_loss", "trailing_stop", "daily_loss_limit", "maximum_drawdown"}
Amounts == {"maximum_position_size_fixed", "take_profit", "maximum_concurrent_positions",
            "minimum_cash_reserve", "trading_cooldown"}

\* What the configuration objects accept (_fraction and the constructors of
\* risk/config.py, BacktestConfig), and two bounds they leave to the caller: with
\* a slippage of 100% every sale raises (execution.py:103), with costs above 100%
\* a sale would take cash.
ASSUME RiskAssumption ==
    /\ One \in Nat \ {0} /\ None \notin Int
    /\ Backtest.initial_capital \in Nat \ {0}
    /\ Backtest.slippage \in 0 .. One - 1 /\ Backtest.transaction_cost \in 0 .. One
    /\ Risk.allocation_value \in Nat \ {0}
    /\ \A rule \in Fractions : Risk[rule] \in (1 .. One) \cup {None}
    /\ \A rule \in Amounts : Risk[rule] \in Nat \cup {None}

Of(amount, fraction) == (amount * fraction) \div One

\* The limit of a rule as a set: empty when the rule is disabled.
Limit(rule) == {Risk[rule]} \ {None}

Above(amount, floor) == Max({amount - floor, 0})

EntryRejected(context) ==
    \/ \E most \in Limit("maximum_concurrent_positions") :
          context.open_position_count >= most
    \/ \E observations \in Limit("trading_cooldown") :
          /\ context.last_exit # None
          /\ context.index - context.last_exit <= observations
    \/ \E loss \in Limit("daily_loss_limit") :
          context.equity <= Of(context.previous_close, One - loss)
    \/ \E drawdown \in Limit("maximum_drawdown") :
          context.equity <= Of(context.peak, One - drawdown)

AllocationCaps(context) ==
    {context.cash}
    \cup {Of(context.equity, f) : f \in Limit("maximum_position_size")}
    \cup Limit("maximum_position_size_fixed")
    \cup {Above(Of(context.equity, f), context.exposure) :
            f \in Limit("maximum_portfolio_exposure") \cup Limit("maximum_asset_exposure")}
    \cup {Above(context.cash, reserve) : reserve \in Limit("minimum_cash_reserve")}

RequestedAllocation(equity) ==
    IF Risk.allocation_mode = "percentage" THEN Of(equity, Risk.allocation_value)
    ELSE Risk.allocation_value

\* The cash a BUY may use; 0 rejects the order.
ApprovedAllocation(context) ==
    IF EntryRejected(context) THEN 0
    ELSE Max({0, Min(AllocationCaps(context) \cup {RequestedAllocation(context.equity)})})

\* The reference price of the protective or profit-taking exit the completed
\* bar forces, None when it forces none. A protective exit takes precedence.
ForcedExit(bar, position, cash, peak, previous_close) ==
    LET EquityTrigger(equity, f) ==
            (Of(equity, One - f) - cash) \div position.quantity
        protective ==
            {Of(position.entry_price, One - f) : f \in Limit("stop_loss")}
            \cup {Of(position.high_watermark, One - f) : f \in Limit("trailing_stop")}
            \cup {EquityTrigger(previous_close, f) : f \in Limit("daily_loss_limit")}
            \cup {EquityTrigger(peak, f) : f \in Limit("maximum_drawdown")}
        hit == {trigger \in protective : bar.low <= trigger}
        profit == {trigger \in {Of(position.entry_price, One + f) :
                                  f \in Limit("take_profit")} : bar.high >= trigger}
    IN  IF hit # {} THEN Min(hit \cup {bar.open})
        ELSE IF profit # {} THEN Max(profit \cup {bar.open})
        ELSE None

\* A quantity that spends the whole allocation on notional and then pays the cost.
BuyFillBeforeCost(signal_day, day, reference, allocation) ==
    LET price == Of(reference, One + Backtest.slippage)
        quantity == allocation \div price
        notional == quantity * price
    IN  [side |-> "buy", signal_day |-> signal_day, day |-> day, reference |-> reference,
         price |-> price, quantity |-> quantity,
         cash_delta |-> -(notional + Of(notional, Backtest.transaction_cost))]

\* The fill of an approved allocation in whole lots. Its quantity may be 0: the
\* simulator then raises.
BuyFill(signal_day, day, reference, allocation) ==
    LET price == Of(reference, One + Backtest.slippage)
        quantity == (allocation * One) \div (price * (One + Backtest.transaction_cost))
        notional == quantity * price
    IN  [side |-> "buy", signal_day |-> signal_day, day |-> day, reference |-> reference,
         price |-> price, quantity |-> quantity,
         cash_delta |-> -(notional + Of(notional, Backtest.transaction_cost))]

SellFill(signal_day, day, reference, quantity) ==
    LET price == Of(reference, One - Backtest.slippage)
        notional == quantity * price
    IN  [side |-> "sell", signal_day |-> signal_day, day |-> day, reference |-> reference,
         price |-> price, quantity |-> quantity,
         cash_delta |-> notional - Of(notional, Backtest.transaction_cost)]

Opened(fill) == [entry_day |-> fill.day, entry_price |-> fill.price,
                 quantity |-> fill.quantity, high_watermark |-> fill.price]

-----------------------------------------------------------------------------
(* A book is what both simulators carry from one observation to the next.     *)
InitialBook ==
    [cash |-> Backtest.initial_capital, position |-> None,
     peak |-> Backtest.initial_capital, previous_close |-> Backtest.initial_capital,
     last_exit |-> None, fills |-> <<>>, closes |-> <<>>]

Buy(book, fill) ==
    [book EXCEPT !.cash = @ + fill.cash_delta, !.position = Opened(fill),
                 !.fills = Append(@, fill)]

Sell(book, fill, index) ==
    [book EXCEPT !.cash = @ + fill.cash_delta, !.position = None,
                 !.last_exit = index, !.fills = Append(@, fill)]

\* Protective exits on the completed bar; only a bar that forces none raises
\* the high watermark.
Protect(book, bar, day, index) ==
    IF book.position = None THEN book
    ELSE LET reference == ForcedExit(bar, book.position, book.cash, book.peak,
                                     book.previous_close)
         IN  IF reference # None
             THEN Sell(book, SellFill(day, day, reference, book.position.quantity), index)
             ELSE [book EXCEPT !.position.high_watermark = Max({@, bar.high})]

MarkToMarket(book, bar) ==
    LET quantity == IF book.position = None THEN 0 ELSE book.position.quantity
        value == book.cash + quantity * bar.close
    IN  [book EXCEPT !.peak = Max({@, value}), !.previous_close = value,
                     !.closes = Append(@, value)]
=============================================================================
