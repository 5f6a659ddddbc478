---------------------------- MODULE MCPaperTrading ----------------------------
EXTENDS PaperTrading, TLC
\* Prices in units, fractions and rates in percent, 10 000 units of capital.
MCBacktest == [initial_capital |-> 10000, slippage |-> 1, transaction_cost |-> 1]

Rise == [open |-> 1000, high |-> 1500, low |-> 1000, close |-> 1500]
Hold == [open |-> 1200, high |-> 1300, low |-> 1100, close |-> 1200]
Fall == [open |-> 1000, high |-> 1000, low |-> 600, close |-> 600]
MCBars == {Rise, Hold, Fall}

\* Every rule on; the reserve makes an allocation smaller than the request.
AllRules == [allocation_mode |-> "percentage", allocation_value |-> 60,
             maximum_position_size |-> 60, maximum_position_size_fixed |-> 6000,
             maximum_portfolio_exposure |-> 70, maximum_asset_exposure |-> 70,
             maximum_concurrent_positions |-> 1,
             stop_loss |-> 30, take_profit |-> 60, trailing_stop |-> 20,
             daily_loss_limit |-> 25, maximum_drawdown |-> 15,
             minimum_cash_reserve |-> 4950, trading_cooldown |-> 1]
\* Only position sizing: every independent control disabled.
NoRules == [allocation_mode |-> "fixed", allocation_value |-> 2000,
            maximum_position_size |-> None, maximum_position_size_fixed |-> None,
            maximum_portfolio_exposure |-> None, maximum_asset_exposure |-> None,
            maximum_concurrent_positions |-> None,
            stop_loss |-> None, take_profit |-> None, trailing_stop |-> None,
            daily_loss_limit |-> None, maximum_drawdown |-> None,
            minimum_cash_reserve |-> None, trading_cooldown |-> None]

Symmetry == Permutations(Workers)
=============================================================================
