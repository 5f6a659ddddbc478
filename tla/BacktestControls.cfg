CONSTANTS
    One = 100
    None = None
    Backtest <- MCBacktest
    Risk <- NoRules
    Workers = {w1}
    Bars <- MCBars
    Actions = {"BUY", "EXIT"}
    Window = 3
    Lookback = 2
    MaxDays = 4
SPECIFICATION Spec
INVARIANT BacktestCompletes
