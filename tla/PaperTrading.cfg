CONSTANTS
    One = 100
    None = None
    Backtest <- MCBacktest
    Risk <- AllRules
    Workers = {w1, w2}
    Bars <- MCBars
    Actions = {"BUY", "EXIT"}
    Window = 3
    Lookback = 2
    MaxDays = 4
SPECIFICATION Spec
SYMMETRY Symmetry
INVARIANTS
    TypeOK
    PaperMatchesBacktest
    OrdersExecuteAtNextOpen
    NoEntryAgainstRisk
    OpenPositionSurvivedItsStops
    CashIsConserved
