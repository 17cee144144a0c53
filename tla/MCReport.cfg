SPECIFICATION Spec
CONSTANTS
    CentUnits = 27
    Order = 1
    MinSwing = 5
    AtrPeriod = 1
    MinIki = 5
    ScanBack = 60
    ScanTail = 3
    MaxImpulse = 10
    MaxCorrection = 15
    EmaPeriods = {3, 5}
    MinCandles = 5
    ScanCandles = 3
    Lookback = 6
    Parts = {"technical", "pivots", "market", "candlestick", "chart", "scanner", "fundamental"}
    Readings <- MCReadings
    Averages = 3
    PivotCandles <- MCPivotCandles
    Figures <- MCFigures
    Currencies = {"EUR", "USD", "PLN"}
    Cots <- MCCots
    Slopes <- MCSlopes
    Lists <- MCLists
    Start = 2976
    Moves <- MCMoves
    MaxHistory = 6
    External <- MCExternal
    Verdicts <- MCVerdicts
INVARIANTS
    SidesAlike
    OrdersKept
    PatternsReal
    EveryTouchCounted
    StrongVerdictNeverOpposed
    StrategiesPay
    StrategiesMirror
    ScannerComplete
CHECK_DEADLOCK FALSE
