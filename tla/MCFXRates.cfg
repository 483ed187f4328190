SPECIFICATION FXSpec
CONSTANTS
    Spread = 5
    SpreadScale = 1000
    MinPart = 100
    Starts <- MCStarts
INVARIANTS
    NoConversionProfit
    ConversionIsNearest
CHECK_DEADLOCK FALSE
