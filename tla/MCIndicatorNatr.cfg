CONSTANTS
    Unit = 576
    Markets <- MCMarkets
    Requests <- NATRRequests
    UnstablePeriods = {0, 1}
    Fresh <- MCFresh
    Starts <- AnyStart
    MathFunction <- MCMathFunction
    Ends <- MCEnds
SPECIFICATION Spec
INVARIANT NATRIsOfItsBar
