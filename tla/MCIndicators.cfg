CONSTANTS
    Unit = 576
    Markets <- MCMarkets
    Requests <- AllRequests
    UnstablePeriods = {0, 1, 2}
    Fresh <- MCFresh
    Starts <- MCStarts
    MathFunction <- MCMathFunction
    Ends <- MCEnds
SPECIFICATION Spec
INVARIANTS TypeOK SameAsDefinition OutputsFit RangeAsPromised Bounded
