SPECIFICATION Spec
CONSTANTS
    Unit = 400
    Periods <- MCPeriods
    Factors <- MCFactors
    Penetrations <- MCPenetrations
    AllBars <- AllSeries
    Patterns <- AllPatterns
    Ranges <- AnyRange
    Start <- StartShort
    Changes <- OneChange
    Resets <- AllTypes
INVARIANT TypeOK
INVARIANT SameFromAnyStart
INVARIANT ReadsInsideInput
INVARIANT ConfirmationFollowsHikkake
INVARIANT MirrorImage
INVARIANT Kinships
INVARIANT ToldApart
PROPERTY Complete
