SPECIFICATION FittingSpec
CONSTANTS
    a = a
    Size = 3
    CellBytes = 2
    Keys <- MCKeys
    Special = {}
    Strokes <- MCStrokes
    WireMax = 2
    ReadSize = 2
INVARIANTS
    PrefixInStep
    QuietWhenMasked
PROPERTIES
    ImplementsFifo
    GetcharReturns
