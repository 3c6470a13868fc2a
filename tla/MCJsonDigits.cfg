CONSTANTS
    HexCode <- MCHexCode
    NestingLimit = 4
    IntMax = 99
    Trees <- MCTrees
    Lower <- TheLower
    Precision15 = 2
    Precision17 = 3
    InverseEpsilon = 300
    DefaultSize = 8
    Sizes = {0, 1, 2, 4, 6, 8, 9, 10, 11, 12, 16, 24, 32, 48}
    MaxRoom = 3
SPECIFICATION Spec
INVARIANT PrintsBackExactly
