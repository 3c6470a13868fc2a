SPECIFICATION FairSpec
CONSTANTS
    HexCode <- MCHexCode
    NestingLimit = 4
    IntMax = 2147483647
    Files <- MCFiles
    Garbage <- MCGarbage
    Configurations <- FileConfigurations
    Racks <- MCRacks
    Signals <- MCSignals
    Noise <- MCNoise
    Faults = 2
    LastIndex = 4
INVARIANTS EveryReadingReachesItsDevice
