SPECIFICATION FairSpec
CONSTANTS
    None = None
    Bad = Bad
    Outlets = 2
INVARIANTS ReadbackTellsTheTruth
PROPERTIES Converges
