SPECIFICATION FairSpec
CONSTANTS
    None = None
    Bad = Bad
    Outlets = 1
PROPERTIES FaultsEnd
