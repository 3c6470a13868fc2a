SPECIFICATION Spec
CONSTANTS
    None = None
    Bad = Bad
    Outlets = 1
PROPERTIES OnlyCommandedOutlets
